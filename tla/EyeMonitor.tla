----------------------------- MODULE EyeMonitor -----------------------------
(***************************************************************************)
(* The hardware ufseom talks to, as the program relies on it: one eye      *)
(* monitor per side and connected lane, and the link whose power mode      *)
(* change (PMC) triggers the re-configuration (RCT) that starts the        *)
(* monitors.  None of this is code of the repository; it is read off the   *)
(* attributes the program writes and the answers it waits for.             *)
(***************************************************************************)
EXTENDS EomSteps

CONSTANTS
    Connected,          \* the lanes of the link that exist
    ErrorThreshold,     \* error count at which a monitor stops (0x3C in the PHY)
    ClearOnEnable,      \* writing ENABLE = 1 stops the monitor and clears its counters
    StartWithPmc,       \* a monitor is running by the time the PMC is reported done
    Leftovers           \* sets of monitors an earlier, failed run may have left enabled

ASSUME MonitorAssumption ==
    /\ Connected \subseteq LaneNumbers
    /\ 0 \in Connected
    /\ ErrorThreshold \in Nat \ {0}
    /\ ClearOnEnable \in BOOLEAN
    /\ StartWithPmc \in BOOLEAN
    /\ Leftovers \subseteq SUBSET (Sides \X Connected)

VARIABLES
    mon,    \* the attributes and counters of each monitor
    link    \* PMC in progress or not, and the TX adapt type asked for and in force

Monitors == Sides \X Connected

Registers == 0 .. 127

\* What the counters of a monitor are counts of.  "mine" tells a run started
\* since ufseom began from one that was already there.
RunSettings == [timing : Registers, volt : Registers, no_adapt : BOOLEAN, mine : BOOLEAN]

MonitorStates ==
    [enable : BOOLEAN, timing : Registers, volt : Registers, target : Registers,
     armed : BOOLEAN, start : BOOLEAN, tested : Nat, errors : Nat, run : RunSettings]

LinkStates == [pmc : {"up", "busy"}, adapt_type : {"NO_ADAPT", "other"}, no_adapt : BOOLEAN]

MonitorTypeOK ==
    /\ mon \in [Monitors -> MonitorStates]
    /\ link \in LinkStates

OldRun == [timing |-> 0, volt |-> 0, no_adapt |-> TRUE, mine |-> FALSE]

Idle ==
    [enable |-> FALSE, timing |-> 0, volt |-> 0, target |-> 0, armed |-> FALSE,
     start |-> FALSE, tested |-> 0, errors |-> 0, run |-> OldRun]

\* A monitor of an earlier run that ended early is still enabled, stopped at
\* its error threshold, with its counters as they were.
LeftEnabled ==
    [Idle EXCEPT !.enable = TRUE, !.target = 1,
                 !.tested = ErrorThreshold, !.errors = ErrorThreshold]

MonitorInit ==
    /\ \E left \in Leftovers :
         mon = [m \in Monitors |-> IF m \in left THEN LeftEnabled ELSE Idle]
    /\ link = [pmc |-> "up", adapt_type |-> "other", no_adapt |-> FALSE]

-----------------------------------------------------------------------------
\* The state of monitor s after one of its attributes is written.
Written(s, attr, x) ==
    CASE attr = "enable" /\ x = 1 ->
            IF ClearOnEnable
            THEN [s EXCEPT !.enable = TRUE, !.armed = FALSE, !.start = FALSE,
                           !.tested = 0, !.errors = 0]
            ELSE [s EXCEPT !.enable = TRUE]
      [] attr = "enable" /\ x = 0 ->
            [s EXCEPT !.enable = FALSE, !.armed = FALSE, !.start = FALSE]
      [] attr = "timing" -> [s EXCEPT !.timing = x]
      [] attr = "voltage" -> [s EXCEPT !.volt = x]
      [] attr = "target" -> [s EXCEPT !.target = x]

Started(s, no_adapt) ==
    [s EXCEPT !.armed = FALSE, !.start = TRUE, !.tested = 0, !.errors = 0,
              !.run = [timing |-> s.timing, volt |-> s.volt,
                       no_adapt |-> no_adapt, mine |-> TRUE]]

\* The PMC ends: the adapt type asked for is in force and the RCT starts every
\* enabled monitor, of either side, at once or a little later.
PmcDone ==
    /\ link.pmc = "busy"
    /\ link' = [link EXCEPT !.pmc = "up", !.no_adapt = (link.adapt_type = "NO_ADAPT")]
    /\ mon' = [m \in Monitors |->
                 IF ~mon[m].enable THEN mon[m]
                 ELSE IF StartWithPmc THEN Started(mon[m], link'.no_adapt)
                 ELSE [mon[m] EXCEPT !.armed = TRUE]]

MonStart(m) ==
    /\ mon[m].armed
    /\ mon' = [mon EXCEPT ![m] = Started(@, link.no_adapt)]
    /\ UNCHANGED link

\* One more sample is compared; the monitor stops by itself at its target test
\* count or at the error threshold.
Tick(m) ==
    /\ mon[m].start
    /\ \E e \in {0, 1} :
         LET tested == mon[m].tested + 1
             errors == mon[m].errors + e
         IN  mon' = [mon EXCEPT ![m] =
                       [@ EXCEPT !.tested = tested, !.errors = errors,
                                 !.start = tested < mon[m].target /\ errors < ErrorThreshold]]
    /\ UNCHANGED link

MonitorNext == PmcDone \/ \E m \in Monitors : MonStart(m) \/ Tick(m)
=============================================================================
