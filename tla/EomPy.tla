-------------------------------- MODULE EomPy --------------------------------
(***************************************************************************)
(* The script ufs-eom.py: the scan driven from a host.  Each attribute is  *)
(* read or written by a process of its own, "adb shell lsufs uic ...", and *)
(* is one action here.  A write whose failure nobody looks at may be lost; *)
(* a read that fails ends the script or gives None.  A definition whose    *)
(* name ends in Slip is the one after it with a slip in it; nothing uses   *)
(* it.                                                                     *)
(***************************************************************************)
EXTENDS EyeMonitor, Sequences

CONSTANTS
    PyOptions,          \* the options eom_prepare lets through
    Limits,             \* the timing and voltage steps the monitors may have
    MaxLoss,            \* so many calls over adb may fail in a run: a bound
    TranslatesDevice    \* lsufs prints the device descriptor by field names

ASSUME EomPyAssumption ==
    /\ \A o \in PyOptions :
         /\ o.side \in Sides
         /\ IsOptional(o.lane, Nat)
         /\ IsOptional(o.voltage, Int)
         /\ o.target \in 1 .. EOM_TARGET_TEST_COUNT_MAX
    /\ \A d \in Limits : d.timing \in Nat /\ d.voltage \in Nat
    /\ MaxLoss \in Nat
    /\ TranslatesDevice \in BOOLEAN

VARIABLES
    pc,         \* what the script does next
    opt,        \* the options
    adb,        \* how this adb behaves, the same for the whole run
    limits,     \* the steps the monitors have
    caps,       \* TimingMaxSteps and VoltageMaxSteps as they were read
    cur,        \* lane, timing and voltage of the loops of eom_start
    cfg,        \* the next attribute config_eom writes
    tested,     \* test_count
    rows,       \* the rows of the report
    trailer     \* the report ends with "EOM Scan Finished!"

\* Kept for the properties alone.
VARIABLES
    skipped,    \* how many points were left out
    failures,   \* how many calls have failed, not counted beyond MaxLoss + 1
    lost        \* a write of a point was lost: "never", "before" this point, or "now"

scriptVars == <<pc, opt, adb, limits, caps, cur, cfg, tested, rows, trailer>>
history == <<skipped, failures, lost>>
vars == <<scriptVars, history, mon, link>>

\* slow: a round trip of adb takes longer than a power mode change.
\* status: adb hands on the exit status of lsufs, so that check_output raises.
AdbKinds == [slow : BOOLEAN, status : BOOLEAN]

Labels == {"device_info", "caps", "voltage", "enable", "config", "start", "tested",
           "errors", "disable", "finish", "done", "died", "exited"}
Over == pc \in {"done", "died", "exited"}

Rows == [lane : Nat, timing : Int, volt : Int, error_cnt : Nat]

TypeOK ==
    /\ MonitorTypeOK
    /\ pc \in Labels
    /\ opt \in PyOptions
    /\ adb \in AdbKinds
    /\ limits \in Limits
    /\ IsOptional(caps.timing, Nat) /\ IsOptional(caps.voltage, Nat)
    /\ cur \in [l : Nat, t : Int, v : Int]
    /\ cfg \in 1 .. 6
    /\ IsOptional(tested, Nat)
    /\ rows \in Seq(Rows)
    /\ trailer \in BOOLEAN
    /\ skipped \in Nat
    /\ failures \in 0 .. MaxLoss + 1
    /\ lost \in {"never", "before", "now"}

Init ==
    /\ MonitorInit
    /\ pc = "device_info"
    /\ opt \in PyOptions
    /\ adb \in AdbKinds
    /\ limits \in Limits
    /\ caps = [timing |-> None, voltage |-> None]
    /\ cur = [l |-> 0, t |-> 0, v |-> 0]
    /\ cfg = 1
    /\ tested = None
    /\ rows = <<>>
    /\ trailer = FALSE
    /\ skipped = 0
    /\ failures = 0
    /\ lost = "never"

-----------------------------------------------------------------------------
\* determine_lanes: a lane beyond the second is reported and scanned all the same.
StartLane(o) == IF o.lane = None THEN 0 ELSE The(o.lane)
LaneCount(o) == IF o.lane = None THEN 2 ELSE 1

\* What is scanned: every timing, and one voltage or every voltage.
Area(o, d) ==
    [lane |-> StartLane(o), num_lanes |-> LaneCount(o),
     timing_left |-> -d.timing, timing_right |-> d.timing,
     voltage_low |-> IF o.voltage = None THEN -d.voltage ELSE The(o.voltage),
     voltage_high |-> IF o.voltage = None THEN d.voltage ELSE The(o.voltage)]

area == Area(opt, limits)

\* determine_voltage, with abs.
VoltageInside == opt.voltage = None \/ Within(The(opt.voltage), limits.voltage)

Goto(label) == pc' = label

Failed == failures > 0
CountFailureIf(b) == failures' = IF b /\ failures <= MaxLoss THEN failures + 1 ELSE failures
Die == Goto("died") /\ CountFailureIf(TRUE)

Mon == <<opt.side, cur.l>>

Answers(l) == l \in Connected
Loss == failures < MaxLoss
MayFail(l) == Loss \/ l \notin Connected

\* uic_get: the value; None, when lsufs fails and adb keeps its status to itself;
\* or an exception out of check_output.
Outcomes(l, x) ==
    (IF Answers(l) THEN {Some(x)} ELSE {})
        \cup (IF MayFail(l) /\ ~adb.status THEN {None} ELSE {})
Raises(l) == Loss \/ (l \notin Connected /\ adb.status)

\* get_device_info: four descriptors are read; a line it looks for that is not
\* there ends the script as a failed call does.
GetDeviceInfo ==
    /\ pc = "device_info"
    /\ \/ ~TranslatesDevice /\ Goto("caps") /\ UNCHANGED failures
       \/ TranslatesDevice /\ Goto("died") /\ UNCHANGED failures
       \/ Loss /\ Die
    /\ UNCHANGED <<opt, adb, limits, caps, cur, cfg, tested, rows, trailer,
                   skipped, lost, mon, link>>

\* get_eom_caps, on the first lane.
GetEomCaps ==
    /\ pc = "caps"
    /\ \/ /\ \E t \in Outcomes(StartLane(opt), limits.timing),
                v \in Outcomes(StartLane(opt), limits.voltage) :
               /\ caps' = [timing |-> t, voltage |-> v]
               /\ CountFailureIf(None \in {t, v})
          /\ Goto("voltage")
       \/ Raises(StartLane(opt)) /\ Die /\ UNCHANGED caps
    /\ UNCHANGED <<opt, adb, limits, cur, cfg, tested, rows, trailer,
                   skipped, lost, mon, link>>

\* determine_voltage and the head of eom_start: None cannot be compared with, and
\* a voltage that is not inside ends the script with the report closed.
DetermineVoltage ==
    /\ pc = "voltage"
    /\ IF opt.voltage = None THEN Goto("enable")
       ELSE IF caps.voltage = None THEN Goto("died")
       ELSE Goto(IF Within(The(opt.voltage), The(caps.voltage)) THEN "enable" ELSE "exited")
    /\ cur' = [l |-> area.lane, t |-> area.timing_left, v |-> area.voltage_low]
    /\ UNCHANGED <<opt, adb, limits, caps, cfg, tested, rows, trailer,
                   history, mon, link>>

-----------------------------------------------------------------------------
\* uic_set: nothing is raised and nothing is returned, so a write that is lost
\* goes unnoticed.
Set(l, effect, loss) ==
    \/ Answers(l) /\ effect /\ UNCHANGED <<failures, lost>>
    \/ MayFail(l) /\ UNCHANGED <<mon, link>> /\ CountFailureIf(TRUE) /\ lost' = loss

WriteMon(attr, x) == mon' = [mon EXCEPT ![Mon] = Written(@, attr, x)] /\ UNCHANGED link

\* The range of None is an exception, raised once the monitor is enabled.
LoopsRun == caps.timing # None /\ (opt.voltage = None => caps.voltage # None)

EnableLane ==
    /\ pc = "enable"
    /\ Set(cur.l, WriteMon("enable", 1), IF lost = "never" THEN "before" ELSE lost)
    /\ Goto(IF LoopsRun THEN "config" ELSE "died")
    /\ UNCHANGED <<opt, adb, limits, caps, cur, cfg, tested, rows, trailer, skipped>>

ConfigOrderSlip ==      \* the PMC before NO_ADAPT is selected
    <<"enable", "timing", "voltage", "target", "pwrmode", "adapt_type">>

\* config_eom; the last two attributes are of the local link.
ConfigOrder == <<"enable", "timing", "voltage", "target", "adapt_type", "pwrmode">>

ConfigValue(attr) ==
    [enable |-> 1, timing |-> StepConfig(cur.t), voltage |-> StepConfig(cur.v),
     target |-> opt.target][attr]

ConfigEffect(attr) ==
    \/ attr = "adapt_type" /\ link' = [link EXCEPT !.adapt_type = "NO_ADAPT"] /\ UNCHANGED mon
    \/ attr = "pwrmode" /\ link' = [link EXCEPT !.pmc = "busy"] /\ UNCHANGED mon
    \/ attr \in {"enable", "timing", "voltage", "target"} /\ WriteMon(attr, ConfigValue(attr))

ConfigLane(attr) == IF attr \in {"adapt_type", "pwrmode"} THEN 0 ELSE cur.l

ConfigWrite ==
    /\ pc = "config"
    /\ LET attr == ConfigOrder[cfg]
           last == cfg = Len(ConfigOrder)
       IN  /\ Set(ConfigLane(attr), ConfigEffect(attr), "now")
           /\ cfg' = IF last THEN 1 ELSE cfg + 1
           /\ Goto(IF last THEN "start" ELSE "config")
    /\ UNCHANGED <<opt, adb, limits, caps, cur, tested, rows, trailer, skipped>>

-----------------------------------------------------------------------------
NextPointSlip ==        \* range(-TimingMaxSteps, TimingMaxSteps)
    IF cur.v < area.voltage_high
    THEN cur' = [cur EXCEPT !.v = @ + 1] /\ Goto("config")
    ELSE IF cur.t + 1 < area.timing_right
    THEN cur' = [cur EXCEPT !.t = @ + 1, !.v = area.voltage_low] /\ Goto("config")
    ELSE UNCHANGED cur /\ Goto("disable")

\* The break out of the loop of eom_scan, and the two inner loops of eom_start.
NextPoint ==
    IF cur.v < area.voltage_high
    THEN cur' = [cur EXCEPT !.v = @ + 1] /\ Goto("config")
    ELSE IF cur.t < area.timing_right
    THEN cur' = [cur EXCEPT !.t = @ + 1, !.v = area.voltage_low] /\ Goto("config")
    ELSE UNCHANGED cur /\ Goto("disable")

LeaveWrites == lost' = IF lost = "now" THEN "before" ELSE lost

SkipPoint ==
    /\ NextPoint
    /\ LeaveWrites
    /\ skipped' = skipped + 1
    /\ CountFailureIf(TRUE)
    /\ UNCHANGED rows

PrintRowSlip(error_count) ==       \* timing and voltage the wrong way round
    /\ rows' = Append(rows, [lane |-> cur.l, timing |-> cur.v, volt |-> cur.t,
                             error_cnt |-> error_count])
    /\ NextPoint
    /\ LeaveWrites
    /\ UNCHANGED <<skipped, failures>>

PrintRow(error_count) ==
    /\ rows' = Append(rows, [lane |-> cur.l, timing |-> cur.t, volt |-> cur.v,
                             error_cnt |-> error_count])
    /\ NextPoint
    /\ LeaveWrites
    /\ UNCHANGED <<skipped, failures>>

StayAt(label) == Goto(label) /\ UNCHANGED <<cur, rows, skipped, failures, lost>>
DieAt == Die /\ UNCHANGED <<cur, rows, skipped, lost>>

GetStart ==
    /\ pc = "start"
    /\ adb.slow => link.pmc = "up"
    /\ \/ \E s \in Outcomes(cur.l, mon[Mon].start) :
            IF s = None THEN SkipPoint
            ELSE StayAt(IF The(s) THEN "start" ELSE "tested")
       \/ Raises(cur.l) /\ DieAt
    /\ UNCHANGED <<opt, adb, limits, caps, cfg, tested, trailer, mon, link>>

GetTested ==
    /\ pc = "tested"
    /\ \/ /\ tested' \in Outcomes(cur.l, mon[Mon].tested)
          /\ CountFailureIf(tested' = None)
          /\ Goto("errors")
       \/ Raises(cur.l) /\ Die /\ UNCHANGED tested
    /\ UNCHANGED <<opt, adb, limits, caps, cur, cfg, rows, trailer, skipped, lost, mon, link>>

EomStoppedSlip(tested_count, error_count) ==            \* the error threshold left out
    tested_count >= opt.target

EomStopped(tested_count, error_count) ==
    tested_count >= opt.target \/ error_count >= ErrorThreshold

\* Both counters are there and say that the monitor has stopped: the row. Both
\* are there: once more. Otherwise the point is left out.
GetErrors ==
    /\ pc = "errors"
    /\ tested' = None
    /\ \/ \E e \in Outcomes(cur.l, mon[Mon].errors) :
            IF None \in {tested, e} THEN SkipPoint
            ELSE IF EomStopped(The(tested), The(e)) THEN PrintRow(The(e))
            ELSE StayAt("start")
       \/ Raises(cur.l) /\ DieAt
    /\ UNCHANGED <<opt, adb, limits, caps, cfg, trailer, mon, link>>

-----------------------------------------------------------------------------
DisabledLaneSlip == StartLane(opt)      \* always the first lane

DisabledLane == cur.l

\* The end of a lane, and the outer loop of eom_start.
DisableLane ==
    /\ pc = "disable"
    /\ Set(DisabledLane,
           /\ mon' = [mon EXCEPT ![<<opt.side, DisabledLane>>] = Written(@, "enable", 0)]
           /\ UNCHANGED link,
           "before")
    /\ IF cur.l + 1 < area.lane + area.num_lanes
       THEN cur' = [l |-> cur.l + 1, t |-> area.timing_left, v |-> area.voltage_low] /\ Goto("enable")
       ELSE UNCHANGED cur /\ Goto("finish")
    /\ UNCHANGED <<opt, adb, limits, caps, cfg, tested, rows, trailer, skipped>>

\* The last line of the report, whatever was left out of it.
Finish ==
    /\ pc = "finish"
    /\ trailer' = TRUE
    /\ Goto("done")
    /\ UNCHANGED <<opt, adb, limits, caps, cur, cfg, tested, rows, history, mon, link>>

Terminated == Over /\ UNCHANGED vars

Script ==
    \/ GetDeviceInfo \/ GetEomCaps \/ DetermineVoltage
    \/ EnableLane \/ ConfigWrite \/ GetStart \/ GetTested \/ GetErrors
    \/ DisableLane \/ Finish

Hardware == MonitorNext /\ UNCHANGED <<scriptVars, history>>

Next == Script \/ Hardware \/ Terminated

\* As for ufseom: the script is scheduled, a PMC ends, a triggered monitor starts
\* and a running one goes on.
Fairness ==
    /\ WF_vars(Script)
    /\ WF_vars(PmcDone /\ UNCHANGED <<scriptVars, history>>)
    /\ \A m \in Monitors :
         /\ WF_vars(MonStart(m) /\ UNCHANGED <<scriptVars, history>>)
         /\ WF_vars(Tick(m) /\ UNCHANGED <<scriptVars, history>>)

Spec == Init /\ [][Next]_vars
FairSpec == Spec /\ Fairness

-----------------------------------------------------------------------------
\* What the last row says when a row is added, provided no write of its point was
\* lost: either no call has failed at all, or adb is slow and none of the point has.
RowMeasured ==
    Len(rows') > Len(rows) /\ (~Failed \/ (adb.slow /\ lost # "now")) =>
        LET r == rows'[Len(rows')]
            s == mon[<<opt.side, r.lane>>]
        IN  /\ s.run.mine /\ s.run.no_adapt
            /\ StepOf(s.run.timing) = r.timing
            /\ StepOf(s.run.volt) = r.volt
            /\ ~s.start /\ ~s.armed
            /\ s.tested >= opt.target \/ s.errors >= ErrorThreshold
            /\ r.error_cnt = s.errors

\* A row (ufs-eom.py:241-253) is of a measurement of that very point, finished,
\* if no call has failed.  If calls do fail, a write that is lost spoils the row
\* of its own point alone, provided that adb is slower than a power mode change:
\* a faster adb may set up a point while the change of a point left out is still
\* to come.
RowsAreMeasured == [][RowMeasured]_vars

\* The loop of eom_scan (241) has no bound.  It goes on for ever in one case
\* only: a write of the point at hand was lost.
EndsUnlessWriteLost == <>Over \/ <>[](lost = "now")

\* A run of which no call failed, and whose voltage is inside the limits, ends
\* with a report of every point of the area (eom_start, 207-224), in order.
CompleteUnlessFailed ==
    Over /\ ~Failed /\ VoltageInside =>
        /\ trailer /\ skipped = 0
        /\ Len(rows) = ResultCount(area)
        /\ \A i \in 1 .. Len(rows) :
             GridIndex(area, rows[i].lane, rows[i].timing, rows[i].volt) = i - 1

\* The lanes that eom_start has passed (207-219) are disabled, unless a write was
\* lost: a monitor left enabled is started again by every power mode change of
\* the lanes after it.
MonitorsReleased ==
    lost = "never" =>
        \A l \in Connected :
            (/\ area.lane <= l
             /\ \/ pc \in {"config", "start", "tested", "errors"} /\ l < cur.l
                \/ trailer /\ l < area.lane + area.num_lanes)
            => ~mon[<<opt.side, l>>].enable

\* How the run ended, as its reader sees it.
ScanOutcome ==
    IF trailer THEN "finished" ELSE IF pc \in {"died", "exited"} THEN "abandoned" ELSE "none"

\* The run seen as a sweep that may leave points out.
BestEffort == INSTANCE BestEffortSweep WITH
    ErrorCounts <- 0 .. ErrorThreshold,
    grid <- GridOf(area),
    passed <- Len(rows) + skipped,
    outcome <- ScanOutcome

\* ufs-eom.py implements it, whatever fails.
StepsRefineBestEffort == BestEffort!Spec

\* README.md:22 says: "`ufs-eom.py` eventually generates a report".  Then a run of
\* which no call failed has generated one.
ReportGenerated == Over /\ ~Failed /\ VoltageInside => trailer
=============================================================================
