------------------------- MODULE UfseomOutcome_proofs -------------------------
(***************************************************************************)
(* Theorems about what a run of ufseom leaves behind: its files and        *)
(* buffers, the monitors it enabled, what it makes known of the scan, and  *)
(* that each row it logs is of a measurement of that very point, if the    *)
(* hardware restarts the monitor for each point in one of two ways and the *)
(* steps of the device fit the six bits of a register.                     *)
(***************************************************************************)
EXTENDS Ufseom_proofs

-----------------------------------------------------------------------------
(***************************************************************************)
(* Files and buffers.                                                      *)
(***************************************************************************)
IoFiles == IF opt.do_io THEN {"tmp", "buf"} ELSE {}

\* What is held at each label: the labels at the end of main release the rest of
\* it in turn.
HeldInv ==
    /\ pc = "open" => held = {}
    /\ pc \in {"support", "prepare"} => held = {"bsg"}
    /\ pc \in {"limits", "range", "alloc"} => held = {"bsg"} \cup IoFiles
    /\ pc \in Scanning \cup {"report"} => held = {"bsg", "er"} \cup IoFiles
    /\ pc = "out" => held \subseteq {"bsg", "tmp", "buf", "er"}
    /\ pc = "close_tmp" => held \subseteq {"bsg", "tmp"}
    /\ pc = "close_bsg" => held \subseteq {"bsg"}
    /\ pc = "done" => held = {}

LEMMA HeldStep == TypeOK /\ HeldInv /\ [Next]_vars => HeldInv'
<1> SUFFICES ASSUME TypeOK, HeldInv, [Next]_vars PROVE HeldInv'
  OBVIOUS
<1> USE DEF Goto, Fail, Scanning, HeldInv, IoFiles
<1>1. CASE OpenBsg
  BY <1>1 DEF OpenBsg
<1>2. CASE CheckSupport
  BY <1>2 DEF CheckSupport
<1>3. CASE PrepareIo
  BY <1>3 DEF PrepareIo
<1>4. CASE ReadLimits
  BY <1>4 DEF ReadLimits
<1>5. CASE CheckRange
  <2>1. opt'.do_io = opt.do_io
    BY <1>5 DEF CheckRange, Resolve, TypeOK, AcceptedOptions
  <2> QED
    BY <1>5, <2>1 DEF CheckRange
<1>6. CASE AllocResults
  BY <1>6 DEF AllocResults
<1>7. CASE ConfigWrite \/ PollUnipro \/ Delay
  BY <1>7 DEF ConfigWrite, PollUnipro, Delay
<1>8. CASE DoIo \/ GetStart \/ GetTested
  BY <1>8 DEF DoIo, GetStart, GetTested
<1>9. CASE GetErrors
  BY <1>9 DEF GetErrors, LogRow, NextPoint
<1>10. CASE DisableMonitor
  BY <1>10 DEF DisableMonitor
<1>11. CASE GenerateReport
  BY <1>11 DEF GenerateReport
<1>12. CASE FreeBuffers \/ CloseTmp \/ CloseBsg
  BY <1>12 DEF FreeBuffers, CloseTmp, CloseBsg, Release
<1>13. CASE Hardware \/ Terminated \/ UNCHANGED vars
  BY <1>13 DEF Hardware, Terminated, vars, progVars
<1> QED
  BY <1>1, <1>2, <1>3, <1>4, <1>5, <1>6, <1>7, <1>8, <1>9, <1>10, <1>11, <1>12, <1>13
     DEF Next, Program

\* Whatever fails and wherever, main ends with nothing open or allocated, and the
\* scan has all it needs.
THEOREM EverythingReleased == Spec => []NoLeak
<1>1. Init => HeldInv
  BY DEF Init, HeldInv, Scanning
<1>2. TypeOK /\ HeldInv /\ [Next]_vars => HeldInv'
  BY HeldStep
<1>3. HeldInv => NoLeak
  BY DEF HeldInv, NoLeak, IoFiles
<1> QED
  BY <1>1, <1>2, <1>3, TypeCorrect, PTL DEF Spec

-----------------------------------------------------------------------------
(***************************************************************************)
(* Monitors.                                                               *)
(***************************************************************************)
Enabled(l) == mon[<<opt.local_peer, l>>].enable

\* As MonitorsReleased, from the end of the last lane on.
ReleaseInv ==
    \A l \in Connected :
        (/\ opt.lane <= l
         /\ \/ pc \in Scanning /\ l < cur.l
            \/ (pc = "report" \/ report.saved) /\ l < opt.lane + opt.num_lanes)
        => ~Enabled(l)

\* A write that sets up a point touches the monitor of the lane at hand alone.
LEMMA ConfigKeepsOthers ==
    ASSUME TypeOK, NEW attr, ConfigEffect(attr), NEW m \in Monitors, m # Mon
    PROVE  mon'[m] = mon[m]
BY DEF ConfigEffect, TypeOK, MonitorTypeOK

LEMMA LanesAreMonitors ==
    ASSUME TypeOK, NEW l \in Connected
    PROVE  <<opt.local_peer, l>> \in Monitors
BY DEF TypeOK, AcceptedOptions, Monitors

\* The lane at hand is disabled before the next one, or the report, is begun.
LEMMA ReleaseDisable ==
    ASSUME IInv, ReleaseInv, DisableMonitor
    PROVE  ReleaseInv'
<1> USE DEF Goto, Fail
<1>1. /\ pc = "disable" /\ pc \in Scanning /\ ~report.saved
      /\ UNCHANGED <<opt, report>>
      /\ cur.l + cur.n = opt.lane + opt.num_lanes
      /\ cur.l \in Nat /\ cur.n \in Nat
  BY DEF DisableMonitor, IInv, OutcomeInv, Ending, ScanProgress, Scanning, TypeOK, Cursors
<1>2. CASE pc' = "out"
  BY <1>1, <1>2 DEF ReleaseInv, Scanning
<1>3. CASE pc' # "out"
  <2>1. DisableEffect /\ Answers(cur.l)
    BY <1>3 DEF DisableMonitor
  <2>2. /\ pc' \in {"config", "report"}
        /\ pc' = "config" => cur'.l = cur.l + 1
        /\ pc' = "report" => cur.n <= 1
    BY <1>1, <1>3 DEF DisableMonitor
  <2>3. SUFFICES ASSUME NEW l \in Connected, opt.lane <= l, l <= cur.l
                 PROVE  ~mon'[<<opt.local_peer, l>>].enable
    <3>1. Connected \subseteq Nat /\ opt.lane \in Nat /\ opt.num_lanes \in Nat
      BY MonitorAssumption DEF IInv, TypeOK, AcceptedOptions, LaneNumbers
    <3>2. ASSUME NEW l \in Connected,
                 \/ pc' \in Scanning /\ l < cur'.l
                 \/ (pc' = "report" \/ report'.saved) /\ l < opt.lane + opt.num_lanes
          PROVE  l <= cur.l
      BY <1>1, <2>2, <3>1, <3>2 DEF Scanning
    <3> QED
      BY <1>1, <2>3, <3>2 DEF ReleaseInv, Enabled
  <2>4. <<opt.local_peer, l>> \in Monitors /\ Mon \in Monitors
    BY <2>1, LanesAreMonitors DEF IInv, Answers, Mon
  <2>5. mon \in [Monitors -> MonitorStates]
    BY DEF IInv, TypeOK, MonitorTypeOK
  <2>6. CASE l = cur.l
    <3>1. mon'[Mon] = Written(mon[Mon], "enable", 0)
      BY <2>1, <2>4, <2>5 DEF DisableEffect
    <3>2. \A s \in MonitorStates : Written(s, "enable", 0).enable = FALSE
      <4>1. \A s \in MonitorStates :
               Written(s, "enable", 0)
                 = [s EXCEPT !.enable = FALSE, !.armed = FALSE, !.start = FALSE]
        BY DEF Written
      <4>2. \A s \in MonitorStates :
               [s EXCEPT !.enable = FALSE, !.armed = FALSE, !.start = FALSE].enable = FALSE
        BY DEF MonitorStates
      <4> QED
        BY <4>1, <4>2
    <3> QED
      BY <2>4, <2>5, <2>6, <3>1, <3>2 DEF Mon
  <2>7. CASE l # cur.l
    <3>1. l < cur.l
      <4>1. l \in Nat
        BY MonitorAssumption DEF LaneNumbers
      <4> QED
        BY <1>1, <2>3, <2>7, <4>1
    <3>2. ~mon[<<opt.local_peer, l>>].enable
      BY <1>1, <2>3, <3>1 DEF ReleaseInv, Enabled
    <3>3. mon'[<<opt.local_peer, l>>] = mon[<<opt.local_peer, l>>]
      BY <2>1, <2>4, <2>5, <2>7 DEF DisableEffect, Mon
    <3> QED
      BY <3>2, <3>3
  <2> QED
    BY <2>6, <2>7
<1> QED
  BY <1>2, <1>3

LEMMA ReleaseStep == IInv /\ ReleaseInv /\ [Next]_vars => ReleaseInv'
<1> SUFFICES ASSUME IInv, ReleaseInv, [Next]_vars PROVE ReleaseInv'
  OBVIOUS
<1> USE DEF Goto, Fail
<1>1. /\ TypeOK
      /\ pc \notin Ending => ~report.saved
      /\ Connected \subseteq Nat /\ opt.lane \in Nat
  BY MonitorAssumption DEF IInv, OutcomeInv, TypeOK, AcceptedOptions, LaneNumbers
\* Outside the scan and the end nothing is claimed.
<1>2. CASE OpenBsg \/ CheckSupport \/ PrepareIo \/ ReadLimits \/ CheckRange
  <2>1. pc' \notin Scanning \cup {"report"} /\ ~report'.saved
    BY <1>1, <1>2 DEF OpenBsg, CheckSupport, PrepareIo, ReadLimits, CheckRange,
       Ending, Scanning
  <2> QED
    BY <2>1 DEF ReleaseInv
<1>3. CASE AllocResults
  <2>1. /\ ~report'.saved /\ pc' # "report" /\ opt' = opt
        /\ pc' \in Scanning => cur'.l = opt.lane
    BY <1>1, <1>3 DEF AllocResults, Ending, Scanning
  <2> QED
    BY <1>1, <2>1 DEF ReleaseInv
\* Within a lane the lanes before it are left alone.
<1>4. ASSUME pc \in Scanning, pc' # "report", UNCHANGED <<opt, report>>, cur'.l = cur.l,
             \A l \in Connected :
                l # cur.l => mon'[<<opt.local_peer, l>>] = mon[<<opt.local_peer, l>>]
      PROVE  ReleaseInv'
  <2>1. ~report'.saved
    BY <1>1, <1>4 DEF Ending, Scanning
  <2>2. cur.l \in Nat
    BY <1>1 DEF TypeOK, Cursors
  <2> QED
    BY <1>1, <1>4, <2>1, <2>2 DEF ReleaseInv, Enabled
<1>5. CASE ConfigWrite
  <2>1. \A l \in Connected :
           l # cur.l => mon'[<<opt.local_peer, l>>] = mon[<<opt.local_peer, l>>]
    <3>1. SUFFICES ASSUME NEW l \in Connected, l # cur.l
                   PROVE  mon'[<<opt.local_peer, l>>] = mon[<<opt.local_peer, l>>]
      OBVIOUS
    <3>2. <<opt.local_peer, l>> \in Monitors /\ <<opt.local_peer, l>> # Mon
      BY <1>1, <3>1, LanesAreMonitors DEF Mon
    <3>3. ConfigEffect(ConfigOrder[cfg]) \/ UNCHANGED mon
      BY <1>5 DEF ConfigWrite
    <3> QED
      BY <1>1, <3>2, <3>3, ConfigKeepsOthers
  <2> QED
    BY <1>4, <1>5, <2>1 DEF ConfigWrite, Scanning
<1>6. CASE PollUnipro \/ Delay \/ DoIo \/ GetStart \/ GetTested
  BY <1>4, <1>6 DEF PollUnipro, Delay, DoIo, GetStart, GetTested, Scanning
<1>7. CASE GetErrors
  <2>1. cur'.l = cur.l
    BY <1>1, <1>7 DEF GetErrors, LogRow, NextPoint, TypeOK, Cursors
  <2>2. pc' # "report"
    BY <1>7 DEF GetErrors, LogRow, NextPoint
  <2> QED
    BY <1>4, <1>7, <2>1, <2>2 DEF GetErrors, Scanning
<1>8. CASE DisableMonitor
  BY <1>8, ReleaseDisable
<1>9. CASE GenerateReport
  BY <1>9 DEF GenerateReport, ReleaseInv, Enabled, Scanning
<1>10. CASE FreeBuffers \/ CloseTmp \/ CloseBsg
  BY <1>10 DEF FreeBuffers, CloseTmp, CloseBsg, Release, ReleaseInv, Enabled, Scanning
<1>11. CASE Hardware
  <2>1. \A m \in Monitors : mon'[m].enable = mon[m].enable
    BY <1>1, <1>11, HardwareKeepsRegisters DEF Hardware, TypeOK, SameRegisters
  <2> QED
    BY <1>1, <1>11, <2>1, LanesAreMonitors DEF Hardware, progVars, ReleaseInv, Enabled
<1>12. CASE Terminated \/ UNCHANGED vars
  BY <1>12 DEF Terminated, vars, progVars, ReleaseInv, Enabled
<1> QED
  BY <1>2, <1>3, <1>5, <1>6, <1>7, <1>8, <1>9, <1>10, <1>11, <1>12 DEF Next, Program

\* Every lane the main loop has passed is disabled, however many there are and
\* whatever was enabled before the run.
THEOREM LanesReleased == Spec => []MonitorsReleased
<1>1. Init => ReleaseInv
  BY DEF Init, ReleaseInv, Scanning
<1>2. IInv /\ ReleaseInv /\ [Next]_vars => ReleaseInv'
  BY ReleaseStep
<1>3. ReleaseInv => MonitorsReleased
  BY DEF ReleaseInv, MonitorsReleased, Enabled
<1> QED
  BY <1>1, <1>2, <1>3, Invariance, PTL DEF Spec

-----------------------------------------------------------------------------
(***************************************************************************)
(* ufseom implements the sweep of EomSweep: every step of the program or   *)
(* of the hardware measures the next point, publishes the report, gives    *)
(* up, or changes nothing the sweep sees.                                  *)
(***************************************************************************)
\* The bounds the loops run over are those of the command line, completed by
\* the limits of the device, from the sanity check to the report.
BoundsSettled ==
    pc \in {"alloc", "report"} \cup Scanning =>
        opt = Resolve(opt, caps) /\ RangeOK(opt, caps)

\* Nothing is in the report file before it is written.
ReportUnwritten == ~report.saved => report.rows = <<>>

SweepInv == ErrorsBounded /\ BoundsSettled /\ ReportUnwritten

LEMMA SweepInvInit == Init => SweepInv
<1> SUFFICES ASSUME Init PROVE SweepInv
  OBVIOUS
<1>1. ErrorsBounded
  BY ErrorsInit DEF Init
<1>2. BoundsSettled
  BY DEF Init, BoundsSettled, Scanning
<1>3. ReportUnwritten
  BY DEF Init, ReportUnwritten
<1> QED
  BY <1>1, <1>2, <1>3 DEF SweepInv

LEMMA ResolveFields ==
    ASSUME NEW o \in AcceptedOptions, NEW c
    PROVE  LET r == Resolve(o, c)
           IN  /\ r.voltage_low = GivenOrLimit(o.voltage_low, -c.voltage_max_steps)
               /\ r.voltage_high = GivenOrLimit(o.voltage_high, c.voltage_max_steps)
               /\ r.timing_left = GivenOrLimit(o.timing_left, -c.timing_max_steps)
               /\ r.timing_right = GivenOrLimit(o.timing_right, c.timing_max_steps)
               /\ r.local_peer = o.local_peer /\ r.lane = o.lane /\ r.num_lanes = o.num_lanes
               /\ r.target_test_count = o.target_test_count /\ r.do_io = o.do_io
BY DEF Resolve, AcceptedOptions

\* The sanity check run twice gives what it gives once.
LEMMA ResolveTwice ==
    ASSUME NEW o \in AcceptedOptions, NEW c \in CapsRecords
    PROVE  Resolve(Resolve(o, c), c) = Resolve(o, c)
<1> DEFINE r == Resolve(o, c)
           s == Resolve(r, c)
<1>1. \A x, y : GivenOrLimit(GivenOrLimit(x, y), y) = GivenOrLimit(x, y)
  BY DEF GivenOrLimit
<1>2. r \in AcceptedOptions
  BY ResolveType
<1>3. s \in AcceptedOptions
  BY <1>2, ResolveType
<1>4. /\ s.voltage_low = r.voltage_low /\ s.voltage_high = r.voltage_high
      /\ s.timing_left = r.timing_left /\ s.timing_right = r.timing_right
      /\ s.local_peer = r.local_peer /\ s.lane = r.lane /\ s.num_lanes = r.num_lanes
      /\ s.target_test_count = r.target_test_count /\ s.do_io = r.do_io
  BY <1>1, <1>2, ResolveFields
<1> HIDE DEF r, s
<1>5. s = r
  BY <1>2, <1>3, <1>4 DEF AcceptedOptions
<1> QED
  BY <1>5 DEF r, s

LEMMA SweepInvStep == IInv /\ SweepInv /\ [Next]_vars => SweepInv'
<1> SUFFICES ASSUME IInv, SweepInv, [Next]_vars PROVE SweepInv'
  OBVIOUS
<1> USE DEF Goto, Fail
<1>1. TypeOK /\ TypeOK' /\ MonitorTypeOK
  BY TypeStep DEF IInv, TypeOK
<1>2. ErrorsBounded'
  <2>0. ErrorThreshold \in Nat \ {0}
    BY MonitorAssumption
  <2>1. CASE UNCHANGED mon
    BY <2>1 DEF SweepInv, ErrorsBounded
  <2>2. CASE Hardware
    BY <1>1, <2>2, ErrorsHardware DEF SweepInv, Hardware
  <2>3. ASSUME NEW attr, NEW x, mon' = [mon EXCEPT ![Mon] = Written(@, attr, x)],
               \/ attr = "enable" /\ x \in {0, 1}
               \/ attr \in {"timing", "voltage", "target"}
        PROVE  ErrorsBounded'
    <3> SUFFICES ASSUME NEW k \in Monitors
                 PROVE  /\ mon'[k].errors <= ErrorThreshold
                        /\ mon'[k].start => mon'[k].errors < ErrorThreshold
      BY DEF ErrorsBounded
    <3>1. mon'[k] = mon[k] \/ mon'[k] = Written(mon[k], attr, x)
      BY <1>1, <2>3 DEF MonitorTypeOK
    <3>2. CASE mon'[k] = mon[k]
      BY <3>2 DEF SweepInv, ErrorsBounded
    <3>3. CASE mon'[k] = Written(mon[k], attr, x)
      <4>1. mon[k] \in MonitorStates
        BY <1>1 DEF MonitorTypeOK
      <4>2. /\ Written(mon[k], attr, x).errors \in {0, mon[k].errors}
            /\ Written(mon[k], attr, x).start =>
                 mon[k].start /\ mon[k].errors = Written(mon[k], attr, x).errors
        BY <2>3, <4>1, WrittenErrors
      <4>3. /\ mon[k].errors <= ErrorThreshold
            /\ mon[k].start => mon[k].errors < ErrorThreshold
        BY DEF SweepInv, ErrorsBounded
      <4>4. mon'[k].errors <= ErrorThreshold
        BY <2>0, <3>3, <4>2, <4>3
      <4>5. mon'[k].start => mon'[k].errors < ErrorThreshold
        BY <3>3, <4>2, <4>3
      <4> QED
        BY <4>4, <4>5
    <3> QED
      BY <3>1, <3>2, <3>3
  <2>4. CASE DisableMonitor
    BY <2>1, <2>3, <2>4 DEF DisableMonitor, DisableEffect
  <2>5. CASE ConfigWrite
    <3>1. ASSUME NEW attr \in {ConfigOrder[i] : i \in 1 .. 6}, ConfigEffect(attr)
          PROVE  ErrorsBounded'
      <4>1. attr = "enable" => ConfigValue(attr) = 1
        BY DEF ConfigValue
      <4> QED
        BY <2>1, <2>3, <3>1, <4>1 DEF ConfigEffect
    <3>2. ConfigOrder[cfg] \in {ConfigOrder[i] : i \in 1 .. 6}
      BY <1>1 DEF TypeOK
    <3> QED
      BY <2>1, <2>5, <3>1, <3>2 DEF ConfigWrite
  <2>6. Program => ConfigWrite \/ DisableMonitor \/ UNCHANGED mon
    BY DEF Program, OpenBsg, CheckSupport, PrepareIo, ReadLimits, CheckRange, AllocResults,
       PollUnipro, Delay, DoIo, GetStart, GetTested, GetErrors, GenerateReport,
       FreeBuffers, CloseTmp, CloseBsg, Release
  <2>7. UNCHANGED vars => UNCHANGED mon
    BY DEF vars
  <2> QED
    BY <2>1, <2>2, <2>4, <2>5, <2>6, <2>7 DEF Next, Terminated
<1>3. BoundsSettled'
  <2>1. CASE CheckRange
    <3>1. opt' = Resolve(opt, caps) /\ caps' = caps
      BY <2>1 DEF CheckRange
    <3>2. opt' = Resolve(opt', caps')
      BY <1>1, <3>1, ResolveTwice DEF TypeOK
    <3>3. pc' = "out" \/ RangeOK(opt', caps')
      BY <2>1, <3>1 DEF CheckRange
    <3> QED
      BY <3>2, <3>3 DEF BoundsSettled, Scanning
  <2>2. CASE /\ UNCHANGED <<opt, caps>>
             /\ \/ pc' \notin {"alloc", "report"} \cup Scanning
                \/ pc \in {"alloc", "report"} \cup Scanning
    BY <2>2 DEF SweepInv, BoundsSettled
  <2>3. CASE Hardware \/ UNCHANGED vars
    BY <2>2, <2>3 DEF Hardware, vars, progVars
  <2>4. CASE GetErrors
    BY <2>2, <2>4 DEF GetErrors, Scanning
  <2>5. Program => \/ CheckRange \/ GetErrors
                   \/ /\ UNCHANGED <<opt, caps>>
                      /\ \/ pc' \notin {"alloc", "report"} \cup Scanning
                         \/ pc \in {"alloc", "report"} \cup Scanning
    BY DEF Program, OpenBsg, CheckSupport, PrepareIo, ReadLimits, AllocResults, ConfigWrite,
       PollUnipro, Delay, DoIo, GetStart, GetTested, DisableMonitor, GenerateReport,
       FreeBuffers, CloseTmp, CloseBsg, Release, Scanning
  <2> QED
    BY <2>1, <2>2, <2>3, <2>4, <2>5 DEF Next, Terminated
<1>4. ReportUnwritten'
  <2>1. CASE GenerateReport
    BY <2>1 DEF GenerateReport, SweepInv, ReportUnwritten
  <2>2. CASE UNCHANGED report
    BY <2>2 DEF SweepInv, ReportUnwritten
  <2>3. Next => GenerateReport \/ UNCHANGED report
    BY DEF Next, Terminated, Hardware, vars, progVars, Program, OpenBsg, CheckSupport,
       PrepareIo, ReadLimits, CheckRange, AllocResults, ConfigWrite, PollUnipro, Delay, DoIo,
       GetStart, GetTested, GetErrors, DisableMonitor, FreeBuffers, CloseTmp, CloseBsg, Release
  <2> QED
    BY <2>1, <2>2, <2>3 DEF vars, progVars
<1> QED
  BY <1>2, <1>3, <1>4 DEF SweepInv

LEMMA SweepInvariance == Spec => [](IInv /\ SweepInv)
<1>1. Init => IInv /\ SweepInv
  BY InvInit, SweepInvInit
<1>2. (IInv /\ SweepInv) /\ [Next]_vars => (IInv /\ SweepInv)'
  BY InvStep, SweepInvStep
<1> QED
  BY <1>1, <1>2, PTL DEF Spec

-----------------------------------------------------------------------------
(***************************************************************************)
(* The step simulation.                                                    *)
(***************************************************************************)
\* The grid of the options as they are is the grid of the options completed.
LEMMA GridSettled ==
    ASSUME IInv, SweepInv, pc \in Scanning \cup {"report"}
    PROVE  /\ SweepGrid = GridOf(opt)
           /\ IsScan(opt)
           /\ Len(SweepGrid) = ResultCount(opt)
           /\ eom_result_count = ResultCount(opt)
           /\ SweepOutcome = "none"
           /\ ret = SUCCESS /\ ~report.saved
<1>1. opt = Resolve(opt, caps) /\ RangeOK(opt, caps)
  BY DEF SweepInv, BoundsSettled
<1>2. IsScan(opt) /\ eom_result_count = ResultCount(opt)
  BY DEF IInv, SizeInv
<1>3. ret = SUCCESS /\ ~report.saved
  BY DEF IInv, OutcomeInv, Ending, Scanning
<1>4. SweepGrid = GridOf(opt)
  BY <1>1 DEF SweepGrid
<1>5. Len(GridOf(opt)) = ResultCount(opt)
  BY <1>2, GridLength
<1> QED
  BY <1>2, <1>3, <1>4, <1>5 DEF SweepOutcome, SUCCESS, ERROR

\* A row that is logged is the measurement of the point at hand.
LEMMA LogMeasures ==
    ASSUME IInv, SweepInv, pc = "errors", Answers(cur.l), LogRow(mon[Mon].errors),
           UNCHANGED <<opt, caps, eom_result_count, report>>
    PROVE  Sweep!Measure
<1> DEFINE g == GridIndex(opt, cur.l, cur.t, cur.v)
           e == mon[Mon].errors
           p == [lane |-> cur.l, timing |-> cur.t, volt |-> cur.v]
<1>1. pc \in Scanning
  BY DEF Scanning
<1>2. /\ SweepGrid = GridOf(opt) /\ IsScan(opt)
      /\ Len(SweepGrid) = ResultCount(opt) /\ eom_result_count = ResultCount(opt)
      /\ SweepOutcome = "none" /\ ret = SUCCESS /\ ~report.saved
  BY <1>1, GridSettled
<1>3. InGrid(opt, cur.l, cur.t, cur.v) /\ Len(er) = g + 0
  BY <1>1 DEF IInv, ScanProgress
<1>4. cur.l \in Int /\ cur.t \in Int /\ cur.v \in Int /\ g \in Nat /\ g < ResultCount(opt)
  BY <1>1, CursorFacts
<1>5. Len(er) = g
  <2> HIDE DEF g
  <2> QED
    BY <1>3, <1>4
<1>6. GridOf(opt)[g + 1] = p
  BY <1>2, <1>3, <1>4, GridPoint
<1>7. e \in 0 .. ErrorThreshold
  <2>1. Mon \in Monitors /\ mon[Mon] \in MonitorStates
    BY DEF Answers, Mon, Monitors, IInv, TypeOK, MonitorTypeOK, AcceptedOptions
  <2>2. e \in Nat /\ e <= ErrorThreshold
    BY <2>1 DEF SweepInv, ErrorsBounded, MonitorStates
  <2> QED
    BY <2>2, MonitorAssumption
<1>8. er' = Append(er, Sweep!Row(SweepGrid[Len(er) + 1], e))
  <2>1. Sweep!Row(p, e) = [lane |-> cur.l, timing |-> cur.t, volt |-> cur.v, error_cnt |-> e]
    BY DEF Sweep!Row
  <2> HIDE DEF g, p, e
  <2>2. Sweep!Row(SweepGrid[Len(er) + 1], e) = Sweep!Row(p, e)
    BY <1>2, <1>5, <1>6
  <2> QED
    BY <2>1, <2>2 DEF LogRow, e
<1>9. UNCHANGED ret
  <2>1. Len(er') = Len(er) + 1
    BY DEF LogRow, IInv, TypeOK
  <2>2. ~(Len(er') > eom_result_count)
    <3> HIDE DEF g
    <3> QED
      BY <1>2, <1>4, <1>5, <2>1, GridSizes
  <2> QED
    BY <2>2 DEF LogRow
<1>10. UNCHANGED <<SweepGrid, report.rows, SweepOutcome>>
  BY <1>9 DEF SweepGrid, SweepOutcome
<1>11. Len(er) < Len(SweepGrid)
  <2> HIDE DEF g
  <2> QED
    BY <1>2, <1>4, <1>5
<1> HIDE DEF e
<1> QED
  BY <1>2, <1>7, <1>8, <1>10, <1>11 DEF Sweep!Measure

\* A report that is written is the publication of every row.
LEMMA ReportPublishes ==
    ASSUME ~DiskMayFill, IInv, SweepInv, GenerateReport, report' # report
    PROVE  Sweep!Publish
<1>1. pc = "report" /\ UNCHANGED <<opt, caps, er>>
  BY DEF GenerateReport
<1>2. /\ SweepGrid = GridOf(opt) /\ IsScan(opt)
      /\ Len(SweepGrid) = ResultCount(opt) /\ SweepOutcome = "none"
      /\ er \in Seq(Rows)
  BY <1>1, GridSettled DEF IInv, TypeOK
<1>3. Len(er) = ResultCount(opt)
  BY <1>1 DEF IInv, ScanProgress
<1>4. report' = [saved |-> TRUE, rows |-> SubSeq(er, 1, Len(er))]
  BY DEF GenerateReport
<1>5. SubSeq(er, 1, Len(er)) = er
  BY <1>2
<1>6. report'.rows = er /\ report'.saved
  BY <1>4, <1>5
<1>7. Len(SweepGrid) > 0
  <2>1. Timings(opt) * Volts(opt) \in Nat \ {0}
    BY <1>2, GridSizes
  <2>2. ResultCount(opt) = opt.num_lanes * (Timings(opt) * Volts(opt)) /\ opt.num_lanes \in {1, 2}
    BY <1>2, GridSizes DEF IInv, TypeOK, AcceptedOptions
  <2> QED
    BY <1>2, <2>1, <2>2
<1>8. SweepGrid # <<>>
  BY <1>7
<1>9. UNCHANGED SweepGrid /\ SweepOutcome' = "published"
  BY <1>1, <1>6 DEF SweepGrid, SweepOutcome
<1> QED
  BY <1>1, <1>2, <1>3, <1>6, <1>8, <1>9 DEF Sweep!Publish

\* Setting ret to ERROR before there is a report gives the sweep up.
LEMMA FailureAbandons ==
    ASSUME IInv, pc \notin Ending, ret' = ERROR,
           UNCHANGED <<SweepGrid, er, report>>
    PROVE  Sweep!Abandon
<1>1. ret = SUCCESS /\ ~report.saved
  BY DEF IInv, OutcomeInv
<1> QED
  BY <1>1 DEF Sweep!Abandon, SweepOutcome, SUCCESS, ERROR

LEMMA SweepStep ==
    ~DiskMayFill /\ IInv /\ SweepInv /\ [Next]_vars => [Sweep!Next]_(Sweep!vars)
<1> SUFFICES ASSUME ~DiskMayFill, IInv, SweepInv, [Next]_vars
             PROVE  Sweep!Next \/ UNCHANGED Sweep!vars
  BY Zenon
<1> USE DEF Goto, Fail
<1>1. CASE UNCHANGED <<opt, caps, er, ret, report>>
  BY <1>1 DEF Sweep!vars, SweepGrid, SweepOutcome
<1>2. CASE pc \notin Ending /\ UNCHANGED <<opt, caps, er, report>> /\ ret' = ERROR
  BY <1>2, FailureAbandons DEF Sweep!Next, SweepGrid
<1>3. CASE CheckRange
  <2>1. UNCHANGED SweepGrid
    <3>1. opt' = Resolve(opt, caps) /\ caps' = caps
      BY <1>3 DEF CheckRange
    <3>2. Resolve(opt', caps') = Resolve(opt, caps)
      BY <3>1, ResolveTwice DEF IInv, TypeOK
    <3> QED
      BY <3>1, <3>2 DEF SweepGrid
  <2>2. pc \notin Ending /\ UNCHANGED <<er, report>> /\ (ret' = ERROR \/ UNCHANGED ret)
    BY <1>3 DEF CheckRange, Ending
  <2>3. CASE ret' = ERROR
    BY <2>1, <2>2, <2>3, FailureAbandons DEF Sweep!Next
  <2>4. CASE UNCHANGED ret
    BY <2>1, <2>2, <2>4 DEF Sweep!vars, SweepOutcome
  <2> QED
    BY <2>2, <2>3, <2>4
<1>4. CASE GetErrors
  <2>1. CASE Answers(cur.l) /\ LogRow(mon[Mon].errors)
    BY <1>4, <2>1, LogMeasures DEF GetErrors, Sweep!Next
  <2>2. pc \notin Ending /\ UNCHANGED <<opt, caps, report>>
    BY <1>4 DEF GetErrors, Ending
  <2>3. \/ Answers(cur.l) /\ LogRow(mon[Mon].errors)
        \/ UNCHANGED er /\ UNCHANGED ret
        \/ UNCHANGED er /\ ret' = ERROR
    BY <1>4 DEF GetErrors
  <2> QED
    BY <1>1, <1>2, <2>1, <2>2, <2>3
<1>5. CASE GenerateReport
  <2>1. pc \notin Ending /\ UNCHANGED <<opt, caps, er>>
    BY <1>5 DEF GenerateReport, Ending
  <2>2. CASE report' # report
    BY <1>5, <2>2, ReportPublishes DEF Sweep!Next
  <2>3. CASE UNCHANGED report
    BY <1>1, <1>2, <1>5, <2>1, <2>3 DEF GenerateReport
  <2> QED
    BY <2>2, <2>3
<1>6. CASE UNCHANGED vars \/ Hardware
  BY <1>1, <1>6 DEF vars, Hardware, progVars
<1>7. Program => \/ CheckRange \/ GetErrors \/ GenerateReport
                 \/ UNCHANGED <<opt, caps, er, ret, report>>
                 \/ pc \notin Ending /\ UNCHANGED <<opt, caps, er, report>> /\ ret' = ERROR
  BY DEF Program, Ending, OpenBsg, CheckSupport, PrepareIo, ReadLimits, AllocResults,
     ConfigWrite, PollUnipro, Delay, DoIo, GetStart, GetTested, DisableMonitor,
     FreeBuffers, CloseTmp, CloseBsg, Release
<1> QED
  BY <1>1, <1>2, <1>3, <1>4, <1>5, <1>6, <1>7 DEF Next, Terminated

\* ufseom implements the sweep: whatever the options, the limits of the device,
\* the calls that fail and the hardware's pace, what it does is to visit the
\* points of the grid in order, each once, with a count the monitor may have
\* stopped with, and then to publish exactly what it collected or to give up.
\* The report is assumed to reach the disk.
THEOREM SweepImplemented == ~DiskMayFill => (Spec => StepsRefineSweep)
<1> SUFFICES ASSUME ~DiskMayFill PROVE Spec => StepsRefineSweep
  OBVIOUS
<1>1. Init => Sweep!Init
  BY DEF Init, Sweep!Init, SweepOutcome, SUCCESS, ERROR
<1>2. IInv /\ SweepInv /\ [Next]_vars => [Sweep!Next]_(Sweep!vars)
  BY SweepStep
<1> QED
  BY <1>1, <1>2, SweepInvariance, PTL DEF Spec, StepsRefineSweep, Sweep!Spec

-----------------------------------------------------------------------------
(***************************************************************************)
(* Rows and measurements.                                                  *)
(***************************************************************************)
\* Either writing ENABLE clears what the monitor has counted, or the monitors
\* start with the power mode change and the program waits for its end.
HardwareRestarts == ClearOnEnable \/ (StartWithPmc /\ DelayCoversPmc)

\* Six bits hold every step the device may report.
StepsFit == \A c \in Caps : c.timing_max_steps <= 63 /\ c.voltage_max_steps <= 63

\* The labels between the last attribute of a point and its row.
Measuring == {"poll", "delay", "io", "start", "tested", "errors"}

\* How many of the attributes of the point at hand have been written.
Configured == IF pc = "config" THEN cfg - 1 ELSE IF pc \in Measuring THEN 6 ELSE 0

\* The link is quiet until the program asks for a power mode change.
LinkQuiet ==
    /\ pc \in Early \cup {"config", "disable"} => link.pmc = "up"
    /\ pc \in Measuring \cup {"disable"} => cfg = 1
    /\ pc \in {"io", "start", "tested", "errors"} => link.pmc = "up" \/ ClearOnEnable

\* A monitor that starts with the power mode change does not wait to be started.
NeverArmed == StartWithPmc => \A m \in Monitors : ~mon[m].armed

\* The registers of the lane at hand, as far as they have been written.
PointConfigured ==
    /\ Configured > 0 => cur.l \in Connected /\ mon[Mon].enable
    /\ Configured > 1 => mon[Mon].timing = StepConfig(cur.t)
    /\ Configured > 2 => mon[Mon].volt = StepConfig(cur.v)
    /\ Configured > 3 => mon[Mon].target = opt.target_test_count
    /\ Configured > 4 => link.adapt_type = "NO_ADAPT"

\* A monitor that runs, or has run, with the settings of the point at hand.
OfPoint(s) == Measures(s, cur)

\* What the monitor at hand has counted is of the point at hand, or nothing.
PointMeasured ==
    /\ ClearOnEnable /\ Configured \in 1 .. 5 => Unstarted(mon[Mon]) /\ ~mon[Mon].armed
    /\ ClearOnEnable /\ pc \in Measuring /\ link.pmc = "busy" =>
         Unstarted(mon[Mon]) /\ ~mon[Mon].armed
    /\ pc \in Measuring /\ link.pmc = "up" =>
         OfPoint(mon[Mon]) \/ (Unstarted(mon[Mon]) /\ mon[Mon].armed /\ link.no_adapt)
    /\ pc = "errors" /\ tested >= opt.target_test_count =>
         OfPoint(mon[Mon]) /\ mon[Mon].tested >= opt.target_test_count /\ link.pmc = "up"

RowsInv == caps \in Caps /\ NeverArmed /\ LinkQuiet /\ PointConfigured /\ PointMeasured

-----------------------------------------------------------------------------
(***************************************************************************)
(* What the hardware and the program may do to one monitor.                *)
(***************************************************************************)
\* A step of the program writes at most one attribute of a monitor, that of the
\* lane at hand.
LEMMA ProgramWrites ==
    ASSUME TypeOK, Program, NEW k \in Monitors
    PROVE  \/ mon'[k] = mon[k]
           \/ \E attr \in {"enable", "timing", "voltage", "target"}, x \in Registers :
                /\ attr = "enable" => x \in {0, 1}
                /\ mon'[k] = Written(mon[k], attr, x)
<1>0. mon \in [Monitors -> MonitorStates]
  BY DEF TypeOK, MonitorTypeOK
<1>1. CASE UNCHANGED mon
  BY <1>1
<1>2. CASE DisableMonitor
  <2>1. mon'[k] = mon[k] \/ mon'[k] = Written(mon[k], "enable", 0)
    BY <1>0, <1>2 DEF DisableMonitor, DisableEffect
  <2>2. 0 \in Registers
    BY DEF Registers
  <2> QED
    BY <2>1, <2>2
<1>3. CASE ConfigWrite
  <2>1. ConfigOrder[cfg] \in {ConfigOrder[i] : i \in 1 .. 6}
    BY DEF TypeOK
  <2>2. ASSUME NEW attr \in {ConfigOrder[i] : i \in 1 .. 6}, ConfigEffect(attr)
        PROVE  \/ mon'[k] = mon[k]
               \/ /\ attr \in {"enable", "timing", "voltage", "target"}
                  /\ mon'[k] = Written(mon[k], attr, ConfigValue(attr))
    BY <1>0, <2>2 DEF ConfigEffect
  <2>3. /\ ConfigValue("enable") = 1
        /\ ConfigValue("timing") = StepConfig(cur.t)
        /\ ConfigValue("voltage") = StepConfig(cur.v)
        /\ ConfigValue("target") = opt.target_test_count
    BY DEF ConfigValue
  <2>4. /\ StepConfig(cur.t) \in Registers /\ StepConfig(cur.v) \in Registers
        /\ opt.target_test_count \in Registers /\ 1 \in Registers
    BY StepConfigType DEF TypeOK, AcceptedOptions, Cursors, Registers, EOM_TARGET_TEST_COUNT_MAX
  <2>5. \A attr \in {"enable", "timing", "voltage", "target"} :
          ConfigValue(attr) \in Registers /\ (attr = "enable" => ConfigValue(attr) \in {0, 1})
    BY <2>3, <2>4
  <2>6. UNCHANGED mon \/ ConfigEffect(ConfigOrder[cfg])
    BY <1>3 DEF ConfigWrite
  <2> QED
    BY <1>1, <2>1, <2>2, <2>5, <2>6
<1> QED
  BY <1>1, <1>2, <1>3 DEF Program, OpenBsg, CheckSupport, PrepareIo, ReadLimits, CheckRange,
     AllocResults, PollUnipro, Delay, DoIo, GetStart, GetTested, GetErrors, GenerateReport,
     FreeBuffers, CloseTmp, CloseBsg, Release

LEMMA NeverArmedStep == TypeOK /\ NeverArmed /\ [Next]_vars => NeverArmed'
<1> SUFFICES ASSUME TypeOK, NeverArmed, [Next]_vars, StartWithPmc, NEW k \in Monitors
             PROVE  ~mon'[k].armed
  BY DEF NeverArmed
<1>1. ~mon[k].armed /\ mon[k] \in MonitorStates /\ MonitorTypeOK
  BY DEF NeverArmed, TypeOK, MonitorTypeOK
<1>2. CASE Program
  <2>1. ASSUME NEW attr \in {"enable", "timing", "voltage", "target"}, NEW x \in Registers,
               attr = "enable" => x \in {0, 1}
        PROVE  ~Written(mon[k], attr, x).armed
    BY <1>1, <2>1 DEF Written, MonitorStates
  <2> QED
    BY <1>1, <1>2, <2>1, ProgramWrites
<1>3. CASE Hardware
  <2> DEFINE s == mon[k]
             z == mon'[k]
  <2>1. \A b \in BOOLEAN : ~Started(s, b).armed
    BY <1>1, StartedFields
  <2>2. link.no_adapt \in BOOLEAN /\ (PmcDone => link'.no_adapt \in BOOLEAN)
    BY <1>1, PmcDoneLink DEF MonitorTypeOK, LinkStates
  <2>3. Ticked(s, z) => z.armed = s.armed
    BY DEF Ticked
  <2>4. MonitorNext
    BY <1>3 DEF Hardware
  <2>5. ~s.armed
    BY <1>1
  <2> HIDE DEF s, z
  <2>6. /\ \A b \in BOOLEAN : z = Started(s, b) => ~z.armed
        /\ z = s \/ Ticked(s, z) => ~z.armed
    BY <2>1, <2>3, <2>5
  <2> QED
    BY <1>1, <2>2, <2>4, <2>6, HardwareStep DEF s, z
<1>4. CASE UNCHANGED vars
  BY <1>1, <1>4 DEF vars
<1> QED
  BY <1>2, <1>3, <1>4 DEF Next, Terminated

-----------------------------------------------------------------------------
(***************************************************************************)
(* The steps of the hardware.                                              *)
(***************************************************************************)
LEMMA RowsHardware ==
    ASSUME HardwareRestarts, IInv, RowsInv, Hardware
    PROVE  LinkQuiet' /\ PointConfigured' /\ PointMeasured'
<1> DEFINE s == mon[Mon]
           z == mon'[Mon]
<1>1. /\ UNCHANGED progVars /\ MonitorNext /\ TypeOK /\ MonitorTypeOK
      /\ UNCHANGED <<pc, opt, caps, cur, cfg, tested>>
  BY DEF Hardware, progVars, IInv, TypeOK
<1>2. Configured' = Configured /\ Mon' = Mon
  BY <1>1 DEF Configured, Mon
<1>3. /\ link'.adapt_type = link.adapt_type
      /\ link.pmc = "up" => link' = link
      /\ PmcDone => link.pmc = "busy" /\ link'.pmc = "up" /\ link'.no_adapt \in BOOLEAN
                    /\ (link.adapt_type = "NO_ADAPT" => link'.no_adapt = TRUE)
  <2>1. MonitorNext => PmcDone \/ link' = link
    BY DEF MonitorNext, MonStart, Tick
  <2>2. PmcDone => link.pmc = "busy" /\ link'.pmc = "up" /\ link'.no_adapt \in BOOLEAN
                    /\ (link.adapt_type = "NO_ADAPT" => link'.no_adapt = TRUE)
                    /\ link'.adapt_type = link.adapt_type
    BY <1>1, PmcDoneLink
  <2> QED
    BY <1>1, <2>1, <2>2
<1>4. LinkQuiet'
  BY <1>1, <1>3 DEF RowsInv, LinkQuiet
<1>5. Configured > 0 => Mon \in Monitors
  BY DEF RowsInv, PointConfigured, Mon, Monitors, IInv, TypeOK, AcceptedOptions
<1>6. Mon \in Monitors => SameRegisters(s, z) /\ s \in MonitorStates
  BY <1>1, HardwareKeepsRegisters DEF MonitorTypeOK
<1>7. PointConfigured'
  <2>1. Configured \in 0 .. 6
    BY <1>1 DEF Configured, TypeOK
  <2>2. CASE Configured = 0
    BY <1>2, <2>2 DEF PointConfigured
  <2>3. CASE Configured > 0
    BY <1>1, <1>2, <1>3, <1>5, <1>6, <2>1, <2>3
       DEF RowsInv, PointConfigured, SameRegisters, Answers
  <2> QED
    BY <2>1, <2>2, <2>3
<1>8. Measuring \cap (Early \cup {"config", "disable"}) = {} /\ (pc \in Measuring => Configured = 6)
  BY DEF Measuring, Early, Configured
<1>9. ASSUME ClearOnEnable, Configured \in 1 .. 5
      PROVE  Unstarted(z) /\ ~z.armed
  <2>1. link.pmc = "up" /\ ~PmcDone
    BY <1>3, <1>9 DEF Configured, RowsInv, LinkQuiet
  <2>2. Unstarted(s) /\ ~s.armed /\ Mon \in Monitors
    BY <1>5, <1>9 DEF RowsInv, PointMeasured
  <2> QED
    BY <1>1, <2>1, <2>2, UnstartedKept
<1>10. ASSUME ClearOnEnable, pc \in Measuring, link'.pmc = "busy"
       PROVE  Unstarted(z) /\ ~z.armed
  <2>1. ~PmcDone /\ link.pmc = "busy"
    <3>1. ~PmcDone /\ link.pmc # "up"
      BY <1>3, <1>10
    <3> QED
      BY <1>1, <3>1 DEF MonitorTypeOK, LinkStates
  <2>2. Unstarted(s) /\ ~s.armed /\ Mon \in Monitors
    BY <1>5, <1>8, <1>10, <2>1 DEF RowsInv, PointMeasured
  <2> QED
    BY <1>1, <2>1, <2>2, UnstartedKept
<1>11. ASSUME pc \in Measuring, link'.pmc = "up"
       PROVE  OfPoint(z) \/ (Unstarted(z) /\ z.armed /\ link'.no_adapt)
  <2>1. /\ Configured = 6 /\ Mon \in Monitors
        /\ s.enable /\ s.timing = StepConfig(cur.t) /\ s.volt = StepConfig(cur.v)
        /\ s.target = opt.target_test_count /\ link.adapt_type = "NO_ADAPT"
    BY <1>5, <1>8, <1>11 DEF RowsInv, PointConfigured
  <2>2. opt.target_test_count \in Nat \ {0}
    <3>1. opt \in AcceptedOptions
      BY <1>1 DEF TypeOK
    <3> QED
      BY <3>1 DEF AcceptedOptions, EOM_TARGET_TEST_COUNT_MAX
  <2>3. link.pmc = "up" => AtWork(s, cur)
    BY <1>11 DEF RowsInv, PointMeasured, OfPoint, AtWork
  <2>4. link.pmc = "busy" => StartWithPmc \/ Unstarted(s)
    BY <1>11 DEF RowsInv, PointMeasured, HardwareRestarts
  <2> QED
    BY <1>1, <1>11, <2>1, <2>2, <2>3, <2>4, AtWorkKept DEF OfPoint
<1>12. ASSUME pc = "errors", tested >= opt.target_test_count
       PROVE  OfPoint(z) /\ z.tested >= opt.target_test_count /\ link'.pmc = "up"
  <2>1. OfPoint(s) /\ s.tested >= opt.target_test_count /\ link.pmc = "up"
    BY <1>12 DEF RowsInv, PointMeasured
  <2>2. Mon \in Monitors /\ s.target = opt.target_test_count /\ s \in MonitorStates
    BY <1>5, <1>6, <1>8, <1>12 DEF RowsInv, PointConfigured, Measuring
  <2>3. opt.target_test_count \in Int
    BY <1>1 DEF TypeOK, AcceptedOptions
  <2>4. ~s.start
    BY <2>1, <2>2, <2>3 DEF OfPoint, Measures, MonitorStates
  <2> QED
    BY <1>1, <1>3, <2>1, <2>2, <2>4, MeasuresKept DEF OfPoint
<1>13. PointMeasured'
  <2>1. OfPoint(mon[Mon])' <=> OfPoint(z)
    BY <1>1, <1>2 DEF OfPoint, Measures
  <2>2. Unstarted(mon[Mon])' <=> Unstarted(z)
    BY <1>2
  <2>3. mon[Mon]' = z
    BY <1>2
  <2> HIDE DEF s, z
  <2> QED
    BY <1>1, <1>2, <1>9, <1>10, <1>11, <1>12, <2>1, <2>2, <2>3 DEF PointMeasured
<1> QED
  BY <1>4, <1>7, <1>13

-----------------------------------------------------------------------------
(***************************************************************************)
(* The steps of the program.                                               *)
(***************************************************************************)
\* Nothing is asked of the monitors outside the loops of main.
LEMMA RowsOutside ==
    ASSUME pc' \notin Early \cup {"config", "disable"} \cup Measuring
    PROVE  LinkQuiet' /\ PointConfigured' /\ PointMeasured'
<1>1. Configured' = 0 /\ pc' \notin Measuring /\ pc' \notin {"io", "start", "tested", "errors"}
  BY DEF Configured, Measuring
<1> QED
  BY <1>1 DEF LinkQuiet, PointConfigured, PointMeasured

\* Nor before the first attribute of a point is written, but for the link.
LEMMA RowsFresh ==
    ASSUME pc' \in Early \cup {"config", "disable"}, pc' \notin Early => cfg' = 1,
           link'.pmc = "up"
    PROVE  LinkQuiet' /\ PointConfigured' /\ PointMeasured'
<1>1. Configured' = 0 /\ pc' \notin Measuring /\ pc' \notin {"io", "start", "tested", "errors"}
  BY DEF Configured, Measuring, Early
<1> QED
  BY <1>1 DEF LinkQuiet, PointConfigured, PointMeasured, Early

\* The steps that wait, do I/O or ask the monitor.
LEMMA RowsOn ==
    ASSUME RowsInv, pc \in Measuring, pc' \in Measuring,
           UNCHANGED <<opt, cur, cfg, mon, link>>,
           pc' \in {"io", "start", "tested", "errors"} => link.pmc = "up" \/ ClearOnEnable,
           pc' = "errors" /\ tested' >= opt.target_test_count =>
             OfPoint(mon[Mon]) /\ mon[Mon].tested >= opt.target_test_count /\ link.pmc = "up"
    PROVE  LinkQuiet' /\ PointConfigured' /\ PointMeasured'
<1>1. Configured = 6 /\ Configured' = 6 /\ Mon' = Mon
  BY DEF Configured, Measuring, Mon
<1>2. pc' \notin Early \cup {"config"} /\ pc' # "disable"
  BY DEF Measuring, Early
<1>3. LinkQuiet'
  BY <1>2 DEF RowsInv, LinkQuiet
<1>4. PointConfigured'
  BY <1>1 DEF RowsInv, PointConfigured
<1>5. mon[Mon]' = mon[Mon] /\ (OfPoint(mon[Mon])' <=> OfPoint(mon[Mon]))
  BY <1>1 DEF OfPoint, Measures
<1>6. PointMeasured'
  BY <1>1, <1>5 DEF RowsInv, PointMeasured
<1> QED
  BY <1>3, <1>4, <1>6

LEMMA RowsConfig ==
    ASSUME IInv, RowsInv, ConfigWrite
    PROVE  LinkQuiet' /\ PointConfigured' /\ PointMeasured'
<1> DEFINE s == mon[Mon]
           z == mon'[Mon]
           attr == ConfigOrder[cfg]
<1>1. CASE pc' = "out"
  BY <1>1, RowsOutside DEF Early, Measuring
<1>2. CASE /\ Answers(ConfigLane(attr)) /\ ConfigEffect(attr)
           /\ cfg' = IF cfg = Len(ConfigOrder) THEN 1 ELSE cfg + 1
           /\ Goto(IF cfg = Len(ConfigOrder) THEN "poll" ELSE "config")
  <2>1. /\ pc = "config" /\ UNCHANGED <<opt, cur>> /\ cfg \in 1 .. 6
        /\ mon \in [Monitors -> MonitorStates] /\ link \in LinkStates /\ link.pmc = "up"
        /\ opt \in AcceptedOptions
    BY DEF ConfigWrite, IInv, TypeOK, MonitorTypeOK, RowsInv, LinkQuiet
  <2>2. Configured = cfg - 1 /\ Mon' = Mon /\ Len(ConfigOrder) = 6
    BY <2>1 DEF Configured, Mon, ConfigOrder
  <2>3. \A x : OfPoint(x)' <=> OfPoint(x)
    BY <2>1 DEF OfPoint, Measures
  <2>4. CASE cfg < 6
    <3>1. pc' = "config" /\ cfg' = cfg + 1 /\ Configured' = cfg /\ pc' \notin Measuring
      BY <1>2, <2>1, <2>2, <2>4 DEF Goto, Configured, Measuring
    <3>2. link'.pmc = "up" /\ LinkQuiet'
      <4>1. attr # "pwrmode"
        BY <2>1, <2>4 DEF ConfigOrder
      <4>2. link'.pmc = "up"
        BY <1>2, <2>1, <4>1 DEF ConfigEffect, LinkStates
      <4> QED
        BY <3>1, <4>2 DEF LinkQuiet
    <3>3. cur.l \in Connected /\ Mon \in Monitors /\ s \in MonitorStates
      <4>1. cur.l \in Connected
        <5>1. CASE cfg = 1
          BY <1>2, <5>1 DEF ConfigOrder, ConfigLane, Answers
        <5>2. CASE cfg > 1
          BY <2>1, <2>2, <5>2 DEF RowsInv, PointConfigured
        <5> QED
          BY <2>1, <5>1, <5>2
      <4> QED
        BY <2>1, <4>1 DEF Mon, Monitors, AcceptedOptions
    <3>4. ASSUME NEW a \in {"enable", "timing", "voltage", "target"}, attr = a
          PROVE  z = Written(s, a, ConfigValue(a)) /\ link' = link
      BY <1>2, <2>1, <3>3, <3>4 DEF ConfigEffect
    <3>5. /\ ConfigValue("enable") = 1
          /\ ConfigValue("timing") = StepConfig(cur.t)
          /\ ConfigValue("voltage") = StepConfig(cur.v)
          /\ ConfigValue("target") = opt.target_test_count
      BY DEF ConfigValue
    <3>6. ClearOnEnable /\ cfg > 1 => Unstarted(s) /\ ~s.armed
      BY <2>1, <2>2, <2>4 DEF RowsInv, PointMeasured
    <3>7. SUFFICES /\ z.enable
                   /\ cfg > 1 => z.timing = StepConfig(cur.t)
                   /\ cfg > 2 => z.volt = StepConfig(cur.v)
                   /\ cfg > 3 => z.target = opt.target_test_count
                   /\ cfg > 4 => link'.adapt_type = "NO_ADAPT"
                   /\ ClearOnEnable => Unstarted(z) /\ ~z.armed
      <4>1. PointConfigured'
        BY <2>1, <2>2, <3>1, <3>3, <3>7 DEF PointConfigured
      <4>2. PointMeasured'
        <5>1. mon[Mon]' = z
          BY <2>2
        <5> HIDE DEF z
        <5> QED
          BY <2>2, <3>1, <3>7, <5>1 DEF PointMeasured
      <4> QED
        BY <3>2, <4>1, <4>2
    <3> HIDE DEF s, z
    <3>8. CASE cfg = 1
      <4>1. attr = "enable"
        BY <3>8 DEF ConfigOrder
      <4> HIDE DEF attr
      <4> QED
        BY <3>3, <3>4, <3>5, <3>8, <4>1, WrittenFields
    <3>9. CASE cfg = 2
      <4>1. attr = "timing" /\ s.enable
        BY <2>2, <3>9 DEF ConfigOrder, RowsInv, PointConfigured, s
      <4> HIDE DEF attr
      <4> QED
        BY <3>3, <3>4, <3>5, <3>6, <3>9, <4>1, WrittenFields
    <3>10. CASE cfg = 3
      <4>1. attr = "voltage" /\ s.enable /\ s.timing = StepConfig(cur.t)
        BY <2>2, <3>10 DEF ConfigOrder, RowsInv, PointConfigured, s
      <4> HIDE DEF attr
      <4> QED
        BY <3>3, <3>4, <3>5, <3>6, <3>10, <4>1, WrittenFields
    <3>11. CASE cfg = 4
      <4>1. /\ attr = "target" /\ s.enable /\ s.timing = StepConfig(cur.t)
            /\ s.volt = StepConfig(cur.v)
        BY <2>2, <3>11 DEF ConfigOrder, RowsInv, PointConfigured, s
      <4> HIDE DEF attr
      <4> QED
        BY <3>3, <3>4, <3>5, <3>6, <3>11, <4>1, WrittenFields
    <3>12. CASE cfg = 5
      <4>1. /\ attr = "adapt_type" /\ s.enable /\ s.timing = StepConfig(cur.t)
            /\ s.volt = StepConfig(cur.v) /\ s.target = opt.target_test_count
        BY <2>2, <3>12 DEF ConfigOrder, RowsInv, PointConfigured, s
      <4>2. z = s /\ link'.adapt_type = "NO_ADAPT"
        BY <1>2, <2>1, <4>1 DEF ConfigEffect, LinkStates, s, z
      <4> HIDE DEF attr
      <4> QED
        BY <3>6, <3>12, <4>1, <4>2
    <3> QED
      BY <2>1, <2>4, <3>8, <3>9, <3>10, <3>11, <3>12
  <2>5. CASE cfg = 6
    <3>1. attr = "pwrmode"
      BY <2>5 DEF ConfigOrder
    <3>2. /\ pc' = "poll" /\ cfg' = 1 /\ Configured' = 6 /\ Configured = 5
          /\ pc' \in Measuring
      BY <1>2, <2>2, <2>5 DEF Goto, Configured, Measuring
    <3>3. link'.pmc = "busy" /\ link'.adapt_type = link.adapt_type /\ UNCHANGED mon
      BY <1>2, <2>1, <3>1 DEF ConfigEffect, LinkStates
    <3>4. PointConfigured'
      BY <2>1, <2>2, <3>2, <3>3 DEF RowsInv, PointConfigured
    <3>5. ClearOnEnable => Unstarted(s) /\ ~s.armed
      BY <3>2 DEF RowsInv, PointMeasured
    <3>6. mon[Mon]' = s
      BY <2>2, <3>3
    <3>7. PointMeasured'
      <4> HIDE DEF s
      <4> QED
        BY <3>2, <3>3, <3>5, <3>6 DEF PointMeasured
    <3>8. LinkQuiet'
      BY <3>2 DEF LinkQuiet, Early
    <3> QED
      BY <3>4, <3>7, <3>8
  <2> QED
    BY <2>1, <2>4, <2>5
<1> QED
  BY <1>1, <1>2 DEF ConfigWrite, Goto, Fail

\* When the counts tell the program to stop, the monitor has stopped, and what
\* it has counted is of the point at hand.
LEMMA StoppedOfPoint ==
    ASSUME IInv, SweepInv, RowsInv, pc = "errors", Answers(cur.l),
           EomStopped(tested, mon[Mon].errors)
    PROVE  LET s == mon[Mon]
           IN  /\ link.pmc = "up" /\ OfPoint(s) /\ ~s.start
               /\ s.tested >= opt.target_test_count \/ s.errors >= ErrorThreshold
<1> DEFINE s == mon[Mon]
<1>0. Mon \in Monitors /\ s \in MonitorStates /\ link \in LinkStates
  BY DEF Answers, Mon, Monitors, IInv, TypeOK, MonitorTypeOK, AcceptedOptions
<1>1. pc \in Measuring /\ s.target = opt.target_test_count /\ opt.target_test_count \in Int
  BY DEF Measuring, Configured, RowsInv, PointConfigured, IInv, TypeOK, AcceptedOptions
<1>2. CASE tested >= opt.target_test_count
  <2>1. OfPoint(s) /\ s.tested >= opt.target_test_count /\ link.pmc = "up"
    BY <1>2 DEF RowsInv, PointMeasured
  <2>2. ~s.start
    BY <1>0, <1>1, <2>1 DEF OfPoint, Measures, MonitorStates
  <2> QED
    BY <2>1, <2>2
<1>3. CASE ~(tested >= opt.target_test_count)
  <2>1. s.errors >= ErrorThreshold
    BY <1>3 DEF EomStopped
  <2>2. ErrorThreshold \in Nat \ {0} /\ s.errors \in Nat
    BY <1>0, MonitorAssumption DEF MonitorStates
  <2>3. ~s.start
    BY <1>0, <2>1, <2>2 DEF SweepInv, ErrorsBounded
  <2>4. ~Unstarted(s)
    BY <2>1, <2>2 DEF Unstarted
  <2>5. link.pmc = "up"
    <3>1. link.pmc = "up" \/ ClearOnEnable
      BY DEF RowsInv, LinkQuiet
    <3>2. link.pmc \in {"up", "busy"}
      BY <1>0 DEF LinkStates
    <3> QED
      BY <1>1, <2>4, <3>1, <3>2 DEF RowsInv, PointMeasured
  <2>6. OfPoint(s)
    BY <1>1, <2>4, <2>5 DEF RowsInv, PointMeasured
  <2> QED
    BY <2>1, <2>3, <2>5, <2>6
<1> QED
  BY <1>2, <1>3

\* The steps of the program but for the writing of the attributes.
LEMMA RowsQuiet ==
    ASSUME HardwareRestarts, IInv, SweepInv, RowsInv, Program, ~ConfigWrite
    PROVE  LinkQuiet' /\ PointConfigured' /\ PointMeasured'
<1> USE DEF Goto, Fail
<1>1. CASE pc' \notin Early \cup {"config", "disable"} \cup Measuring
  BY <1>1, RowsOutside
<1>2. CASE OpenBsg \/ CheckSupport \/ PrepareIo \/ ReadLimits \/ CheckRange \/ AllocResults
  <2>1. pc \in Early /\ UNCHANGED link
    BY <1>2 DEF OpenBsg, CheckSupport, PrepareIo, ReadLimits, CheckRange, AllocResults, Early
  <2>2. link'.pmc = "up"
    BY <2>1 DEF RowsInv, LinkQuiet
  <2>3. \/ pc' \in Early
        \/ pc' = "config" /\ cfg' = 1
        \/ pc' \in Ending
    BY <1>2 DEF OpenBsg, CheckSupport, PrepareIo, ReadLimits, CheckRange, AllocResults, Early,
       Ending
  <2>4. pc' \in Ending => pc' \notin Early \cup {"config", "disable"} \cup Measuring
    BY DEF Ending, Early, Measuring
  <2> QED
    BY <1>1, <2>2, <2>3, <2>4, RowsFresh DEF Early
<1>3. CASE PollUnipro
  <2>1. /\ pc \in Measuring /\ UNCHANGED <<opt, cur, cfg, mon, link>>
        /\ (pc' = "io" /\ link.pmc = "up") \/ pc' = "delay"
    BY <1>3 DEF PollUnipro, Measuring
  <2> QED
    BY <2>1, RowsOn DEF Measuring
<1>4. CASE Delay
  <2>1. /\ pc \in Measuring /\ UNCHANGED <<opt, cur, cfg, mon, link>>
        /\ pc' = "io" /\ (DelayCoversPmc => link.pmc = "up")
    BY <1>4 DEF Delay, Measuring
  <2>2. link.pmc = "up" \/ ClearOnEnable
    BY <2>1 DEF HardwareRestarts
  <2> QED
    BY <2>1, <2>2, RowsOn DEF Measuring
<1>5. CASE (DoIo \/ GetStart) /\ pc' # "out"
  <2>1. /\ pc \in {"io", "start"} /\ UNCHANGED <<opt, cur, cfg, mon, link>>
        /\ pc' \in {"io", "start", "tested"}
    BY <1>5 DEF DoIo, GetStart
  <2>2. link.pmc = "up" \/ ClearOnEnable
    BY <2>1 DEF RowsInv, LinkQuiet
  <2> QED
    BY <2>1, <2>2, RowsOn DEF Measuring
<1>6. CASE GetTested /\ pc' # "out"
  <2>1. /\ pc = "tested" /\ UNCHANGED <<opt, cur, cfg, mon, link>>
        /\ pc' = "errors" /\ tested' = mon[Mon].tested
    BY <1>6 DEF GetTested
  <2>2. link.pmc = "up" \/ ClearOnEnable
    BY <2>1 DEF RowsInv, LinkQuiet
  <2>3. ASSUME mon[Mon].tested >= opt.target_test_count
        PROVE  OfPoint(mon[Mon]) /\ link.pmc = "up"
    <3>1. pc \in Measuring /\ opt.target_test_count \in Nat \ {0}
      <4>1. opt \in AcceptedOptions
        BY DEF IInv, TypeOK
      <4> QED
        BY <2>1, <4>1 DEF Measuring, AcceptedOptions, EOM_TARGET_TEST_COUNT_MAX
    <3>2. ~Unstarted(mon[Mon])
      BY <2>3, <3>1 DEF Unstarted
    <3>3. link.pmc \in {"up", "busy"}
      BY DEF IInv, TypeOK, MonitorTypeOK, LinkStates
    <3> QED
      BY <2>2, <3>1, <3>2, <3>3 DEF RowsInv, PointMeasured
  <2> QED
    BY <2>1, <2>2, <2>3, RowsOn DEF Measuring
<1>7. CASE GetErrors /\ pc' = "io"
  <2>1. pc = "errors" /\ UNCHANGED <<opt, cfg, mon, link>>
    BY <1>7 DEF GetErrors
  <2>2. UNCHANGED cur
    BY <1>7 DEF GetErrors, LogRow, NextPoint
  <2>3. link.pmc = "up" \/ ClearOnEnable
    BY <2>1 DEF RowsInv, LinkQuiet
  <2> QED
    BY <1>7, <2>1, <2>2, <2>3, RowsOn DEF Measuring
<1>8. CASE GetErrors /\ pc' # "io" /\ pc' # "out"
  <2>1. /\ pc = "errors" /\ Answers(cur.l) /\ EomStopped(tested, mon[Mon].errors)
        /\ pc' \in {"config", "disable"} /\ UNCHANGED <<cfg, link>>
    BY <1>8 DEF GetErrors, LogRow, NextPoint
  <2>2. link.pmc = "up"
    BY <2>1, StoppedOfPoint
  <2>3. cfg = 1
    BY <2>1 DEF RowsInv, LinkQuiet, Measuring
  <2> QED
    BY <2>1, <2>2, <2>3, RowsFresh
<1>9. CASE DisableMonitor /\ pc' = "config"
  <2>1. pc = "disable" /\ UNCHANGED <<cfg, link>>
    BY <1>9 DEF DisableMonitor
  <2>2. link.pmc = "up" /\ cfg = 1
    BY <2>1 DEF RowsInv, LinkQuiet
  <2> QED
    BY <1>9, <2>1, <2>2, RowsFresh
<1>10. \/ pc' \notin Early \cup {"config", "disable"} \cup Measuring
       \/ OpenBsg \/ CheckSupport \/ PrepareIo \/ ReadLimits \/ CheckRange \/ AllocResults
       \/ PollUnipro \/ Delay \/ ((DoIo \/ GetStart) /\ pc' # "out")
       \/ (GetTested /\ pc' # "out") \/ (GetErrors /\ pc' = "io")
       \/ (GetErrors /\ pc' # "io" /\ pc' # "out") \/ (DisableMonitor /\ pc' = "config")
  <2>1. {"out", "report", "close_tmp", "close_bsg", "done"}
          \cap (Early \cup {"config", "disable"} \cup Measuring) = {}
    BY DEF Early, Measuring
  <2>2. DisableMonitor => pc' \in {"config", "report", "out"}
    BY DEF DisableMonitor
  <2>3. GenerateReport \/ FreeBuffers \/ CloseTmp \/ CloseBsg =>
          pc' \in {"out", "close_tmp", "close_bsg", "done"}
    BY DEF GenerateReport, FreeBuffers, CloseTmp, CloseBsg, Release
  <2> QED
    BY <2>1, <2>2, <2>3 DEF Program
<1> QED
  BY <1>1, <1>2, <1>3, <1>4, <1>5, <1>6, <1>7, <1>8, <1>9, <1>10

LEMMA RowsStep ==
    HardwareRestarts /\ IInv /\ SweepInv /\ RowsInv /\ [Next]_vars => RowsInv'
<1> SUFFICES ASSUME HardwareRestarts, IInv, SweepInv, RowsInv, [Next]_vars PROVE RowsInv'
  OBVIOUS
<1>1. NeverArmed'
  BY NeverArmedStep DEF IInv, RowsInv
<1>2. caps' \in Caps
  <2>1. UNCHANGED caps
    BY DEF Next, Terminated, Hardware, vars, progVars, Program, OpenBsg, CheckSupport,
       PrepareIo, ReadLimits, CheckRange, AllocResults, ConfigWrite, PollUnipro, Delay, DoIo,
       GetStart, GetTested, GetErrors, DisableMonitor, GenerateReport, FreeBuffers, CloseTmp,
       CloseBsg, Release
  <2> QED
    BY <2>1 DEF RowsInv
<1>3. CASE UNCHANGED vars
  <2>1. UNCHANGED <<pc, opt, cur, cfg, tested, mon, link>>
    BY <1>3 DEF vars, progVars
  <2>2. LinkQuiet' /\ PointConfigured' /\ PointMeasured'
    BY <2>1 DEF RowsInv, LinkQuiet, PointConfigured, PointMeasured, Configured, Mon, OfPoint, Measures
  <2> QED
    BY <1>1, <1>2, <2>2 DEF RowsInv
<1>4. LinkQuiet' /\ PointConfigured' /\ PointMeasured' => RowsInv'
  BY <1>1, <1>2 DEF RowsInv
<1> QED
  BY <1>3, <1>4, RowsHardware, RowsConfig, RowsQuiet DEF Next, Terminated

LEMMA RowsInit == Init => RowsInv
<1> SUFFICES ASSUME Init PROVE RowsInv
  OBVIOUS
<1>1. pc = "open" /\ link.pmc = "up" /\ caps \in Caps
  BY DEF Init, MonitorInit
<1>2. LinkQuiet /\ PointConfigured /\ PointMeasured
  BY <1>1 DEF LinkQuiet, PointConfigured, PointMeasured, Configured, Measuring, Early
<1>3. NeverArmed
  <2>1. PICK left \in Leftovers :
          mon = [m \in Monitors |-> IF m \in left THEN LeftEnabled ELSE Idle]
    BY DEF Init, MonitorInit
  <2>2. Idle.armed = FALSE /\ LeftEnabled.armed = FALSE
    BY DEF Idle, LeftEnabled
  <2> QED
    BY <2>1, <2>2 DEF NeverArmed
<1> QED
  BY <1>1, <1>2, <1>3 DEF RowsInv

-----------------------------------------------------------------------------
\* The step the loop is at is one that six bits hold.
LEMMA StepsOfCursor ==
    ASSUME StepsFit, IInv, SweepInv, RowsInv, pc \in Scanning
    PROVE  cur.t \in -63 .. 63 /\ cur.v \in -63 .. 63
<1>1. RangeOK(opt, caps) /\ InGrid(opt, cur.l, cur.t, cur.v)
  BY DEF SweepInv, BoundsSettled, IInv, ScanProgress
<1>2. caps.timing_max_steps <= 63 /\ caps.voltage_max_steps <= 63
  BY DEF StepsFit, RowsInv
<1>3. /\ caps.timing_max_steps \in Nat /\ caps.voltage_max_steps \in Nat
      /\ opt \in AcceptedOptions /\ cur \in Cursors
  BY DEF IInv, TypeOK, CapsRecords
<1>4. /\ opt.voltage_low \in Int /\ opt.voltage_high \in Int
      /\ opt.timing_left \in Int /\ opt.timing_right \in Int
      /\ cur.t \in Int /\ cur.v \in Int
  BY <1>3 DEF AcceptedOptions, Cursors
<1>5. /\ -63 <= opt.voltage_low /\ opt.voltage_high <= 63
      /\ -63 <= opt.timing_left /\ opt.timing_right <= 63
  BY <1>1, <1>2, <1>3, <1>4 DEF RangeOK, Within
<1> QED
  BY <1>1, <1>4, <1>5 DEF InGrid

LEMMA RowStep ==
    StepsFit /\ IInv /\ SweepInv /\ RowsInv /\ [Next]_vars => RowMeasured
<1> SUFFICES ASSUME StepsFit, IInv, SweepInv, RowsInv, [Next]_vars, Len(er') > Len(er)
             PROVE  RowMeasured
  BY DEF RowMeasured
<1>1. er \in Seq(Rows) /\ Len(er) \in Nat
  BY DEF IInv, TypeOK
<1>2. GetErrors
  BY <1>1 DEF Next, Terminated, Hardware, vars, progVars, Program, OpenBsg, CheckSupport,
     PrepareIo, ReadLimits, CheckRange, AllocResults, ConfigWrite, PollUnipro, Delay, DoIo,
     GetStart, GetTested, DisableMonitor, GenerateReport, FreeBuffers, CloseTmp, CloseBsg,
     Release
<1> DEFINE s == mon[Mon]
           row == [lane |-> cur.l, timing |-> cur.t, volt |-> cur.v, error_cnt |-> s.errors]
<1>3. /\ pc = "errors" /\ Answers(cur.l) /\ EomStopped(tested, s.errors)
      /\ er' = Append(er, row) /\ pc \in Scanning
  BY <1>1, <1>2 DEF GetErrors, LogRow, Scanning
<1>4. Len(er') = Len(er) + 1 /\ er'[Len(er')] = row
  BY <1>1, <1>3
<1>5. /\ OfPoint(s) /\ ~s.start
      /\ s.tested >= opt.target_test_count \/ s.errors >= ErrorThreshold
  BY <1>3, StoppedOfPoint
<1>6. cur.t \in -63 .. 63 /\ cur.v \in -63 .. 63
  BY <1>3, StepsOfCursor
<1>7. StepOf(StepConfig(cur.t)) = cur.t /\ StepOf(StepConfig(cur.v)) = cur.v
  BY <1>6, StepRoundTrip
<1>8. /\ s.run.mine /\ s.run.no_adapt /\ ~s.armed
      /\ StepOf(s.run.timing) = cur.t /\ StepOf(s.run.volt) = cur.v
  BY <1>5, <1>7 DEF OfPoint, Measures
<1>9. /\ row.lane = cur.l /\ row.timing = cur.t /\ row.volt = cur.v
      /\ row.error_cnt = s.errors /\ mon[<<opt.local_peer, row.lane>>] = s
  BY DEF Mon
<1> HIDE DEF row, s
<1> QED
  BY <1>4, <1>5, <1>8, <1>9 DEF RowMeasured

\* Every row that is logged is of a measurement of that very point: a run of the
\* monitor of its lane, started by this program with the timing and the voltage
\* of the row and with NO_ADAPT in force, and come to its end with the count of
\* the row.  It rests on what the program cannot see: that a monitor enabled
\* anew is cleared, or starts within the power mode change the program waits for.
THEOREM RowsMeasured ==
    HardwareRestarts /\ StepsFit => (Spec => RowsAreMeasured)
<1> SUFFICES ASSUME HardwareRestarts, StepsFit PROVE Spec => RowsAreMeasured
  OBVIOUS
<1>1. Init => RowsInv
  BY RowsInit
<1>2. (IInv /\ SweepInv) /\ RowsInv /\ [Next]_vars => RowsInv'
  BY RowsStep
<1>3. (IInv /\ SweepInv) /\ RowsInv /\ [Next]_vars => [RowMeasured]_vars
  BY RowStep
<1> QED
  BY <1>1, <1>2, <1>3, SweepInvariance, PTL DEF Spec, RowsAreMeasured
=============================================================================
