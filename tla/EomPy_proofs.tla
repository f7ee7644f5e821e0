----------------------------- MODULE EomPy_proofs -----------------------------
(***************************************************************************)
(* Theorems about ufs-eom.py, for every set of options, every limit of a   *)
(* device, every behaviour of adb and any number of calls that fail.       *)
(***************************************************************************)
EXTENDS EomPy, EyeMonitor_proofs

-----------------------------------------------------------------------------
(***************************************************************************)
(* What is scanned.                                                        *)
(***************************************************************************)
LEMMA TheSome == \A x : The(Some(x)) = x /\ Some(x) # None
BY DEF The, Some, None

LEMMA OptionalValue ==
    ASSUME NEW S, NEW s, IsOptional(s, S)
    PROVE  /\ s = None \/ The(s) \in S
           /\ s # None => s = Some(The(s))
BY DEF IsOptional

LEMMA OptionFacts ==
    ASSUME opt \in PyOptions, limits \in Limits
    PROVE  /\ opt.side \in Sides
           /\ IsOptional(opt.lane, Nat) /\ IsOptional(opt.voltage, Int)
           /\ opt.target \in 1 .. 127
           /\ limits.timing \in Nat /\ limits.voltage \in Nat
BY EomPyAssumption DEF EOM_TARGET_TEST_COUNT_MAX

\* The area is one the loops can run over, whatever the options and the limits.
LEMMA AreaIsScan ==
    ASSUME opt \in PyOptions, limits \in Limits
    PROVE  /\ IsScan(area)
           /\ area.lane = StartLane(opt) /\ area.num_lanes \in {1, 2}
           /\ area.timing_left = -limits.timing /\ area.timing_right = limits.timing
           /\ opt.voltage = None =>
                area.voltage_low = -limits.voltage /\ area.voltage_high = limits.voltage
           /\ opt.voltage # None =>
                area.voltage_low = The(opt.voltage) /\ area.voltage_high = The(opt.voltage)
<1>1. StartLane(opt) \in Nat /\ LaneCount(opt) \in {1, 2}
  BY OptionFacts, OptionalValue DEF StartLane, LaneCount
<1>2. opt.voltage # None => The(opt.voltage) \in Int
  BY OptionFacts, OptionalValue
<1>3. /\ area.lane = StartLane(opt) /\ area.num_lanes = LaneCount(opt)
      /\ area.timing_left = -limits.timing /\ area.timing_right = limits.timing
      /\ area.voltage_low = IF opt.voltage = None THEN -limits.voltage ELSE The(opt.voltage)
      /\ area.voltage_high = IF opt.voltage = None THEN limits.voltage ELSE The(opt.voltage)
  BY DEF area, Area
<1> QED
  BY <1>1, <1>2, <1>3, OptionFacts DEF IsScan

-----------------------------------------------------------------------------
(***************************************************************************)
(* Typing.                                                                 *)
(***************************************************************************)
LEMMA TypeInit == Init => TypeOK
<1> SUFFICES ASSUME Init PROVE TypeOK
  OBVIOUS
<1>1. MonitorTypeOK
  BY MonitorInitType DEF Init
<1>2. IsOptional(caps.timing, Nat) /\ IsOptional(caps.voltage, Nat) /\ IsOptional(tested, Nat)
  BY DEF Init, IsOptional
<1>3. failures \in 0 .. MaxLoss + 1
  BY EomPyAssumption DEF Init
<1>4. pc \in Labels /\ opt \in PyOptions /\ adb \in AdbKinds /\ limits \in Limits
  BY DEF Init, Labels
<1>5. cur \in [l : Nat, t : Int, v : Int]
  BY DEF Init
<1>6. cfg \in 1 .. 6 /\ skipped \in Nat
  BY DEF Init
<1>7. /\ trailer \in BOOLEAN
      /\ lost \in {"never", "before", "now"}
  BY DEF Init
<1>8. rows \in Seq(Rows)
  BY DEF Init
<1> QED
  BY <1>1, <1>2, <1>3, <1>4, <1>5, <1>6, <1>7, <1>8 DEF TypeOK

\* A read gives the value or None, the value only of a lane that answers.
LEMMA OutcomeValue ==
    ASSUME NEW l, NEW x, NEW s \in Outcomes(l, x)
    PROVE  s = None \/ (s = Some(x) /\ The(s) = x /\ Answers(l))
BY TheSome DEF Outcomes

LEMMA OutcomeOptional ==
    ASSUME NEW l, NEW x, NEW S, Answers(l) => x \in S, NEW s \in Outcomes(l, x)
    PROVE  IsOptional(s, S)
BY OutcomeValue DEF IsOptional

LEMMA CountType ==
    ASSUME failures \in 0 .. MaxLoss + 1, NEW b, CountFailureIf(b)
    PROVE  /\ failures' \in 0 .. MaxLoss + 1
           /\ failures <= failures'
           /\ b => failures' > 0
BY EomPyAssumption DEF CountFailureIf

\* The program's writes keep the monitors and the link within their types.
LEMMA WriteType ==
    ASSUME TypeOK, Answers(cur.l), NEW attr, NEW x, WriteMon(attr, x),
           \/ attr = "enable" /\ x \in {0, 1}
           \/ attr \in {"timing", "voltage", "target"} /\ x \in Registers
    PROVE  MonitorTypeOK'
<1>1. mon[Mon] \in MonitorStates /\ mon \in [Monitors -> MonitorStates]
  BY OptionFacts DEF TypeOK, MonitorTypeOK, Answers, Mon, Monitors
<1>2. Written(mon[Mon], attr, x) \in MonitorStates
  BY <1>1, WrittenType
<1> QED
  BY <1>1, <1>2 DEF WriteMon, TypeOK, MonitorTypeOK

LEMMA ConfigType ==
    ASSUME TypeOK, NEW attr \in {ConfigOrder[i] : i \in 1 .. 6},
           Answers(ConfigLane(attr)), ConfigEffect(attr)
    PROVE  MonitorTypeOK'
<1>1. CASE attr = "adapt_type" \/ attr = "pwrmode"
  BY <1>1 DEF ConfigEffect, LinkStates, TypeOK, MonitorTypeOK
<1>2. CASE attr \in {"enable", "timing", "voltage", "target"}
  <2>1. /\ ConfigValue("enable") = 1
        /\ ConfigValue("timing") = StepConfig(cur.t)
        /\ ConfigValue("voltage") = StepConfig(cur.v)
        /\ ConfigValue("target") = opt.target
    BY DEF ConfigValue
  <2>2. /\ StepConfig(cur.t) \in Registers /\ StepConfig(cur.v) \in Registers
        /\ opt.target \in Registers
    BY StepConfigType, OptionFacts DEF TypeOK, Registers
  <2>3. WriteMon(attr, ConfigValue(attr)) /\ Answers(cur.l)
    BY <1>2 DEF ConfigEffect, ConfigLane
  <2> QED
    BY <1>2, <2>1, <2>2, <2>3, WriteType
<1> QED
  BY <1>1, <1>2 DEF ConfigOrder

\* The innermost loops stay within the numbers.
LEMMA NextPointType ==
    ASSUME TypeOK, NextPoint
    PROVE  cur' \in [l : Nat, t : Int, v : Int] /\ pc' \in Labels
<1>1. area.voltage_low \in Int /\ cur \in [l : Nat, t : Int, v : Int]
  BY AreaIsScan DEF TypeOK, IsScan
<1>2. \/ cur' = [cur EXCEPT !.v = @ + 1] /\ pc' = "config"
      \/ cur' = [cur EXCEPT !.t = @ + 1, !.v = area.voltage_low] /\ pc' = "config"
      \/ cur' = cur /\ pc' = "disable"
  BY DEF NextPoint, Goto
<1>3. cur' \in [l : Nat, t : Int, v : Int]
  <2>1. ASSUME NEW c \in [l : Nat, t : Int, v : Int], NEW t \in Int, NEW v \in Int
        PROVE  /\ [c EXCEPT !.v = v] \in [l : Nat, t : Int, v : Int]
               /\ [c EXCEPT !.t = t, !.v = v] \in [l : Nat, t : Int, v : Int]
    OBVIOUS
  <2>2. cur.t + 1 \in Int /\ cur.v + 1 \in Int
    BY <1>1
  <2> QED
    BY <1>1, <1>2, <2>1, <2>2
<1>4. pc' \in Labels
  BY <1>2 DEF Labels
<1> QED
  BY <1>3, <1>4

LEMMA SkipType ==
    ASSUME TypeOK, SkipPoint
    PROVE  /\ cur' \in [l : Nat, t : Int, v : Int] /\ pc' \in Labels
           /\ failures' \in 0 .. MaxLoss + 1 /\ skipped' \in Nat
           /\ lost' \in {"never", "before", "now"} /\ rows' = rows
<1>1. CountFailureIf(TRUE) /\ failures \in 0 .. MaxLoss + 1
  BY DEF SkipPoint, TypeOK
<1>2. failures' \in 0 .. MaxLoss + 1
  BY <1>1, CountType
<1> QED
  BY <1>2, NextPointType DEF TypeOK, SkipPoint, LeaveWrites

LEMMA PrintType ==
    ASSUME TypeOK, NEW e \in Nat, PrintRow(e)
    PROVE  /\ cur' \in [l : Nat, t : Int, v : Int] /\ pc' \in Labels
           /\ failures' \in 0 .. MaxLoss + 1 /\ skipped' \in Nat
           /\ lost' \in {"never", "before", "now"} /\ rows' \in Seq(Rows)
<1>1. [lane |-> cur.l, timing |-> cur.t, volt |-> cur.v, error_cnt |-> e] \in Rows
  BY DEF TypeOK, Rows
<1> QED
  BY <1>1, NextPointType DEF TypeOK, PrintRow, LeaveWrites

LEMMA MonitorAt ==
    ASSUME TypeOK, Answers(cur.l)
    PROVE  Mon \in Monitors /\ mon[Mon] \in MonitorStates
BY OptionFacts DEF TypeOK, MonitorTypeOK, Answers, Mon, Monitors

LEMMA TypeStep == TypeOK /\ [Next]_vars => TypeOK'
<1> SUFFICES ASSUME TypeOK, [Next]_vars PROVE TypeOK'
  OBVIOUS
<1> USE DEF Goto, Labels
<1>0. /\ failures \in 0 .. MaxLoss + 1 /\ lost \in {"never", "before", "now"} /\ MonitorTypeOK
      /\ Die => failures' \in 0 .. MaxLoss + 1
  BY CountType DEF TypeOK, Die
<1>1. CASE GetDeviceInfo
  <2>1. failures' \in 0 .. MaxLoss + 1 /\ pc' \in Labels
    BY <1>0, <1>1 DEF GetDeviceInfo, Die
  <2> QED
    BY <1>1, <2>1 DEF GetDeviceInfo, TypeOK, MonitorTypeOK
<1>2. CASE GetEomCaps
  <2>1. failures' \in 0 .. MaxLoss + 1 /\ pc' \in Labels
    BY <1>0, <1>2, CountType DEF GetEomCaps, Die
  <2>2. IsOptional(caps'.timing, Nat) /\ IsOptional(caps'.voltage, Nat)
    <3>1. limits.timing \in Nat /\ limits.voltage \in Nat
      BY OptionFacts DEF TypeOK
    <3>2. \A t \in Outcomes(StartLane(opt), limits.timing) : IsOptional(t, Nat)
      BY <3>1, OutcomeOptional
    <3>3. \A v \in Outcomes(StartLane(opt), limits.voltage) : IsOptional(v, Nat)
      BY <3>1, OutcomeOptional
    <3> QED
      BY <1>2, <3>2, <3>3 DEF GetEomCaps, TypeOK
  <2> QED
    BY <1>2, <2>1, <2>2 DEF GetEomCaps, TypeOK, MonitorTypeOK
<1>3. CASE DetermineVoltage
  <2>1. cur' \in [l : Nat, t : Int, v : Int]
    BY <1>3, AreaIsScan DEF DetermineVoltage, TypeOK, IsScan
  <2>2. pc' \in Labels
    BY <1>3 DEF DetermineVoltage
  <2> QED
    BY <1>3, <2>1, <2>2 DEF DetermineVoltage, TypeOK, MonitorTypeOK, history
<1>4. CASE EnableLane
  <2>1. MonitorTypeOK'
    BY <1>0, <1>4, WriteType DEF EnableLane, Set, MonitorTypeOK
  <2>2. failures' \in 0 .. MaxLoss + 1 /\ lost' \in {"never", "before", "now"} /\ pc' \in Labels
    BY <1>0, <1>4, CountType DEF EnableLane, Set
  <2> QED
    BY <1>4, <2>1, <2>2 DEF EnableLane, TypeOK
<1>5. CASE ConfigWrite
  <2>1. /\ ConfigOrder[cfg] \in {ConfigOrder[i] : i \in 1 .. 6}
        /\ Len(ConfigOrder) = 6
    BY DEF TypeOK, ConfigOrder
  <2>2. MonitorTypeOK'
    BY <1>0, <1>5, <2>1, ConfigType DEF ConfigWrite, Set, MonitorTypeOK
  <2>3. failures' \in 0 .. MaxLoss + 1 /\ lost' \in {"never", "before", "now"} /\ pc' \in Labels
    BY <1>0, <1>5, CountType DEF ConfigWrite, Set
  <2>4. cfg' \in 1 .. 6
    BY <1>5, <2>1 DEF ConfigWrite, TypeOK
  <2> QED
    BY <1>5, <2>2, <2>3, <2>4 DEF ConfigWrite, TypeOK
<1>6. CASE GetStart
  <2>1. \/ SkipPoint
        \/ pc' \in {"start", "tested"} /\ UNCHANGED <<cur, rows, skipped, failures, lost>>
        \/ pc' = "died" /\ Die /\ UNCHANGED <<cur, rows, skipped, lost>>
    BY <1>6 DEF GetStart, StayAt, DieAt, Die
  <2>2. CASE SkipPoint
    BY <1>6, <2>2, SkipType DEF GetStart, TypeOK, MonitorTypeOK
  <2>3. CASE ~SkipPoint
    BY <1>0, <1>6, <2>1, <2>3 DEF GetStart, TypeOK, MonitorTypeOK
  <2> QED
    BY <2>2, <2>3
<1>7. CASE GetTested
  <2>1. IsOptional(tested', Nat)
    <3>1. Answers(cur.l) => mon[Mon].tested \in Nat
      BY MonitorAt DEF TypeOK, MonitorStates
    <3> QED
      BY <1>7, <3>1, OutcomeOptional DEF GetTested, TypeOK
  <2>2. failures' \in 0 .. MaxLoss + 1 /\ pc' \in Labels
    BY <1>0, <1>7, CountType DEF GetTested, Die
  <2> QED
    BY <1>7, <2>1, <2>2 DEF GetTested, TypeOK, MonitorTypeOK
<1>8. CASE GetErrors
  <2>1. PICK e : \/ e \in Outcomes(cur.l, mon[Mon].errors)
                    /\ IF None \in {tested, e} THEN SkipPoint
                       ELSE IF EomStopped(The(tested), The(e)) THEN PrintRow(The(e))
                       ELSE StayAt("start")
                 \/ DieAt
    BY <1>8 DEF GetErrors
  <2>2. IsOptional(tested', Nat)
    BY <1>8 DEF GetErrors, IsOptional
  <2>3. CASE SkipPoint
    BY <1>8, <2>2, <2>3, SkipType DEF GetErrors, TypeOK, MonitorTypeOK
  <2>4. CASE e \in Outcomes(cur.l, mon[Mon].errors) /\ e # None /\ PrintRow(The(e))
    <3>1. Answers(cur.l) /\ The(e) = mon[Mon].errors
      BY <2>4, OutcomeValue
    <3>2. The(e) \in Nat
      BY <3>1, MonitorAt DEF TypeOK, MonitorStates
    <3> QED
      BY <1>8, <2>2, <2>4, <3>2, PrintType DEF GetErrors, TypeOK, MonitorTypeOK
  <2>5. CASE StayAt("start") \/ DieAt
    BY <1>0, <1>8, <2>2, <2>5 DEF GetErrors, StayAt, DieAt, Die, TypeOK, MonitorTypeOK
  <2> QED
    BY <2>1, <2>3, <2>4, <2>5
<1>9. CASE DisableLane
  <2>1. MonitorTypeOK'
    <3>1. CASE UNCHANGED <<mon, link>>
      BY <1>0, <3>1 DEF MonitorTypeOK
    <3>2. CASE Answers(cur.l) /\ mon' = [mon EXCEPT ![Mon] = Written(@, "enable", 0)] /\ UNCHANGED link
      BY <3>2, WriteType DEF WriteMon
    <3> QED
      BY <1>9, <3>1, <3>2 DEF DisableLane, DisabledLane, Set, Mon
  <2>2. failures' \in 0 .. MaxLoss + 1 /\ lost' \in {"never", "before", "now"}
    BY <1>0, <1>9, CountType DEF DisableLane, Set
  <2>3. cur' \in [l : Nat, t : Int, v : Int] /\ pc' \in Labels
    <3>1. /\ area.timing_left \in Int /\ area.voltage_low \in Int
          /\ cur \in [l : Nat, t : Int, v : Int]
      BY AreaIsScan DEF TypeOK, IsScan
    <3>2. \/ cur' = [l |-> cur.l + 1, t |-> area.timing_left, v |-> area.voltage_low]
             /\ pc' = "enable"
          \/ cur' = cur /\ pc' = "finish"
      BY <1>9 DEF DisableLane
    <3> QED
      BY <3>1, <3>2
  <2> QED
    BY <1>9, <2>1, <2>2, <2>3 DEF DisableLane, TypeOK
<1>10. CASE Finish
  BY <1>10 DEF Finish, TypeOK, MonitorTypeOK, history
<1>11. CASE Hardware
  BY <1>0, <1>11, HardwareType DEF Hardware, TypeOK, scriptVars, history
<1>12. CASE UNCHANGED vars
  BY <1>12 DEF vars, scriptVars, history, TypeOK, MonitorTypeOK
<1> QED
  BY <1>1, <1>2, <1>3, <1>4, <1>5, <1>6, <1>7, <1>8, <1>9, <1>10, <1>11, <1>12
     DEF Next, Script, Terminated

\* The script stays in its types, whatever the options and the limits, and
\* whatever fails.
THEOREM TypeCorrect == Spec => []TypeOK
<1>1. Init => TypeOK
  BY TypeInit
<1>2. TypeOK /\ [Next]_vars => TypeOK'
  BY TypeStep
<1> QED
  BY <1>1, <1>2, PTL DEF Spec

-----------------------------------------------------------------------------
(***************************************************************************)
(* The invariant: where the loops are, what is behind them, and what       *)
(* became of the run.                                                      *)
(***************************************************************************)
InLane == {"config", "start", "tested", "errors"}
Passed == Len(rows) + skipped
At == GridIndex(area, cur.l, cur.t, cur.v)

\* The loops are at a point of the area: the first of a lane when the lane is
\* enabled, and the last when it is disabled.
PointAtHand ==
    /\ pc \in InLane \cup {"enable", "disable"} => InGrid(area, cur.l, cur.t, cur.v)
    /\ pc = "enable" => cur.t = area.timing_left /\ cur.v = area.voltage_low
    /\ pc = "disable" => cur.t = area.timing_right /\ cur.v = area.voltage_high

\* The points behind are those before the point at hand, each once, written down
\* or left out.
PassedSoFar ==
    /\ pc \in {"device_info", "caps", "voltage"} => Passed = 0
    /\ pc \in InLane \cup {"enable"} => Passed = At
    /\ pc = "disable" => Passed = At + 1
    /\ pc \in {"finish", "done"} => Passed = ResultCount(area)

\* Nothing is left out of a run of which no call failed, and with nothing left
\* out the rows are in the order of the grid.
RowsPlaced ==
    /\ skipped > 0 => Failed
    /\ skipped = 0 =>
         \A i \in 1 .. Len(rows) :
            GridIndex(area, rows[i].lane, rows[i].timing, rows[i].volt) = i - 1

\* The steps that were read are those of the monitors, or a call failed.
CapsRead ==
    /\ caps.timing \in {None, Some(limits.timing)}
    /\ caps.voltage \in {None, Some(limits.voltage)}
    /\ pc \notin {"device_info", "caps", "died"} /\ None \in {caps.timing, caps.voltage} => Failed
    /\ pc \in InLane \cup {"enable", "disable", "finish", "done"} => VoltageInside

\* Why the script ended.
Ended ==
    /\ trailer <=> pc = "done"
    /\ pc = "died" => Failed \/ TranslatesDevice
    /\ pc = "exited" => ~VoltageInside

PyInv == TypeOK /\ PointAtHand /\ PassedSoFar /\ RowsPlaced /\ CapsRead /\ Ended

LEMMA PyInit == Init => PyInv
<1> SUFFICES ASSUME Init PROVE PyInv
  OBVIOUS
<1>1. TypeOK /\ pc = "device_info" /\ rows = <<>> /\ skipped = 0 /\ trailer = FALSE
      /\ caps.timing = None /\ caps.voltage = None
  BY TypeInit DEF Init
<1>2. PointAtHand /\ PassedSoFar /\ RowsPlaced
  BY <1>1 DEF PointAtHand, PassedSoFar, RowsPlaced, Passed, InLane
<1>3. CapsRead /\ Ended
  BY <1>1 DEF CapsRead, Ended, InLane
<1> QED
  BY <1>1, <1>2, <1>3 DEF PyInv

\* The options and the monitors' limits never change, nor what is scanned.
LEMMA AreaFixed ==
    ASSUME [Next]_vars
    PROVE  /\ UNCHANGED <<opt, limits>>
           /\ area' = area /\ (VoltageInside' <=> VoltageInside)
<1>1. UNCHANGED <<opt, limits>>
  BY DEF Next, Script, Hardware, Terminated, vars, scriptVars, history, GetDeviceInfo,
     GetEomCaps, DetermineVoltage, EnableLane, ConfigWrite, GetStart, GetTested, GetErrors,
     DisableLane, Finish
<1> QED
  BY <1>1 DEF area, Area, StartLane, LaneCount, VoltageInside

\* A call that failed is not forgotten.
LEMMA FailuresKept ==
    ASSUME TypeOK, [Next]_vars
    PROVE  Failed => Failed'
<1>1. failures \in 0 .. MaxLoss + 1 /\ failures' \in 0 .. MaxLoss + 1
  BY TypeStep DEF TypeOK
<1>2. ASSUME NEW b, CountFailureIf(b) PROVE failures <= failures'
  BY <1>1, <1>2, CountType
<1>3. CASE UNCHANGED failures
  BY <1>3 DEF Failed
<1>4. CASE failures <= failures'
  BY <1>1, <1>4, EomPyAssumption DEF Failed
<1>5. UNCHANGED failures \/ failures <= failures'
  <2>1. Die => failures <= failures'
    BY <1>2 DEF Die
  <2>2. SkipPoint => failures <= failures'
    BY <1>2 DEF SkipPoint
  <2>3. GetDeviceInfo \/ GetEomCaps \/ GetTested => failures <= failures' \/ UNCHANGED failures
    BY <1>2, <2>1 DEF GetDeviceInfo, GetEomCaps, GetTested
  <2>4. EnableLane \/ ConfigWrite \/ DisableLane => failures <= failures' \/ UNCHANGED failures
    BY <1>2 DEF EnableLane, ConfigWrite, DisableLane, Set
  <2>5. GetStart \/ GetErrors => failures <= failures' \/ UNCHANGED failures
    BY <2>1, <2>2 DEF GetStart, GetErrors, StayAt, DieAt, PrintRow
  <2>6. Hardware \/ Terminated \/ UNCHANGED vars \/ DetermineVoltage \/ Finish => UNCHANGED failures
    BY DEF Hardware, Terminated, vars, history, DetermineVoltage, Finish
  <2> QED
    BY <2>3, <2>4, <2>5, <2>6 DEF Next, Script
<1> QED
  BY <1>3, <1>4, <1>5

-----------------------------------------------------------------------------
(***************************************************************************)
(* Going through the points.                                               *)
(***************************************************************************)
\* A point that is done with is followed by the next one of the grid, or by the
\* end of the lane.
LEMMA NextPointPasses ==
    ASSUME TypeOK, PointAtHand, PassedSoFar, pc \in InLane, NextPoint,
           UNCHANGED <<opt, limits>>, Passed' = Passed + 1
    PROVE  /\ PointAtHand' /\ PassedSoFar'
           /\ pc' \in {"config", "disable"}
<1> DEFINE a == area
<1>1. area' = a
  BY DEF area, Area, StartLane, LaneCount
<1>2. /\ IsScan(a)
      /\ InGrid(a, cur.l, cur.t, cur.v) /\ Passed = GridIndex(a, cur.l, cur.t, cur.v)
      /\ cur \in [l : Nat, t : Int, v : Int]
  BY AreaIsScan DEF TypeOK, PointAtHand, PassedSoFar, At
<1>3. /\ a.voltage_low \in Int /\ a.voltage_high \in Int
      /\ a.timing_left \in Int /\ a.timing_right \in Int
      /\ a.voltage_low <= a.voltage_high
      /\ cur.l \in Int /\ cur.t \in Int /\ cur.v \in Int
  BY <1>2 DEF IsScan
<1> HIDE DEF a
<1>4. SUFFICES ASSUME pc' \in {"config", "disable"}
               PROVE  /\ InGrid(a, cur'.l, cur'.t, cur'.v)
                      /\ pc' = "disable" => cur'.t = a.timing_right /\ cur'.v = a.voltage_high
                      /\ pc' = "config" => Passed + 1 = GridIndex(a, cur'.l, cur'.t, cur'.v)
                      /\ pc' = "disable" => Passed + 1 = GridIndex(a, cur'.l, cur'.t, cur'.v) + 1
  <2>1. pc' \in {"config", "disable"}
    BY DEF NextPoint, Goto
  <2>2. At' = GridIndex(a, cur'.l, cur'.t, cur'.v)
    BY <1>1 DEF At
  <2> QED
    BY <1>1, <1>4, <2>1, <2>2 DEF PointAtHand, PassedSoFar, InLane
<1>5. CASE cur.v < a.voltage_high
  <2>1. pc' = "config" /\ cur' = [cur EXCEPT !.v = cur.v + 1]
    BY <1>5 DEF NextPoint, Goto, a
  <2>2. cur'.l = cur.l /\ cur'.t = cur.t /\ cur'.v = cur.v + 1
    BY <1>2, <2>1
  <2>3. InGrid(a, cur.l, cur.t, cur.v + 1)
    BY <1>2, <1>3, <1>5 DEF InGrid
  <2>4. GridIndex(a, cur.l, cur.t, cur.v + 1) = GridIndex(a, cur.l, cur.t, cur.v) + 1
    BY <1>2, <1>3, GridNextVolt
  <2> QED
    BY <1>2, <2>1, <2>2, <2>3, <2>4
<1>6. CASE ~(cur.v < a.voltage_high) /\ cur.t < a.timing_right
  <2>1. pc' = "config" /\ cur' = [cur EXCEPT !.t = cur.t + 1, !.v = a.voltage_low]
    BY <1>6 DEF NextPoint, Goto, a
  <2>2. cur'.l = cur.l /\ cur'.t = cur.t + 1 /\ cur'.v = a.voltage_low
    BY <1>2, <2>1
  <2>3. InGrid(a, cur.l, cur.t + 1, a.voltage_low) /\ cur.v = a.voltage_high
    BY <1>2, <1>3, <1>6 DEF InGrid
  <2>4. GridIndex(a, cur.l, cur.t + 1, a.voltage_low)
          = GridIndex(a, cur.l, cur.t, a.voltage_high) + 1
    BY <1>2, <1>3, GridNextTiming
  <2> QED
    BY <1>2, <2>1, <2>2, <2>3, <2>4
<1>7. CASE ~(cur.v < a.voltage_high) /\ ~(cur.t < a.timing_right)
  <2>1. pc' = "disable" /\ cur' = cur
    BY <1>7 DEF NextPoint, Goto, a
  <2>2. cur.t = a.timing_right /\ cur.v = a.voltage_high
    BY <1>2, <1>3, <1>7 DEF InGrid
  <2> QED
    BY <1>2, <2>1, <2>2
<1> QED
  BY <1>5, <1>6, <1>7

\* A lane that is done with is followed by the first point of the next lane, or
\* by the end of the report.
LEMMA NextLanePasses ==
    ASSUME TypeOK, PointAtHand, PassedSoFar, DisableLane
    PROVE  PointAtHand' /\ PassedSoFar' /\ pc' \in {"enable", "finish"}
<1> DEFINE a == area
           size == Timings(a) * Volts(a)
<1>1. area' = a /\ pc = "disable" /\ Passed' = Passed
  BY DEF DisableLane, area, Area, StartLane, LaneCount, Passed
<1>2. /\ IsScan(a)
      /\ InGrid(a, cur.l, a.timing_right, a.voltage_high)
      /\ Passed = GridIndex(a, cur.l, a.timing_right, a.voltage_high) + 1
      /\ cur.l \in Nat
  BY <1>1, AreaIsScan DEF TypeOK, PointAtHand, PassedSoFar, At
<1>3. /\ Passed = ((cur.l + 1) - a.lane) * size
      /\ ResultCount(a) = a.num_lanes * size
  BY <1>2, GridNextLane, GridSizes
<1>4. /\ a.timing_left \in Int /\ a.timing_right \in Int /\ a.timing_left <= a.timing_right
      /\ a.voltage_low \in Int /\ a.voltage_high \in Int /\ a.voltage_low <= a.voltage_high
      /\ a.lane \in Nat /\ a.num_lanes \in Nat
  BY <1>2 DEF IsScan
<1>5. CASE cur.l + 1 < a.lane + a.num_lanes
  <2>1. /\ cur' = [l |-> cur.l + 1, t |-> a.timing_left, v |-> a.voltage_low]
        /\ pc' = "enable"
    BY <1>5 DEF DisableLane, Goto
  <2> HIDE DEF a, size
  <2>2. cur'.l = cur.l + 1 /\ cur'.t = a.timing_left /\ cur'.v = a.voltage_low
    BY <2>1
  <2>3. InGrid(a, cur.l + 1, a.timing_left, a.voltage_low)
    BY <1>2, <1>4, <1>5 DEF InGrid
  <2>4. GridIndex(a, cur.l + 1, a.timing_left, a.voltage_low) = ((cur.l + 1) - a.lane) * size
    BY <1>2, GridLaneStart DEF size
  <2>5. At' = Passed
    BY <1>1, <1>3, <2>2, <2>4 DEF At
  <2> QED
    BY <1>1, <2>1, <2>2, <2>3, <2>5 DEF PointAtHand, PassedSoFar, InLane
<1>6. CASE ~(cur.l + 1 < a.lane + a.num_lanes)
  <2>1. pc' = "finish"
    BY <1>6 DEF DisableLane, Goto
  <2> HIDE DEF a, size
  <2>2. (cur.l + 1) - a.lane = a.num_lanes
    BY <1>2, <1>4, <1>6 DEF InGrid
  <2>3. Passed = ResultCount(a)
    BY <1>3, <2>2
  <2> QED
    BY <1>1, <2>1, <2>3 DEF PointAtHand, PassedSoFar, InLane
<1> QED
  BY <1>5, <1>6

\* A point that is left out, or written down with a count.
LEMMA SkipPasses ==
    ASSUME PyInv, pc \in InLane, SkipPoint, UNCHANGED <<opt, limits, caps, trailer>>,
           TypeOK'
    PROVE  PyInv'
<1>1. /\ rows' = rows /\ skipped' = skipped + 1 /\ skipped \in Nat /\ NextPoint
      /\ rows \in Seq(Rows)
  BY DEF SkipPoint, PyInv, TypeOK
<1>2. Passed' = Passed + 1
  BY <1>1 DEF Passed
<1>3. PointAtHand' /\ PassedSoFar' /\ pc' \in {"config", "disable"}
  BY <1>1, <1>2, NextPointPasses DEF PyInv
<1>4. Failed'
  <2>1. CountFailureIf(TRUE) /\ failures \in 0 .. MaxLoss + 1
    BY DEF SkipPoint, PyInv, TypeOK
  <2> QED
    BY <2>1, CountType DEF Failed
<1>5. RowsPlaced'
  BY <1>1, <1>4 DEF RowsPlaced
<1>6. CapsRead' /\ Ended'
  BY <1>3, <1>4 DEF PyInv, CapsRead, Ended, InLane, VoltageInside
<1> QED
  BY <1>3, <1>5, <1>6 DEF PyInv

LEMMA PrintPasses ==
    ASSUME PyInv, pc \in InLane, NEW e \in Nat, PrintRow(e),
           UNCHANGED <<opt, limits, caps, trailer>>, TypeOK'
    PROVE  PyInv'
<1> DEFINE row == [lane |-> cur.l, timing |-> cur.t, volt |-> cur.v, error_cnt |-> e]
<1>1. /\ rows' = Append(rows, row) /\ skipped' = skipped /\ failures' = failures /\ NextPoint
      /\ skipped \in Nat /\ rows \in Seq(Rows)
  BY DEF PrintRow, PyInv, TypeOK
<1>2. row.lane = cur.l /\ row.timing = cur.t /\ row.volt = cur.v
  OBVIOUS
<1> HIDE DEF row
<1>3. Len(rows') = Len(rows) + 1 /\ rows'[Len(rows) + 1] = row
      /\ \A i \in 1 .. Len(rows) : rows'[i] = rows[i]
  BY <1>1
<1>4. Passed' = Passed + 1
  BY <1>1, <1>3 DEF Passed
<1>5. PointAtHand' /\ PassedSoFar' /\ pc' \in {"config", "disable"}
  BY <1>1, <1>4, NextPointPasses DEF PyInv
<1>6. area' = area /\ (Failed' <=> Failed) /\ (VoltageInside' <=> VoltageInside)
  BY <1>1 DEF area, Area, StartLane, LaneCount, Failed, VoltageInside
<1>7. RowsPlaced'
  <2>1. ASSUME skipped = 0, NEW i \in 1 .. Len(rows')
        PROVE  GridIndex(area, rows'[i].lane, rows'[i].timing, rows'[i].volt) = i - 1
    <3>1. Len(rows) = GridIndex(area, cur.l, cur.t, cur.v)
      BY <1>1, <2>1 DEF PyInv, PassedSoFar, Passed, At
    <3>2. CASE i = Len(rows) + 1
      BY <1>1, <1>2, <1>3, <3>1, <3>2
    <3>3. CASE i \in 1 .. Len(rows)
      BY <1>3, <2>1, <3>3 DEF PyInv, RowsPlaced
    <3>4. i = Len(rows) + 1 \/ i \in 1 .. Len(rows)
      BY <1>1, <1>3
    <3> QED
      BY <3>2, <3>3, <3>4
  <2> QED
    BY <1>1, <1>6, <2>1 DEF PyInv, RowsPlaced
<1>8. CapsRead' /\ Ended'
  BY <1>5, <1>6 DEF PyInv, CapsRead, Ended, InLane
<1> QED
  BY <1>5, <1>7, <1>8 DEF PyInv

\* The steps that stay at a point change nothing the invariant speaks of.
LEMMA StayPasses ==
    ASSUME PyInv, [Next]_vars, TypeOK',
           UNCHANGED <<opt, limits, caps, cur, rows, skipped, trailer>>,
           \/ pc \in InLane \cup {"enable"} /\ pc' \in InLane
           \/ pc \in InLane \cup {"enable"} /\ pc' = "died" /\ Failed'
           \/ UNCHANGED pc
    PROVE  PyInv'
<1>1. area' = area /\ (VoltageInside' <=> VoltageInside) /\ (Failed => Failed')
  BY AreaFixed, FailuresKept DEF PyInv
<1>2. Passed' = Passed /\ At' = At
  BY <1>1 DEF Passed, At
<1>3. PointAtHand'
  BY <1>1 DEF PyInv, PointAtHand, InLane
<1>4. PassedSoFar'
  BY <1>1, <1>2 DEF PyInv, PassedSoFar, InLane
<1>5. RowsPlaced'
  BY <1>1 DEF PyInv, RowsPlaced
<1>6. CapsRead' /\ Ended'
  BY <1>1 DEF PyInv, CapsRead, Ended, InLane
<1> QED
  BY <1>3, <1>4, <1>5, <1>6 DEF PyInv

LEMMA PyStep == PyInv /\ [Next]_vars => PyInv'
<1> SUFFICES ASSUME PyInv, [Next]_vars PROVE PyInv'
  OBVIOUS
<1> USE DEF Goto
<1>0. /\ TypeOK /\ TypeOK' /\ failures \in 0 .. MaxLoss + 1
      /\ UNCHANGED <<opt, limits>> /\ area' = area /\ (VoltageInside' <=> VoltageInside)
      /\ Failed => Failed'
      /\ Die => pc' = "died" /\ Failed'
  <2>1. TypeOK /\ TypeOK'
    BY TypeStep DEF PyInv
  <2>2. ASSUME Die PROVE Failed'
    <3>1. CountFailureIf(TRUE) /\ failures \in 0 .. MaxLoss + 1
      BY <2>1, <2>2 DEF Die, TypeOK
    <3> QED
      BY <3>1, CountType DEF Failed
  <2> QED
    BY <2>1, <2>2, AreaFixed, FailuresKept DEF TypeOK, Die
\* Before the first lane is enabled.
<1>1. CASE GetDeviceInfo
  <2>1. /\ pc = "device_info" /\ pc' \in {"caps", "died"}
        /\ pc' = "died" => Failed' \/ TranslatesDevice
        /\ UNCHANGED <<caps, cur, rows, skipped, trailer>>
    BY <1>0, <1>1 DEF GetDeviceInfo
  <2>2. PointAtHand' /\ PassedSoFar' /\ RowsPlaced'
    BY <1>0, <2>1 DEF PyInv, PointAtHand, PassedSoFar, RowsPlaced, Passed, InLane
  <2>3. CapsRead' /\ Ended'
    BY <1>0, <2>1 DEF PyInv, CapsRead, Ended, InLane
  <2> QED
    BY <1>0, <2>2, <2>3 DEF PyInv
<1>2. CASE GetEomCaps
  <2>1. /\ pc = "caps" /\ pc' \in {"voltage", "died"} /\ UNCHANGED <<cur, rows, skipped, trailer>>
        /\ pc' = "died" => Failed' /\ caps' = caps
    BY <1>0, <1>2 DEF GetEomCaps
  <2>2. ASSUME pc' # "died"
        PROVE  /\ caps'.timing \in {None, Some(limits.timing)}
               /\ caps'.voltage \in {None, Some(limits.voltage)}
               /\ None \in {caps'.timing, caps'.voltage} => Failed'
    <3>1. PICK t \in Outcomes(StartLane(opt), limits.timing),
               v \in Outcomes(StartLane(opt), limits.voltage) :
            caps' = [timing |-> t, voltage |-> v] /\ CountFailureIf(None \in {t, v})
      BY <1>0, <1>2, <2>2 DEF GetEomCaps
    <3>2. None \in {t, v} => Failed'
      BY <1>0, <3>1, CountType DEF Failed
    <3>3. t \in {None, Some(limits.timing)} /\ v \in {None, Some(limits.voltage)}
      BY OutcomeValue
    <3> QED
      BY <3>1, <3>2, <3>3
  <2>3. PointAtHand' /\ PassedSoFar' /\ RowsPlaced'
    BY <1>0, <2>1 DEF PyInv, PointAtHand, PassedSoFar, RowsPlaced, Passed, InLane
  <2>4. CapsRead' /\ Ended'
    BY <1>0, <2>1, <2>2 DEF PyInv, CapsRead, Ended, InLane
  <2> QED
    BY <1>0, <2>3, <2>4 DEF PyInv
<1>3. CASE DetermineVoltage
  <2>1. /\ pc = "voltage" /\ pc' \in {"enable", "died", "exited"}
        /\ UNCHANGED <<caps, rows, skipped, failures, trailer>>
        /\ cur' = [l |-> area.lane, t |-> area.timing_left, v |-> area.voltage_low]
        /\ pc' = "died" => opt.voltage # None /\ caps.voltage = None
        /\ pc' = "exited" => /\ opt.voltage # None /\ caps.voltage # None
                             /\ ~Within(The(opt.voltage), The(caps.voltage))
        /\ pc' = "enable" => opt.voltage = None
                             \/ (/\ opt.voltage # None /\ caps.voltage # None
                                 /\ Within(The(opt.voltage), The(caps.voltage)))
    BY <1>3 DEF DetermineVoltage, history
  <2>2. caps.voltage # None => The(caps.voltage) = limits.voltage
    BY TheSome DEF PyInv, CapsRead
  <2>3. /\ pc' = "died" => Failed'
        /\ pc' = "exited" => ~VoltageInside
        /\ pc' = "enable" => VoltageInside
    BY <1>0, <2>1, <2>2 DEF PyInv, CapsRead, VoltageInside
  <2>4. /\ cur'.l = area.lane /\ cur'.t = area.timing_left /\ cur'.v = area.voltage_low
    BY <2>1
  <2>5. InGrid(area, cur'.l, cur'.t, cur'.v) /\ GridIndex(area, cur'.l, cur'.t, cur'.v) = 0
    <3> DEFINE a == area
    <3>1. IsScan(a)
      BY <1>0, AreaIsScan DEF TypeOK
    <3> HIDE DEF a
    <3>2. InGrid(a, a.lane, a.timing_left, a.voltage_low)
      BY <3>1 DEF IsScan, InGrid
    <3>3. GridIndex(a, a.lane, a.timing_left, a.voltage_low) = 0
      <4>1. GridIndex(a, a.lane, a.timing_left, a.voltage_low)
              = (a.lane - a.lane) * (Timings(a) * Volts(a))
        BY <3>1, GridLaneStart DEF IsScan
      <4>2. a.lane - a.lane = 0 /\ Timings(a) * Volts(a) \in Nat
        BY <3>1, GridSizes DEF IsScan
      <4>3. 0 * (Timings(a) * Volts(a)) = 0
        BY <4>2
      <4> QED
        BY <4>1, <4>2, <4>3
    <3> QED
      BY <2>4, <3>2, <3>3 DEF a
  <2>6. Passed' = 0
    BY <2>1 DEF PyInv, PassedSoFar, Passed
  <2>7. PointAtHand' /\ PassedSoFar'
    BY <1>0, <2>1, <2>4, <2>5, <2>6 DEF PointAtHand, PassedSoFar, At, InLane
  <2>8. RowsPlaced'
    BY <1>0, <2>1 DEF PyInv, RowsPlaced
  <2>9. CapsRead' /\ Ended'
    BY <1>0, <2>1, <2>3 DEF PyInv, CapsRead, Ended, InLane
  <2> QED
    BY <1>0, <2>7, <2>8, <2>9 DEF PyInv
\* A lane.
<1>4. CASE EnableLane
  <2>1. /\ pc = "enable" /\ UNCHANGED <<caps, cur, rows, skipped, trailer>>
        /\ pc' = IF LoopsRun THEN "config" ELSE "died"
    BY <1>4 DEF EnableLane
  <2>2. ~LoopsRun => Failed
    BY <2>1 DEF LoopsRun, PyInv, CapsRead
  <2> QED
    BY <1>0, <2>1, <2>2, StayPasses DEF InLane
<1>5. CASE ConfigWrite
  <2>1. /\ pc = "config" /\ UNCHANGED <<caps, cur, rows, skipped, trailer>>
        /\ pc' \in {"start", "config"}
    BY <1>5 DEF ConfigWrite
  <2> QED
    BY <1>0, <2>1, StayPasses DEF InLane
<1>6. CASE GetStart
  <2>1. pc = "start" /\ UNCHANGED <<caps, trailer>>
    BY <1>6 DEF GetStart
  <2>2. \/ SkipPoint
        \/ pc' \in {"start", "tested"} /\ UNCHANGED <<cur, rows, skipped>>
        \/ pc' = "died" /\ Failed' /\ UNCHANGED <<cur, rows, skipped>>
    BY <1>0, <1>6 DEF GetStart, StayAt, DieAt
  <2>3. CASE SkipPoint
    BY <1>0, <2>1, <2>3, SkipPasses DEF InLane
  <2>4. CASE ~SkipPoint
    BY <1>0, <2>1, <2>2, <2>4, StayPasses DEF InLane
  <2> QED
    BY <2>3, <2>4
<1>7. CASE GetTested
  <2>1. /\ pc = "tested" /\ UNCHANGED <<caps, cur, rows, skipped, trailer>>
        /\ pc' = "errors" \/ (pc' = "died" /\ Failed')
    BY <1>0, <1>7 DEF GetTested
  <2> QED
    BY <1>0, <2>1, StayPasses DEF InLane
<1>8. CASE GetErrors
  <2>1. pc = "errors" /\ UNCHANGED <<caps, trailer>>
    BY <1>8 DEF GetErrors
  <2>2. PICK e : \/ e \in Outcomes(cur.l, mon[Mon].errors)
                    /\ IF None \in {tested, e} THEN SkipPoint
                       ELSE IF EomStopped(The(tested), The(e)) THEN PrintRow(The(e))
                       ELSE StayAt("start")
                 \/ DieAt
    BY <1>8 DEF GetErrors
  <2>3. CASE SkipPoint
    BY <1>0, <2>1, <2>3, SkipPasses DEF InLane
  <2>4. CASE e \in Outcomes(cur.l, mon[Mon].errors) /\ e # None /\ PrintRow(The(e))
    <3>1. The(e) \in Nat
      BY <1>0, <2>4, OutcomeValue, MonitorAt DEF MonitorStates
    <3> QED
      BY <1>0, <2>1, <2>4, <3>1, PrintPasses DEF InLane
  <2>5. CASE StayAt("start") \/ DieAt
    BY <1>0, <2>1, <2>5, StayPasses DEF StayAt, DieAt, InLane
  <2> QED
    BY <2>2, <2>3, <2>4, <2>5
<1>9. CASE DisableLane
  <2>1. pc = "disable" /\ UNCHANGED <<caps, rows, skipped, trailer>>
    BY <1>9 DEF DisableLane
  <2>2. PointAtHand' /\ PassedSoFar' /\ pc' \in {"enable", "finish"}
    BY <1>9, NextLanePasses DEF PyInv
  <2>3. RowsPlaced'
    BY <1>0, <2>1 DEF PyInv, RowsPlaced
  <2>4. CapsRead' /\ Ended'
    BY <1>0, <2>1, <2>2 DEF PyInv, CapsRead, Ended, InLane
  <2> QED
    BY <1>0, <2>2, <2>3, <2>4 DEF PyInv
<1>10. CASE Finish
  <2>1. /\ pc = "finish" /\ pc' = "done" /\ trailer' = TRUE
        /\ UNCHANGED <<caps, cur, rows, skipped, failures>>
    BY <1>10 DEF Finish, history
  <2>2. PointAtHand' /\ PassedSoFar' /\ RowsPlaced'
    BY <1>0, <2>1 DEF PyInv, PointAtHand, PassedSoFar, RowsPlaced, Passed, InLane
  <2>3. CapsRead' /\ Ended'
    BY <1>0, <2>1 DEF PyInv, CapsRead, Ended, InLane
  <2> QED
    BY <1>0, <2>2, <2>3 DEF PyInv
<1>11. CASE Hardware \/ Terminated \/ UNCHANGED vars
  <2>1. UNCHANGED <<pc, caps, cur, rows, skipped, trailer>>
    BY <1>11 DEF Hardware, Terminated, vars, scriptVars, history
  <2> QED
    BY <1>0, <2>1, StayPasses
<1> QED
  BY <1>1, <1>2, <1>3, <1>4, <1>5, <1>6, <1>7, <1>8, <1>9, <1>10, <1>11
     DEF Next, Script

LEMMA PyInvariance == Spec => []PyInv
<1>1. PyInv /\ [Next]_vars => PyInv'
  BY PyStep
<1> QED
  BY PyInit, <1>1, PTL DEF Spec

\* On a device whose descriptor lsufs prints as the script expects, a run of
\* which no call failed, and whose voltage is inside the limits, ends with a
\* report of every point of the area, in order.
THEOREM ReportCompleteUnlessFailed ==
    ~TranslatesDevice => (Spec => []CompleteUnlessFailed)
<1> SUFFICES ASSUME ~TranslatesDevice PROVE Spec => []CompleteUnlessFailed
  OBVIOUS
<1>1. PyInv => CompleteUnlessFailed
  <2> SUFFICES ASSUME PyInv, Over, ~Failed, VoltageInside
               PROVE  /\ trailer /\ skipped = 0
                      /\ Len(rows) = ResultCount(area)
                      /\ \A i \in 1 .. Len(rows) :
                           GridIndex(area, rows[i].lane, rows[i].timing, rows[i].volt) = i - 1
    BY DEF CompleteUnlessFailed
  <2>1. pc = "done" /\ trailer
    BY DEF Over, PyInv, Ended
  <2>2. skipped = 0
    BY DEF PyInv, TypeOK, RowsPlaced
  <2>3. Len(rows) = ResultCount(area)
    BY <2>1, <2>2 DEF PyInv, TypeOK, PassedSoFar, Passed
  <2> QED
    BY <2>1, <2>2, <2>3 DEF PyInv, RowsPlaced
<1> QED
  BY <1>1, PyInvariance, PTL

-----------------------------------------------------------------------------
(***************************************************************************)
(* Monitors.                                                               *)
(***************************************************************************)
Enabled(l) == mon[<<opt.side, l>>].enable

\* As MonitorsReleased, from the enabling of a lane and from the end of the last
\* one on.
ReleaseInv ==
    lost = "never" =>
        \A l \in Connected :
            (/\ area.lane <= l
             /\ \/ pc \in InLane \cup {"enable", "disable"} /\ l < cur.l
                \/ pc \in {"finish", "done"} /\ l < area.lane + area.num_lanes)
            => ~Enabled(l)

LEMMA LanesAreMonitors ==
    ASSUME TypeOK, NEW l \in Connected
    PROVE  <<opt.side, l>> \in Monitors /\ l \in Nat
BY OptionFacts, MonitorAssumption DEF TypeOK, Monitors, LaneNumbers

\* A write that was lost is not forgotten.
LEMMA LostKept ==
    ASSUME [Next]_vars, lost' = "never"
    PROVE  lost = "never"
<1>1. LeaveWrites => lost = "never"
  BY DEF LeaveWrites
<1>2. GetStart \/ GetErrors => lost = "never"
  BY <1>1 DEF GetStart, GetErrors, SkipPoint, PrintRow, StayAt, DieAt
<1>3. EnableLane \/ ConfigWrite \/ DisableLane => lost = "never"
  BY DEF EnableLane, ConfigWrite, DisableLane, Set
<1>4. GetDeviceInfo \/ GetEomCaps \/ DetermineVoltage \/ GetTested \/ Finish => lost = "never"
  BY DEF GetDeviceInfo, GetEomCaps, DetermineVoltage, GetTested, Finish, history
<1>5. Hardware \/ Terminated \/ UNCHANGED vars => lost = "never"
  BY DEF Hardware, Terminated, vars, history
<1> QED
  BY <1>2, <1>3, <1>4, <1>5 DEF Next, Script

\* Until the lane is disabled the lanes before it are left alone.
LEMMA ReleaseInLane ==
    ASSUME PyInv, ReleaseInv, [Next]_vars, cur'.l = cur.l,
           pc \in InLane \cup {"enable", "disable"}, pc' \notin {"finish", "done"},
           \A l \in Connected :
              l # cur.l => mon'[<<opt.side, l>>].enable = mon[<<opt.side, l>>].enable
    PROVE  ReleaseInv'
<1>1. UNCHANGED opt /\ area' = area /\ (lost' = "never" => lost = "never")
  BY AreaFixed, LostKept
<1>2. cur.l \in Nat
  BY DEF PyInv, TypeOK
<1>3. \A l \in Connected : l < cur.l => l # cur.l
  BY <1>2, MonitorAssumption DEF LaneNumbers
<1> QED
  BY <1>1, <1>3 DEF ReleaseInv, Enabled

\* A write touches the monitor of the lane at hand alone.
LEMMA WritesHere ==
    ASSUME TypeOK, NEW l \in Connected, l # cur.l,
           \/ mon' = mon
           \/ \E attr, x : WriteMon(attr, x)
    PROVE  mon'[<<opt.side, l>>] = mon[<<opt.side, l>>]
<1>1. <<opt.side, l>> \in Monitors /\ <<opt.side, l>> # Mon
  BY LanesAreMonitors DEF Mon
<1> QED
  BY <1>1 DEF WriteMon, TypeOK, MonitorTypeOK

LEMMA ReleaseDisable ==
    ASSUME PyInv, ReleaseInv, DisableLane
    PROVE  ReleaseInv'
<1> SUFFICES ASSUME lost' = "never", NEW l \in Connected, area'.lane <= l,
                    \/ pc' \in InLane \cup {"enable", "disable"} /\ l < cur'.l
                    \/ pc' \in {"finish", "done"} /\ l < area'.lane + area'.num_lanes
             PROVE  ~mon'[<<opt'.side, l>>].enable
  BY DEF ReleaseInv, Enabled
<1>1. /\ pc = "disable" /\ UNCHANGED <<opt, limits>> /\ area' = area
      /\ cur.l \in Nat /\ l \in Nat
      /\ area.lane \in Nat /\ area.num_lanes \in Nat
  BY AreaIsScan, LanesAreMonitors
     DEF DisableLane, area, Area, StartLane, LaneCount, PyInv, TypeOK, IsScan
<1>2. l <= cur.l
  <2>1. CASE cur.l + 1 < area.lane + area.num_lanes
    <3>1. cur'.l = cur.l + 1 /\ pc' = "enable"
      BY <2>1 DEF DisableLane, Goto
    <3> QED
      BY <1>1, <3>1
  <2>2. CASE ~(cur.l + 1 < area.lane + area.num_lanes)
    <3>1. pc' = "finish"
      BY <2>2 DEF DisableLane, Goto
    <3> QED
      BY <1>1, <2>2, <3>1 DEF InLane
  <2> QED
    BY <2>1, <2>2
<1>3. /\ Answers(cur.l) /\ lost = "never"
      /\ mon' = [mon EXCEPT ![<<opt.side, cur.l>>] = Written(@, "enable", 0)]
  BY DEF DisableLane, DisabledLane, Set
<1>4. <<opt.side, l>> \in Monitors /\ mon \in [Monitors -> MonitorStates]
  BY LanesAreMonitors DEF PyInv, TypeOK, MonitorTypeOK
<1>5. CASE l = cur.l
  <2>1. mon'[<<opt.side, l>>] = Written(mon[<<opt.side, l>>], "enable", 0)
    BY <1>3, <1>4, <1>5
  <2>2. ASSUME NEW s \in MonitorStates PROVE Written(s, "enable", 0).enable = FALSE
    <3>1. Written(s, "enable", 0) = [s EXCEPT !.enable = FALSE, !.armed = FALSE, !.start = FALSE]
      BY DEF Written
    <3>2. [s EXCEPT !.enable = FALSE, !.armed = FALSE, !.start = FALSE].enable = FALSE
      BY DEF MonitorStates
    <3> QED
      BY <3>1, <3>2
  <2> QED
    BY <1>1, <1>4, <2>1, <2>2
<1>6. CASE l # cur.l
  <2>1. l < cur.l /\ area.lane <= l
    BY <1>1, <1>2, <1>6
  <2>2. ~mon[<<opt.side, l>>].enable
    BY <1>1, <1>3, <2>1 DEF ReleaseInv, Enabled
  <2>3. mon'[<<opt.side, l>>] = mon[<<opt.side, l>>]
    BY <1>3, <1>4, <1>6
  <2> QED
    BY <1>1, <2>2, <2>3
<1> QED
  BY <1>5, <1>6

LEMMA ReleaseStep == PyInv /\ ReleaseInv /\ [Next]_vars => ReleaseInv'
<1> SUFFICES ASSUME PyInv, ReleaseInv, [Next]_vars PROVE ReleaseInv'
  OBVIOUS
<1> USE DEF Goto
<1>0. /\ TypeOK /\ UNCHANGED <<opt, limits>> /\ area' = area
      /\ lost' = "never" => lost = "never"
  BY AreaFixed, LostKept DEF PyInv
<1>1. CASE GetDeviceInfo \/ GetEomCaps
  <2>1. pc' \in {"caps", "voltage", "died"}
    BY <1>1 DEF GetDeviceInfo, GetEomCaps, Die
  <2> QED
    BY <2>1 DEF ReleaseInv, InLane
<1>2. CASE DetermineVoltage
  <2>1. pc' \in {"enable", "died", "exited"} /\ cur'.l = area.lane /\ area.lane \in Nat
    BY <1>0, <1>2, AreaIsScan DEF DetermineVoltage, TypeOK, IsScan
  <2>2. \A l \in Connected : l \in Nat
    BY <1>0, LanesAreMonitors
  <2>3. \A l \in Connected : ~(area.lane <= l /\ l < cur'.l)
    BY <2>1, <2>2
  <2> QED
    BY <1>0, <2>1, <2>3 DEF ReleaseInv
<1>3. CASE EnableLane
  <2>1. mon' = mon \/ \E attr, x : WriteMon(attr, x)
    BY <1>3 DEF EnableLane, Set
  <2>2. pc = "enable" /\ pc' \in {"config", "died"} /\ cur' = cur
    BY <1>3 DEF EnableLane
  <2> QED
    BY <1>0, <2>1, <2>2, WritesHere, ReleaseInLane
<1>4. CASE ConfigWrite
  <2>1. mon' = mon \/ \E attr, x : WriteMon(attr, x)
    BY <1>4 DEF ConfigWrite, Set, ConfigEffect
  <2>2. pc = "config" /\ pc' \in {"config", "start"} /\ cur' = cur
    BY <1>4 DEF ConfigWrite
  <2> QED
    BY <1>0, <2>1, <2>2, WritesHere, ReleaseInLane DEF InLane
<1>5. CASE GetStart \/ GetTested \/ GetErrors
  <2>1. /\ pc \in InLane /\ UNCHANGED mon
    BY <1>5 DEF GetStart, GetTested, GetErrors, InLane
  <2>2. NextPoint => cur'.l = cur.l /\ pc' \in {"config", "disable"}
    BY <1>0 DEF NextPoint, TypeOK
  <2>3. cur'.l = cur.l /\ pc' \notin {"finish", "done"}
    BY <1>5, <2>2
       DEF GetStart, GetTested, GetErrors, SkipPoint, PrintRow, StayAt, DieAt, Die
  <2> QED
    BY <2>1, <2>3, ReleaseInLane
<1>6. CASE DisableLane
  BY <1>6, ReleaseDisable
<1>7. CASE Finish
  <2>1. pc = "finish" /\ pc' = "done" /\ UNCHANGED <<mon, cur>>
    BY <1>7 DEF Finish
  <2> QED
    BY <1>0, <2>1 DEF ReleaseInv, Enabled, InLane
<1>8. CASE Hardware
  <2>1. UNCHANGED <<pc, cur>> /\ MonitorNext
    BY <1>8 DEF Hardware, scriptVars
  <2>2. \A m \in Monitors : mon'[m].enable = mon[m].enable
    BY <1>0, <2>1, HardwareKeepsRegisters DEF TypeOK, SameRegisters
  <2> QED
    BY <1>0, <2>1, <2>2, LanesAreMonitors DEF ReleaseInv, Enabled
<1>9. CASE Terminated \/ UNCHANGED vars
  <2>1. UNCHANGED <<pc, cur, mon>>
    BY <1>9 DEF Terminated, vars, scriptVars
  <2> QED
    BY <1>0, <2>1 DEF ReleaseInv, Enabled
<1> QED
  BY <1>1, <1>2, <1>3, <1>4, <1>5, <1>6, <1>7, <1>8, <1>9 DEF Next, Script

\* The lanes that eom_start has passed are disabled, unless a write was lost,
\* whatever was enabled before the run.
THEOREM LanesReleased == Spec => []MonitorsReleased
<1>1. Init => ReleaseInv
  BY DEF Init, ReleaseInv, InLane
<1>2. PyInv /\ ReleaseInv /\ [Next]_vars => ReleaseInv'
  BY ReleaseStep
<1>3. PyInv /\ ReleaseInv => MonitorsReleased
  BY DEF PyInv, Ended, ReleaseInv, MonitorsReleased, Enabled, InLane
<1> QED
  BY <1>1, <1>2, <1>3, PyInvariance, PTL DEF Spec

-----------------------------------------------------------------------------
(***************************************************************************)
(* The step simulation.                                                    *)
(***************************************************************************)
\* What the script writes adds no error to a monitor.
LEMMA ErrorsWritten ==
    ASSUME TypeOK, ErrorsBounded, Answers(cur.l), NEW attr, NEW x, WriteMon(attr, x),
           \/ attr = "enable" /\ x \in {0, 1}
           \/ attr \in {"timing", "voltage", "target"}
    PROVE  ErrorsBounded'
<1>1. Mon \in Monitors /\ mon \in [Monitors -> MonitorStates] /\ mon[Mon] \in MonitorStates
  BY MonitorAt DEF TypeOK, MonitorTypeOK
<1>2. ErrorThreshold \in Nat \ {0}
  BY MonitorAssumption
<1> DEFINE z == Written(mon[Mon], attr, x)
<1>3. z.errors \in {0, mon[Mon].errors} /\ (z.start => mon[Mon].start /\ mon[Mon].errors = z.errors)
  BY <1>1, WrittenErrors
<1>4. mon' = [mon EXCEPT ![Mon] = z]
  BY DEF WriteMon
<1> HIDE DEF z
<1> SUFFICES ASSUME NEW m \in Monitors
             PROVE  mon'[m].errors <= ErrorThreshold
                    /\ (mon'[m].start => mon'[m].errors < ErrorThreshold)
  BY DEF ErrorsBounded
<1>5. CASE m = Mon
  <2>1. mon'[m] = z
    BY <1>1, <1>4, <1>5
  <2>2. mon[Mon].errors <= ErrorThreshold /\ (mon[Mon].start => mon[Mon].errors < ErrorThreshold)
    BY <1>1 DEF ErrorsBounded
  <2> QED
    BY <1>2, <1>3, <2>1, <2>2
<1>6. CASE m # Mon
  BY <1>1, <1>4, <1>6 DEF ErrorsBounded
<1> QED
  BY <1>5, <1>6

LEMMA ErrorsStep == TypeOK /\ ErrorsBounded /\ [Next]_vars => ErrorsBounded'
<1> SUFFICES ASSUME TypeOK, ErrorsBounded, [Next]_vars PROVE ErrorsBounded'
  OBVIOUS
<1>1. CASE UNCHANGED mon
  BY <1>1 DEF ErrorsBounded
<1>2. CASE EnableLane
  BY <1>1, <1>2, ErrorsWritten DEF EnableLane, Set
<1>3. CASE ConfigWrite
  <2>1. ASSUME NEW attr, Answers(ConfigLane(attr)), ConfigEffect(attr), mon' # mon
        PROVE  ErrorsBounded'
    <3>1. attr \in {"enable", "timing", "voltage", "target"} /\ WriteMon(attr, ConfigValue(attr))
      BY <2>1 DEF ConfigEffect
    <3>2. ConfigValue("enable") = 1 /\ Answers(cur.l)
      BY <2>1, <3>1 DEF ConfigValue, ConfigLane
    <3> QED
      BY <3>1, <3>2, ErrorsWritten
  <2> QED
    BY <1>1, <1>3, <2>1 DEF ConfigWrite, Set
<1>4. CASE DisableLane
  <2>1. mon' # mon => Answers(cur.l) /\ WriteMon("enable", 0)
    BY <1>4 DEF DisableLane, DisabledLane, Set, WriteMon, Mon
  <2> QED
    BY <1>1, <2>1, ErrorsWritten
<1>5. CASE Hardware
  BY <1>5, ErrorsHardware DEF Hardware, TypeOK
<1>6. GetDeviceInfo \/ GetEomCaps \/ DetermineVoltage \/ GetStart \/ GetTested \/ GetErrors
        \/ Finish \/ Terminated \/ UNCHANGED vars => UNCHANGED mon
  BY DEF GetDeviceInfo, GetEomCaps, DetermineVoltage, GetStart, GetTested, GetErrors, Finish,
     Terminated, vars
<1> QED
  BY <1>1, <1>2, <1>3, <1>4, <1>5, <1>6 DEF Next, Script

\* While the loops are at a point it is the next one of the grid.
LEMMA NextOfGrid ==
    ASSUME PyInv, pc \in InLane
    PROVE  /\ Passed \in Nat /\ Passed < Len(GridOf(area))
           /\ GridOf(area)[Passed + 1] = [lane |-> cur.l, timing |-> cur.t, volt |-> cur.v]
<1> DEFINE a == area
           g == GridIndex(a, cur.l, cur.t, cur.v)
<1>1. IsScan(a) /\ InGrid(a, cur.l, cur.t, cur.v) /\ Passed = g
      /\ cur.l \in Int /\ cur.t \in Int /\ cur.v \in Int
  BY AreaIsScan DEF PyInv, TypeOK, PointAtHand, PassedSoFar, At
<1> HIDE DEF a
<1>2. /\ g \in Nat /\ g < ResultCount(a)
      /\ GridOf(a)[g + 1] = [lane |-> cur.l, timing |-> cur.t, volt |-> cur.v]
  BY <1>1, GridBound, GridPoint
<1>3. Len(GridOf(a)) = ResultCount(a)
  BY <1>1, GridLength
<1> HIDE DEF g
<1> QED
  BY <1>1, <1>2, <1>3 DEF a

\* A point that is done with is passed, with the row of its count or without one.
LEMMA PassRefines ==
    ASSUME PyInv, pc \in InLane, NextPoint, UNCHANGED <<opt, limits, trailer>>,
           \/ rows' = rows /\ skipped' = skipped + 1
           \/ /\ skipped' = skipped
              /\ \E e \in 0 .. ErrorThreshold :
                    rows' = Append(rows, [lane |-> cur.l, timing |-> cur.t, volt |-> cur.v,
                                          error_cnt |-> e])
    PROVE  BestEffort!Pass
<1> DEFINE p == [lane |-> cur.l, timing |-> cur.t, volt |-> cur.v]
<1>1. Passed \in Nat /\ Passed < Len(GridOf(area)) /\ GridOf(area)[Passed + 1] = p
  BY NextOfGrid
<1>2. GridOf(area)' = GridOf(area)
  BY DEF area, Area, StartLane, LaneCount
<1>3. ScanOutcome = "none" /\ ScanOutcome' = "none"
  <2>1. ~trailer /\ ~trailer' /\ pc' \in {"config", "disable"}
    BY DEF PyInv, Ended, InLane, NextPoint, Goto
  <2> QED
    BY <2>1 DEF ScanOutcome, InLane
<1>4. rows \in Seq(Rows) /\ skipped \in Nat
  BY DEF PyInv, TypeOK
<1>5. Passed' = Passed + 1
  <2>1. ASSUME NEW r, rows' = Append(rows, r) PROVE Len(rows') = Len(rows) + 1
    BY <1>4, <2>1
  <2>2. CASE rows' = rows /\ skipped' = skipped + 1
    BY <1>4, <2>2 DEF Passed
  <2>3. CASE skipped' = skipped /\ Len(rows') = Len(rows) + 1
    BY <1>4, <2>3 DEF Passed
  <2> QED
    BY <2>1, <2>2, <2>3
<1>6. ASSUME NEW e
      PROVE  BestEffort!Row(p, e) = [lane |-> cur.l, timing |-> cur.t, volt |-> cur.v,
                                     error_cnt |-> e]
  BY DEF BestEffort!Row
<1> HIDE DEF p
<1>7. \/ \E e \in 0 .. ErrorThreshold :
            rows' = Append(rows, BestEffort!Row(GridOf(area)[Passed + 1], e))
      \/ UNCHANGED rows
  BY <1>1, <1>6
<1> QED
  BY <1>1, <1>2, <1>3, <1>5, <1>7 DEF BestEffort!Pass, Passed

LEMMA BestEffortStep ==
    PyInv /\ ErrorsBounded /\ [Next]_vars => [BestEffort!Next]_(BestEffort!vars)
<1> SUFFICES ASSUME PyInv, ErrorsBounded, [Next]_vars
             PROVE  BestEffort!Next \/ UNCHANGED BestEffort!vars
  BY Zenon
<1> USE DEF Goto
<1>0. UNCHANGED <<opt, limits>> /\ GridOf(area)' = GridOf(area)
  BY AreaFixed
<1>1. CASE UNCHANGED <<rows, skipped, trailer>> /\ (pc \in {"died", "exited"} <=> pc' \in {"died", "exited"})
  BY <1>0, <1>1 DEF BestEffort!vars, ScanOutcome
<1>2. CASE /\ UNCHANGED <<rows, skipped, trailer>>
           /\ ~Over /\ pc' \in {"died", "exited"}
  <2>1. ScanOutcome = "none" /\ ScanOutcome' = "abandoned"
    BY <1>2 DEF PyInv, Ended, Over, ScanOutcome
  <2> QED
    BY <1>0, <1>2, <2>1 DEF BestEffort!Next, BestEffort!Abandon
<1>3. CASE SkipPoint /\ pc \in InLane /\ UNCHANGED trailer
  BY <1>0, <1>3, PassRefines DEF SkipPoint, BestEffort!Next
<1>4. CASE GetErrors
  <2>1. PICK e : \/ e \in Outcomes(cur.l, mon[Mon].errors)
                    /\ IF None \in {tested, e} THEN SkipPoint
                       ELSE IF EomStopped(The(tested), The(e)) THEN PrintRow(The(e))
                       ELSE StayAt("start")
                 \/ DieAt
    BY <1>4 DEF GetErrors
  <2>2. pc = "errors" /\ UNCHANGED trailer
    BY <1>4 DEF GetErrors
  <2>3. CASE SkipPoint
    BY <1>3, <2>2, <2>3 DEF InLane
  <2>4. CASE e \in Outcomes(cur.l, mon[Mon].errors) /\ e # None /\ PrintRow(The(e))
    <3>1. Answers(cur.l) /\ The(e) = mon[Mon].errors
      BY <2>4, OutcomeValue
    <3>2. Mon \in Monitors /\ mon[Mon] \in MonitorStates
      BY <3>1, MonitorAt DEF PyInv
    <3>3. The(e) \in 0 .. ErrorThreshold
      BY <3>1, <3>2, MonitorAssumption DEF ErrorsBounded, MonitorStates
    <3> QED
      BY <1>0, <2>2, <2>4, <3>3, PassRefines DEF PrintRow, InLane, BestEffort!Next
  <2>5. CASE StayAt("start")
    BY <1>1, <2>2, <2>5 DEF StayAt
  <2>6. CASE DieAt
    BY <1>2, <2>2, <2>6 DEF DieAt, Die, Over
  <2> QED
    BY <2>1, <2>3, <2>4, <2>5, <2>6
<1>5. CASE GetStart
  <2>1. pc = "start" /\ UNCHANGED trailer
    BY <1>5 DEF GetStart
  <2>2. \/ SkipPoint
        \/ pc' \in {"start", "tested"} /\ UNCHANGED <<rows, skipped>>
        \/ pc' = "died" /\ UNCHANGED <<rows, skipped>>
    BY <1>5 DEF GetStart, StayAt, DieAt, Die
  <2> QED
    BY <1>1, <1>2, <1>3, <2>1, <2>2 DEF InLane, Over
<1>6. CASE Finish
  <2>1. ScanOutcome = "none" /\ ScanOutcome' = "finished" /\ UNCHANGED <<rows, skipped>>
    BY <1>6 DEF Finish, PyInv, Ended, ScanOutcome, history
  <2>2. Passed = Len(GridOf(area))
    <3>1. IsScan(area) /\ Passed = ResultCount(area)
      BY <1>6, AreaIsScan DEF Finish, PyInv, TypeOK, PassedSoFar
    <3> QED
      BY <3>1, GridLength
  <2> QED
    BY <1>0, <2>1, <2>2 DEF BestEffort!Next, BestEffort!Finish, Passed
<1>7. CASE Hardware \/ Terminated \/ UNCHANGED vars
  BY <1>1, <1>7 DEF Hardware, Terminated, vars, scriptVars, history
<1>8. CASE GetDeviceInfo \/ GetEomCaps \/ DetermineVoltage \/ EnableLane \/ ConfigWrite
             \/ GetTested \/ DisableLane
  <2>1. UNCHANGED <<rows, skipped, trailer>> /\ pc \notin {"done", "died", "exited"}
    BY <1>8 DEF GetDeviceInfo, GetEomCaps, DetermineVoltage, EnableLane, ConfigWrite,
       GetTested, DisableLane, history
  <2> QED
    BY <1>1, <1>2, <2>1 DEF Over
<1> QED
  BY <1>4, <1>5, <1>6, <1>7, <1>8 DEF Next, Script

\* ufs-eom.py implements the sweep that may leave points out: whatever the
\* options, the limits of the device and the calls that fail, it goes through
\* the points of its area in order, each once, writes down one it has a count of
\* or leaves it out, and says that it is finished only when it has been through
\* all of them.
THEOREM BestEffortImplemented == Spec => StepsRefineBestEffort
<1>1. Init => ErrorsBounded /\ BestEffort!Init
  BY ErrorsInit DEF Init, BestEffort!Init, ScanOutcome
<1>2. PyInv /\ ErrorsBounded /\ [Next]_vars => ErrorsBounded'
  BY ErrorsStep DEF PyInv
<1>3. PyInv /\ ErrorsBounded /\ [Next]_vars => [BestEffort!Next]_(BestEffort!vars)
  BY BestEffortStep
<1> QED
  BY <1>1, <1>2, <1>3, PyInvariance, PTL DEF Spec, StepsRefineBestEffort, BestEffort!Spec

-----------------------------------------------------------------------------
(***************************************************************************)
(* Rows.                                                                   *)
(***************************************************************************)
\* Six bits hold every step the monitors may have.
StepsFit == \A d \in Limits : d.timing <= 63 /\ d.voltage <= 63

Measuring == {"start", "tested", "errors"}
BetweenPoints == {"device_info", "caps", "voltage", "enable", "config", "disable"}

\* How many of the attributes of the point at hand have been written.
Configured == IF pc = "config" THEN cfg - 1 ELSE IF pc \in Measuring THEN 6 ELSE 0

\* No power mode change is left over from an earlier point.
Settled == adb.slow \/ ~Failed

\* Nor has a write of the point at hand been lost.
Sound == Settled /\ lost # "now"

\* The link is quiet until the script asks for a power mode change.
LinkQuiet ==
    /\ pc # "config" => cfg = 1
    /\ lost = "now" => Failed
    /\ Settled /\ pc \in BetweenPoints => link.pmc = "up"
    /\ adb.slow /\ pc \in {"tested", "errors"} => link.pmc = "up"

\* The registers of the lane at hand, as far as they have been written.
PointConfigured ==
    Sound =>
        /\ Configured > 0 => cur.l \in Connected /\ mon[Mon].enable
        /\ Configured > 1 => mon[Mon].timing = StepConfig(cur.t)
        /\ Configured > 2 => mon[Mon].volt = StepConfig(cur.v)
        /\ Configured > 3 => mon[Mon].target = opt.target
        /\ Configured > 4 => link.adapt_type = "NO_ADAPT"

\* What the monitor at hand has counted is of the point at hand, or nothing; and
\* what was read of it as the count of a whole measurement was one.
PointMeasured ==
    Sound =>
        /\ Configured \in 1 .. 5 => Unstarted(mon[Mon]) /\ ~mon[Mon].armed
        /\ pc \in Measuring /\ link.pmc = "busy" => Unstarted(mon[Mon]) /\ ~mon[Mon].armed
        /\ pc \in Measuring /\ link.pmc = "up" =>
             Measures(mon[Mon], cur) \/ (Unstarted(mon[Mon]) /\ mon[Mon].armed /\ link.no_adapt)
        /\ pc = "errors" /\ tested # None /\ The(tested) >= opt.target =>
             Measures(mon[Mon], cur) /\ mon[Mon].tested >= opt.target /\ link.pmc = "up"

RowsInv == LinkQuiet /\ PointConfigured /\ PointMeasured

LEMMA RowsInit == Init => RowsInv
<1> SUFFICES ASSUME Init PROVE RowsInv
  OBVIOUS
<1>1. pc = "device_info" /\ cfg = 1 /\ link.pmc = "up" /\ lost = "never"
  BY DEF Init, MonitorInit
<1> QED
  BY <1>1 DEF RowsInv, LinkQuiet, PointConfigured, PointMeasured, Configured, Measuring

\* What was left over is not settled by going on, nor a loss undone while the loops
\* are at a point.
LEMMA SoundBefore ==
    ASSUME PyInv, [Next]_vars
    PROVE  /\ UNCHANGED adb
           /\ Settled' => Settled
           /\ lost' = lost \/ lost' = "now" => (Sound' => Sound)
<1>1. Failed => Failed'
  BY FailuresKept DEF PyInv
<1>2. UNCHANGED adb
  BY DEF Next, Script, Hardware, Terminated, vars, scriptVars, history, GetDeviceInfo,
     GetEomCaps, DetermineVoltage, EnableLane, ConfigWrite, GetStart, GetTested, GetErrors,
     DisableLane, Finish
<1> QED
  BY <1>1, <1>2 DEF Settled, Sound

\* Outside the points nothing is asked of the monitors.
LEMMA RowsOutside ==
    ASSUME pc' \notin Measuring, pc' = "config" => cfg' = 1
    PROVE  PointConfigured' /\ PointMeasured'
<1>1. Configured' = 0
  BY DEF Configured, Measuring
<1> QED
  BY <1>1 DEF PointConfigured, PointMeasured, Measuring

LEMMA RowsHardware ==
    ASSUME PyInv, RowsInv, Hardware
    PROVE  RowsInv'
<1> DEFINE s == mon[Mon]
           z == mon'[Mon]
<1>1. /\ MonitorNext /\ MonitorTypeOK /\ opt \in PyOptions /\ cfg \in 1 .. 6
      /\ UNCHANGED <<pc, opt, adb, cur, cfg, tested, failures, lost>>
  BY DEF Hardware, scriptVars, history, PyInv, TypeOK
<1>0. opt.target \in Nat \ {0}
  <2>1. opt.target \in 1 .. 127
    BY OptionFacts DEF PyInv, TypeOK
  <2> QED
    BY <2>1
<1>2. /\ Configured' = Configured /\ Mon' = Mon
      /\ (Settled' <=> Settled) /\ (Sound' <=> Sound) /\ (Failed' <=> Failed)
  BY <1>1 DEF Configured, Mon, Settled, Sound, Failed
<1>3. /\ link'.adapt_type = link.adapt_type
      /\ link.pmc = "up" => link' = link /\ ~PmcDone
      /\ link.pmc \in {"up", "busy"}
      /\ link'.pmc = "busy" => ~PmcDone
  <2>1. PmcDone \/ link' = link
    BY <1>1 DEF MonitorNext, MonStart, Tick
  <2> QED
    BY <1>1, <2>1, PmcDoneLink DEF MonitorTypeOK, LinkStates
<1>4. LinkQuiet'
  BY <1>1, <1>2, <1>3 DEF RowsInv, LinkQuiet
<1>5. CASE ~Sound
  BY <1>2, <1>4, <1>5 DEF RowsInv, PointConfigured, PointMeasured
<1>6. CASE Sound
  <2>1. Configured \in 0 .. 6 /\ (pc \in Measuring => Configured = 6)
    BY <1>1 DEF Configured, Measuring
  <2>2. CASE Configured = 0
    <3>1. pc \notin Measuring
      BY <2>1, <2>2
    <3>2. Configured' = 0 /\ pc' \notin Measuring
      BY <1>1, <1>2, <2>2, <3>1 DEF Measuring
    <3>3. PointConfigured' /\ PointMeasured'
      BY <3>2 DEF PointConfigured, PointMeasured, Measuring
    <3> QED
      BY <1>4, <3>3 DEF RowsInv
  <2>3. CASE Configured > 0
    <3>1. Mon \in Monitors /\ cur.l \in Connected /\ s \in MonitorStates /\ s.enable
      BY <1>1, <1>6, <2>3, OptionFacts
         DEF RowsInv, PointConfigured, Mon, Monitors, MonitorTypeOK, PyInv, TypeOK
    <3>2. SameRegisters(s, z)
      BY <1>1, <3>1, HardwareKeepsRegisters
    <3>3. PointConfigured'
      BY <1>1, <1>2, <1>3, <1>6, <2>1, <3>1, <3>2 DEF RowsInv, PointConfigured, SameRegisters
    <3>4. ASSUME Configured \in 1 .. 5
          PROVE  Unstarted(z) /\ ~z.armed
      <4>1. Unstarted(s) /\ ~s.armed
        BY <1>6, <3>4 DEF RowsInv, PointMeasured
      <4>2. link.pmc = "up"
        BY <1>6, <3>4 DEF Configured, RowsInv, LinkQuiet, Sound, BetweenPoints
      <4> QED
        BY <1>1, <1>3, <3>1, <4>1, <4>2, UnstartedKept
    <3>5. ASSUME pc \in Measuring, link'.pmc = "busy"
          PROVE  Unstarted(z) /\ ~z.armed
      <4>1. ~PmcDone /\ link.pmc = "busy"
        BY <1>3, <3>5
      <4>2. Unstarted(s) /\ ~s.armed
        BY <1>6, <3>5, <4>1 DEF RowsInv, PointMeasured
      <4> QED
        BY <1>1, <3>1, <4>1, <4>2, UnstartedKept
    <3>6. ASSUME pc \in Measuring, link'.pmc = "up"
          PROVE  Measures(z, cur) \/ (Unstarted(z) /\ z.armed /\ link'.no_adapt)
      <4>1. /\ s.timing = StepConfig(cur.t) /\ s.volt = StepConfig(cur.v)
            /\ s.target = opt.target /\ link.adapt_type = "NO_ADAPT"
        BY <1>6, <2>1, <3>6 DEF RowsInv, PointConfigured
      <4>2. opt.target \in Nat \ {0}
        BY <1>0
      <4>3. link.pmc = "up" => AtWork(s, cur)
        BY <1>6, <3>6 DEF RowsInv, PointMeasured, AtWork
      <4>4. link.pmc = "busy" => StartWithPmc \/ Unstarted(s)
        BY <1>6, <3>6 DEF RowsInv, PointMeasured
      <4> QED
        BY <1>1, <3>1, <3>6, <4>1, <4>2, <4>3, <4>4, AtWorkKept
    <3>7. ASSUME pc = "errors", tested # None, The(tested) >= opt.target
          PROVE  Measures(z, cur) /\ z.tested >= opt.target /\ link'.pmc = "up"
      <4>1. Measures(s, cur) /\ s.tested >= opt.target /\ link.pmc = "up"
        BY <1>6, <3>7 DEF RowsInv, PointMeasured
      <4>2. s.target = opt.target /\ opt.target \in Int
        BY <1>0, <1>6, <2>1, <3>7 DEF RowsInv, PointConfigured, Measuring
      <4>3. ~s.start
        BY <3>1, <4>1, <4>2 DEF Measures, MonitorStates
      <4> QED
        BY <1>1, <1>3, <3>1, <4>1, <4>3, MeasuresKept
    <3>8. PointMeasured'
      <4>1. mon[Mon]' = z
        BY <1>2
      <4>2. Measures(mon[Mon], cur)' <=> Measures(z, cur)
        BY <1>1, <1>2 DEF Measures
      <4> HIDE DEF s, z
      <4> QED
        BY <1>1, <1>2, <3>4, <3>5, <3>6, <3>7, <4>1, <4>2 DEF PointMeasured
    <3> QED
      BY <1>4, <3>3, <3>8 DEF RowsInv
  <2> QED
    BY <2>1, <2>2, <2>3
<1> QED
  BY <1>5, <1>6

\* One more attribute of the point is written.
LEMMA RowsConfigured ==
    ASSUME ClearOnEnable, PyInv, RowsInv, Sound, pc = "config", cfg < 6,
           Answers(ConfigLane(ConfigOrder[cfg])), ConfigEffect(ConfigOrder[cfg]),
           pc' = "config", cfg' = cfg + 1, UNCHANGED <<opt, cur>>
    PROVE  PointConfigured' /\ PointMeasured'
<1> DEFINE s == mon[Mon]
           z == mon'[Mon]
           attr == ConfigOrder[cfg]
<1>1. /\ cfg \in 1 .. 6 /\ mon \in [Monitors -> MonitorStates] /\ link \in LinkStates
      /\ opt.side \in Sides
  BY OptionFacts DEF PyInv, TypeOK, MonitorTypeOK
<1>2. /\ Configured = cfg - 1 /\ Configured' = cfg /\ Mon' = Mon /\ pc' \notin Measuring
  BY <1>1 DEF Configured, Mon, Measuring
<1>3. cur.l \in Connected /\ Mon \in Monitors /\ s \in MonitorStates
  <2>1. CASE cfg = 1
    <3>1. ConfigLane(ConfigOrder[cfg]) = cur.l
      BY <2>1 DEF ConfigOrder, ConfigLane
    <3> QED
      BY <1>1, <3>1 DEF Answers, Mon, Monitors
  <2>2. CASE cfg > 1
    BY <1>1, <1>2, <2>2 DEF RowsInv, PointConfigured, Mon, Monitors
  <2> QED
    BY <1>1, <2>1, <2>2
<1>4. ASSUME NEW a \in {"enable", "timing", "voltage", "target"}, attr = a
      PROVE  z = Written(s, a, ConfigValue(a)) /\ link' = link
  BY <1>1, <1>3, <1>4 DEF ConfigEffect, WriteMon
<1>5. /\ ConfigValue("enable") = 1
      /\ ConfigValue("timing") = StepConfig(cur.t)
      /\ ConfigValue("voltage") = StepConfig(cur.v)
      /\ ConfigValue("target") = opt.target
  BY DEF ConfigValue
<1>6. cfg > 1 => Unstarted(s) /\ ~s.armed
  BY <1>1, <1>2 DEF RowsInv, PointMeasured
<1>7. /\ cfg > 1 => s.enable
      /\ cfg > 2 => s.timing = StepConfig(cur.t)
      /\ cfg > 3 => s.volt = StepConfig(cur.v)
      /\ cfg > 4 => s.target = opt.target
  BY <1>1, <1>2 DEF RowsInv, PointConfigured
<1>8. SUFFICES /\ z.enable
               /\ cfg > 1 => z.timing = StepConfig(cur.t)
               /\ cfg > 2 => z.volt = StepConfig(cur.v)
               /\ cfg > 3 => z.target = opt.target
               /\ cfg > 4 => link'.adapt_type = "NO_ADAPT"
               /\ Unstarted(z) /\ ~z.armed
  <2>1. PointConfigured'
    BY <1>1, <1>2, <1>3, <1>8 DEF PointConfigured
  <2>2. mon[Mon]' = z
    BY <1>2
  <2> HIDE DEF z
  <2>3. PointMeasured'
    BY <1>2, <1>8, <2>2 DEF PointMeasured, Measuring
  <2> QED
    BY <2>1, <2>3
<1>9. CASE cfg = 1
  <2>1. attr = "enable"
    BY <1>9 DEF ConfigOrder
  <2> HIDE DEF attr, s, z
  <2> QED
    BY <1>3, <1>4, <1>5, <1>9, <2>1, WrittenFields
<1>10. CASE cfg = 2
  <2>1. attr = "timing"
    BY <1>10 DEF ConfigOrder
  <2> HIDE DEF attr, s, z
  <2> QED
    BY <1>3, <1>4, <1>5, <1>6, <1>7, <1>10, <2>1, WrittenFields
<1>11. CASE cfg = 3
  <2>1. attr = "voltage"
    BY <1>11 DEF ConfigOrder
  <2> HIDE DEF attr, s, z
  <2> QED
    BY <1>3, <1>4, <1>5, <1>6, <1>7, <1>11, <2>1, WrittenFields
<1>12. CASE cfg = 4
  <2>1. attr = "target"
    BY <1>12 DEF ConfigOrder
  <2> HIDE DEF attr, s, z
  <2> QED
    BY <1>3, <1>4, <1>5, <1>6, <1>7, <1>12, <2>1, WrittenFields
<1>13. CASE cfg = 5
  <2>1. attr = "adapt_type"
    BY <1>13 DEF ConfigOrder
  <2>2. z = s /\ link'.adapt_type = "NO_ADAPT"
    BY <1>1, <2>1 DEF ConfigEffect, LinkStates
  <2> HIDE DEF attr, s, z
  <2> QED
    BY <1>6, <1>7, <1>13, <2>2
<1> QED
  BY <1>1, <1>9, <1>10, <1>11, <1>12, <1>13

LEMMA RowsConfig ==
    ASSUME ClearOnEnable, PyInv, RowsInv, [Next]_vars, ConfigWrite
    PROVE  RowsInv'
<1> USE DEF Goto
<1> DEFINE attr == ConfigOrder[cfg]
<1>1. /\ pc = "config" /\ UNCHANGED <<opt, adb, cur>> /\ cfg \in 1 .. 6 /\ Len(ConfigOrder) = 6
      /\ cfg' = IF cfg = 6 THEN 1 ELSE cfg + 1
      /\ pc' = IF cfg = 6 THEN "start" ELSE "config"
      /\ link \in LinkStates /\ failures \in 0 .. MaxLoss + 1
  BY DEF ConfigWrite, PyInv, TypeOK, MonitorTypeOK, ConfigOrder
<1>2. CASE UNCHANGED <<mon, link>> /\ CountFailureIf(TRUE) /\ lost' = "now"
  <2>1. Failed'
    BY <1>1, <1>2, CountType DEF Failed
  <2>2. Settled' => Settled
    BY <1>2, SoundBefore
  <2>3. LinkQuiet'
    BY <1>1, <1>2, <2>1, <2>2 DEF RowsInv, LinkQuiet, BetweenPoints
  <2>4. ~Sound'
    BY <1>2 DEF Sound
  <2> QED
    BY <2>3, <2>4 DEF RowsInv, PointConfigured, PointMeasured
<1>3. CASE Answers(ConfigLane(attr)) /\ ConfigEffect(attr) /\ UNCHANGED <<failures, lost>>
  <2>1. (Settled' => Settled) /\ (Sound' => Sound)
    BY <1>3, SoundBefore
  <2>2. CASE cfg < 6
    <3>1. Settled => link'.pmc = "up"
      <4>1. attr # "pwrmode"
        BY <1>1, <2>2 DEF ConfigOrder
      <4>2. Settled => link.pmc = "up"
        BY <1>1 DEF RowsInv, LinkQuiet, BetweenPoints
      <4> QED
        BY <1>1, <1>3, <4>1, <4>2 DEF ConfigEffect, WriteMon, LinkStates
    <3>2. LinkQuiet'
      BY <1>1, <1>3, <2>1, <2>2, <3>1 DEF RowsInv, LinkQuiet, Failed
    <3>3. CASE Sound
      BY <1>1, <1>3, <2>2, <3>2, <3>3, RowsConfigured DEF RowsInv
    <3>4. CASE ~Sound
      BY <2>1, <3>2, <3>4 DEF RowsInv, PointConfigured, PointMeasured
    <3> QED
      BY <3>3, <3>4
  <2>3. CASE cfg = 6
    <3>1. attr = "pwrmode"
      BY <2>3 DEF ConfigOrder
    <3>2. link'.pmc = "busy" /\ link'.adapt_type = link.adapt_type /\ UNCHANGED mon
      BY <1>1, <1>3, <3>1 DEF ConfigEffect, LinkStates
    <3>3. /\ pc' = "start" /\ cfg' = 1 /\ Configured = 5 /\ Configured' = 6 /\ Mon' = Mon
      BY <1>1, <2>3 DEF Configured, Measuring, Mon
    <3>4. LinkQuiet'
      BY <1>1, <1>3, <3>3 DEF RowsInv, LinkQuiet, BetweenPoints, Failed
    <3>5. PointConfigured'
      BY <1>1, <2>1, <3>2, <3>3 DEF RowsInv, PointConfigured
    <3>6. Sound => Unstarted(mon[Mon]) /\ ~mon[Mon].armed
      BY <3>3 DEF RowsInv, PointMeasured
    <3>7. mon[Mon]' = mon[Mon]
      BY <3>2, <3>3
    <3>8. PointMeasured'
      BY <2>1, <3>2, <3>3, <3>6, <3>7 DEF PointMeasured
    <3> QED
      BY <3>4, <3>5, <3>8 DEF RowsInv
  <2> QED
    BY <1>1, <2>2, <2>3
<1> QED
  BY <1>1, <1>2, <1>3 DEF ConfigWrite, Set

\* When the counts tell the script to stop, the monitor has stopped, and what it
\* has counted is of the point at hand.
LEMMA StoppedOfPoint ==
    ASSUME PyInv, ErrorsBounded, RowsInv, Sound, pc = "errors", Answers(cur.l),
           tested # None, EomStopped(The(tested), mon[Mon].errors)
    PROVE  LET s == mon[Mon]
           IN  /\ link.pmc = "up" /\ Measures(s, cur) /\ ~s.start
               /\ s.tested >= opt.target \/ s.errors >= ErrorThreshold
<1> DEFINE s == mon[Mon]
<1>0. Mon \in Monitors /\ s \in MonitorStates /\ link \in LinkStates
  BY MonitorAt DEF PyInv, TypeOK, MonitorTypeOK
<1>1. pc \in Measuring /\ s.target = opt.target
  <2>1. pc \in Measuring /\ Configured = 6
    BY DEF Measuring, Configured
  <2> QED
    BY <2>1 DEF RowsInv, PointConfigured
<1>2. opt.target \in Int
  <2>1. opt.target \in 1 .. 127
    BY OptionFacts DEF PyInv, TypeOK
  <2> QED
    BY <2>1
<1>3. CASE The(tested) >= opt.target
  <2>1. Measures(s, cur) /\ s.tested >= opt.target /\ link.pmc = "up"
    BY <1>3 DEF RowsInv, PointMeasured
  <2>2. ~s.start
    BY <1>0, <1>1, <1>2, <2>1 DEF Measures, MonitorStates
  <2> QED
    BY <2>1, <2>2
<1>4. CASE ~(The(tested) >= opt.target)
  <2>1. s.errors >= ErrorThreshold
    BY <1>4 DEF EomStopped
  <2>2. ErrorThreshold \in Nat \ {0} /\ s.errors \in Nat
    BY <1>0, MonitorAssumption DEF MonitorStates
  <2>3. ~s.start
    BY <1>0, <2>1, <2>2 DEF ErrorsBounded
  <2>4. ~Unstarted(s)
    BY <2>1, <2>2 DEF Unstarted
  <2>5. link.pmc = "up" /\ Measures(s, cur)
    BY <1>0, <1>1, <2>4 DEF RowsInv, PointMeasured, LinkStates
  <2> QED
    BY <2>1, <2>3, <2>5
<1> QED
  BY <1>3, <1>4

\* The steps that write no attribute of a point leave the link alone.
LEMMA QuietKept ==
    ASSUME PyInv, RowsInv, [Next]_vars, pc # "config", UNCHANGED <<cfg, link>>,
           lost' = "now" => lost = "now",
           pc' \in BetweenPoints => pc \in BetweenPoints \/ (Settled' => link.pmc = "up"),
           adb.slow /\ pc' \in {"tested", "errors"} => link.pmc = "up"
    PROVE  LinkQuiet'
<1>1. UNCHANGED adb /\ (Settled' => Settled) /\ (Failed => Failed')
  BY SoundBefore, FailuresKept DEF PyInv
<1> QED
  BY <1>1 DEF RowsInv, LinkQuiet

\* The steps that ask the monitor once more.
LEMMA RowsOn ==
    ASSUME PyInv, RowsInv, [Next]_vars, pc \in Measuring, pc' \in Measuring,
           UNCHANGED <<opt, cur, cfg, mon, link, lost>>,
           adb.slow /\ pc' \in {"tested", "errors"} => link.pmc = "up",
           Sound /\ pc' = "errors" /\ tested' # None /\ The(tested') >= opt.target =>
             Measures(mon[Mon], cur) /\ mon[Mon].tested >= opt.target /\ link.pmc = "up"
    PROVE  RowsInv'
<1>1. Configured = 6 /\ Configured' = 6 /\ Mon' = Mon /\ pc # "config"
  BY DEF Configured, Measuring, Mon
<1>2. pc' \notin BetweenPoints
  BY DEF Measuring, BetweenPoints
<1>3. LinkQuiet'
  BY <1>1, <1>2, QuietKept
<1>4. Sound' => Sound
  BY SoundBefore
<1>5. PointConfigured'
  BY <1>1, <1>4 DEF RowsInv, PointConfigured
<1>6. mon[Mon]' = mon[Mon] /\ (Measures(mon[Mon], cur)' <=> Measures(mon[Mon], cur))
  BY <1>1 DEF Measures
<1>7. PointMeasured'
  BY <1>1, <1>4, <1>6 DEF RowsInv, PointMeasured
<1> QED
  BY <1>3, <1>5, <1>7 DEF RowsInv

\* A point is done with: the next one is set up when the link has settled.
LEMMA RowsLeft ==
    ASSUME PyInv, RowsInv, [Next]_vars, pc \in Measuring, NextPoint, LeaveWrites,
           UNCHANGED <<cfg, link>>, Settled' => link.pmc = "up"
    PROVE  RowsInv'
<1>1. pc' \in {"config", "disable"} /\ cfg = 1 /\ pc # "config"
  BY DEF NextPoint, Goto, RowsInv, LinkQuiet, Measuring
<1>2. lost' # "now"
  BY DEF LeaveWrites
<1>3. LinkQuiet'
  BY <1>1, <1>2, QuietKept
<1>4. PointConfigured' /\ PointMeasured'
  BY <1>1, RowsOutside DEF Measuring
<1> QED
  BY <1>3, <1>4 DEF RowsInv

\* A point that is left out after a call that failed.
LEMMA RowsSkipped ==
    ASSUME PyInv, RowsInv, [Next]_vars, pc \in Measuring, SkipPoint, UNCHANGED <<cfg, link>>,
           adb.slow => link.pmc = "up"
    PROVE  RowsInv'
<1>1. Failed' /\ UNCHANGED adb
  <2>1. CountFailureIf(TRUE) /\ failures \in 0 .. MaxLoss + 1
    BY DEF SkipPoint, PyInv, TypeOK
  <2> QED
    BY <2>1, CountType, SoundBefore DEF Failed
<1> QED
  BY <1>1, RowsLeft DEF SkipPoint, Settled

\* Reading start, tested and errors.
LEMMA RowsStart ==
    ASSUME PyInv, RowsInv, [Next]_vars, GetStart
    PROVE  RowsInv'
<1>1. /\ pc = "start" /\ pc \in Measuring /\ pc # "config" /\ (adb.slow => link.pmc = "up")
      /\ UNCHANGED <<opt, cfg, mon, link>>
  BY DEF GetStart, Measuring
<1>2. \/ SkipPoint
      \/ pc' \in {"start", "tested"} /\ UNCHANGED <<cur, lost>>
      \/ pc' = "died" /\ UNCHANGED lost
  BY DEF GetStart, StayAt, DieAt, Die, Goto
<1>3. CASE SkipPoint
  BY <1>1, <1>3, RowsSkipped
<1>4. CASE pc' \in {"start", "tested"} /\ UNCHANGED <<cur, lost>>
  BY <1>1, <1>4, RowsOn DEF Measuring
<1>5. CASE pc' = "died" /\ UNCHANGED lost
  BY <1>1, <1>5, QuietKept, RowsOutside DEF Measuring, BetweenPoints, RowsInv
<1> QED
  BY <1>2, <1>3, <1>4, <1>5

LEMMA RowsTested ==
    ASSUME PyInv, RowsInv, [Next]_vars, GetTested
    PROVE  RowsInv'
<1>1. /\ pc = "tested" /\ pc \in Measuring /\ pc # "config"
      /\ UNCHANGED <<opt, cur, cfg, mon, link, lost>>
      /\ adb.slow => link.pmc = "up"
  BY DEF GetTested, Measuring, RowsInv, LinkQuiet
<1>2. CASE pc' = "died"
  BY <1>1, <1>2, QuietKept, RowsOutside DEF Measuring, BetweenPoints, RowsInv
<1>3. CASE pc' = "errors" /\ tested' \in Outcomes(cur.l, mon[Mon].tested)
  <2>1. tested' # None => The(tested') = mon[Mon].tested
    BY <1>3, OutcomeValue
  <2>2. ASSUME Sound, mon[Mon].tested >= opt.target
        PROVE  Measures(mon[Mon], cur) /\ link.pmc = "up"
    <3>1. opt.target \in Nat \ {0}
      <4>1. opt.target \in 1 .. 127
        BY OptionFacts DEF PyInv, TypeOK
      <4> QED
        BY <4>1
    <3>2. ~Unstarted(mon[Mon])
      BY <2>2, <3>1 DEF Unstarted
    <3>3. link.pmc \in {"up", "busy"}
      BY DEF PyInv, TypeOK, MonitorTypeOK, LinkStates
    <3> QED
      BY <1>1, <2>2, <3>2, <3>3 DEF RowsInv, PointMeasured
  <2> QED
    BY <1>1, <1>3, <2>1, <2>2, RowsOn DEF Measuring
<1> QED
  BY <1>2, <1>3 DEF GetTested, Die, Goto

LEMMA RowsErrors ==
    ASSUME PyInv, ErrorsBounded, RowsInv, [Next]_vars, GetErrors
    PROVE  RowsInv'
<1>1. /\ pc = "errors" /\ pc \in Measuring /\ pc # "config"
      /\ UNCHANGED <<opt, cfg, mon, link>>
      /\ adb.slow => link.pmc = "up"
  BY DEF GetErrors, Measuring, RowsInv, LinkQuiet
<1>2. PICK e : \/ /\ e \in Outcomes(cur.l, mon[Mon].errors)
                  /\ IF None \in {tested, e} THEN SkipPoint
                     ELSE IF EomStopped(The(tested), The(e)) THEN PrintRow(The(e))
                     ELSE StayAt("start")
               \/ DieAt
  BY DEF GetErrors
<1>3. CASE SkipPoint
  BY <1>1, <1>3, RowsSkipped
<1>4. CASE StayAt("start")
  <2>1. pc' = "start" /\ UNCHANGED <<cur, lost>>
    BY <1>4 DEF StayAt, Goto
  <2> QED
    BY <1>1, <2>1, RowsOn DEF Measuring
<1>5. CASE DieAt
  <2>1. pc' = "died" /\ UNCHANGED lost
    BY <1>5 DEF DieAt, Die, Goto
  <2> QED
    BY <1>1, <2>1, QuietKept, RowsOutside DEF Measuring, BetweenPoints, RowsInv
<1>6. CASE /\ e \in Outcomes(cur.l, mon[Mon].errors) /\ None \notin {tested, e}
           /\ EomStopped(The(tested), The(e)) /\ PrintRow(The(e))
  <2>1. Answers(cur.l) /\ The(e) = mon[Mon].errors /\ tested # None
    BY <1>6, OutcomeValue
  <2>2. Sound => link.pmc = "up"
    BY <1>1, <1>6, <2>1, StoppedOfPoint
  <2>3. NextPoint /\ LeaveWrites /\ UNCHANGED failures /\ UNCHANGED adb
    BY <1>6 DEF PrintRow, GetErrors
  <2>4. Settled' => link.pmc = "up"
    BY <1>1, <2>2, <2>3 DEF Settled, Sound, Failed, RowsInv, LinkQuiet
  <2> QED
    BY <1>1, <2>3, <2>4, RowsLeft
<1> QED
  BY <1>2, <1>3, <1>4, <1>5, <1>6

LEMMA RowsStep ==
    ClearOnEnable /\ PyInv /\ ErrorsBounded /\ RowsInv /\ [Next]_vars => RowsInv'
<1> SUFFICES ASSUME ClearOnEnable, PyInv, ErrorsBounded, RowsInv, [Next]_vars
             PROVE  RowsInv'
  OBVIOUS
<1> USE DEF Goto
<1>1. CASE GetDeviceInfo \/ GetEomCaps \/ DetermineVoltage \/ EnableLane \/ DisableLane \/ Finish
  <2>1. /\ pc \in BetweenPoints \cup {"finish"} /\ pc # "config"
        /\ UNCHANGED <<cfg, link>>
        /\ pc' \notin Measuring /\ (pc' \in BetweenPoints => pc \in BetweenPoints)
        /\ lost' = "now" => lost = "now"
    BY <1>1 DEF GetDeviceInfo, GetEomCaps, DetermineVoltage, EnableLane, DisableLane, Finish,
       Set, WriteMon, Die, history, Measuring, BetweenPoints
  <2>2. pc' \notin {"tested", "errors"}
    BY <2>1 DEF Measuring
  <2>3. LinkQuiet'
    BY <2>1, <2>2, QuietKept
  <2>4. cfg' = 1
    BY <2>1 DEF RowsInv, LinkQuiet
  <2> QED
    BY <2>1, <2>3, <2>4, RowsOutside DEF RowsInv
<1>2. CASE ConfigWrite
  BY <1>2, RowsConfig
<1>3. CASE Hardware
  BY <1>3, RowsHardware
<1>4. CASE Terminated \/ UNCHANGED vars
  <2>1. UNCHANGED <<pc, opt, adb, cur, cfg, tested, failures, lost, mon, link>>
    BY <1>4 DEF Terminated, vars, scriptVars, history
  <2> QED
    BY <2>1 DEF RowsInv, LinkQuiet, PointConfigured, PointMeasured, Configured, Sound, Settled,
       Failed, Mon, Measures
<1> QED
  BY <1>1, <1>2, <1>3, <1>4, RowsStart, RowsTested, RowsErrors DEF Next, Script

-----------------------------------------------------------------------------
\* The step the loops are at is one that six bits hold.
LEMMA StepsOfCursor ==
    ASSUME StepsFit, PyInv, pc \in InLane
    PROVE  cur.t \in -63 .. 63 /\ cur.v \in -63 .. 63
<1>1. InGrid(area, cur.l, cur.t, cur.v) /\ VoltageInside
  BY DEF PyInv, PointAtHand, CapsRead
<1>2. /\ limits.timing \in Nat /\ limits.voltage \in Nat
      /\ limits.timing <= 63 /\ limits.voltage <= 63
      /\ cur.t \in Int /\ cur.v \in Int
  BY OptionFacts DEF StepsFit, PyInv, TypeOK
<1>3. /\ -limits.timing <= cur.t /\ cur.t <= limits.timing
      /\ area.voltage_low <= cur.v /\ cur.v <= area.voltage_high
  BY <1>1, AreaIsScan DEF InGrid, PyInv, TypeOK
<1>4. -limits.voltage <= cur.v /\ cur.v <= limits.voltage
  <2>1. CASE opt.voltage = None
    BY <1>3, <2>1, AreaIsScan DEF PyInv, TypeOK
  <2>2. CASE opt.voltage # None
    <3>1. area.voltage_low = The(opt.voltage) /\ area.voltage_high = The(opt.voltage)
      BY <2>2, AreaIsScan DEF PyInv, TypeOK
    <3>2. The(opt.voltage) \in Int
      BY <2>2, OptionFacts, OptionalValue DEF PyInv, TypeOK
    <3> QED
      BY <1>1, <1>2, <1>3, <2>2, <3>1, <3>2 DEF VoltageInside, Within
  <2> QED
    BY <2>1, <2>2
<1> QED
  BY <1>2, <1>3, <1>4

LEMMA RowStep ==
    StepsFit /\ PyInv /\ ErrorsBounded /\ RowsInv /\ [Next]_vars => RowMeasured
<1> SUFFICES ASSUME StepsFit, PyInv, ErrorsBounded, RowsInv, [Next]_vars,
                    Len(rows') > Len(rows), ~Failed \/ (adb.slow /\ lost # "now")
             PROVE  RowMeasured
  BY DEF RowMeasured
<1>1. rows \in Seq(Rows) /\ Len(rows) \in Nat /\ rows' # rows
  <2>1. rows \in Seq(Rows) /\ Len(rows) \in Nat
    BY DEF PyInv, TypeOK
  <2> QED
    BY <2>1
<1>2. GetErrors
  BY <1>1 DEF Next, Script, Hardware, Terminated, vars, scriptVars, history, GetDeviceInfo,
     GetEomCaps, DetermineVoltage, EnableLane, ConfigWrite, GetStart, SkipPoint, StayAt, DieAt,
     GetTested, DisableLane, Finish
<1>3. PICK e \in Outcomes(cur.l, mon[Mon].errors) :
        None \notin {tested, e} /\ EomStopped(The(tested), The(e)) /\ PrintRow(The(e))
  BY <1>1, <1>2 DEF GetErrors, SkipPoint, StayAt, DieAt
<1> DEFINE s == mon[Mon]
           row == [lane |-> cur.l, timing |-> cur.t, volt |-> cur.v, error_cnt |-> s.errors]
<1>4. /\ pc = "errors" /\ pc \in InLane /\ Answers(cur.l)
      /\ tested # None /\ EomStopped(The(tested), s.errors)
      /\ rows' = Append(rows, row)
  BY <1>2, <1>3, OutcomeValue DEF GetErrors, PrintRow, InLane
<1>5. Len(rows') = Len(rows) + 1 /\ rows'[Len(rows')] = row
  <2> HIDE DEF row
  <2> QED
    BY <1>1, <1>4
<1>6. Sound
  BY DEF Sound, Settled, RowsInv, LinkQuiet
<1>7. /\ Measures(s, cur) /\ ~s.start
      /\ s.tested >= opt.target \/ s.errors >= ErrorThreshold
  BY <1>4, <1>6, StoppedOfPoint
<1>8. StepOf(StepConfig(cur.t)) = cur.t /\ StepOf(StepConfig(cur.v)) = cur.v
  BY <1>4, StepsOfCursor, StepRoundTrip
<1>9. /\ s.run.mine /\ s.run.no_adapt /\ ~s.armed
      /\ StepOf(s.run.timing) = cur.t /\ StepOf(s.run.volt) = cur.v
  BY <1>7, <1>8 DEF Measures
<1>10. /\ row.lane = cur.l /\ row.timing = cur.t /\ row.volt = cur.v
       /\ row.error_cnt = s.errors /\ mon[<<opt.side, row.lane>>] = s
  BY DEF Mon
<1> HIDE DEF row, s
<1> QED
  BY <1>5, <1>7, <1>9, <1>10 DEF RowMeasured

\* A row is of a measurement of that very point, finished, if no call has
\* failed; and if calls do fail but adb is slower than a power mode change, a
\* write that is lost spoils the row of its own point alone.  It rests on what
\* the script cannot see: that a monitor enabled anew is cleared.
THEOREM RowsMeasured ==
    ClearOnEnable /\ StepsFit => (Spec => RowsAreMeasured)
<1> SUFFICES ASSUME ClearOnEnable, StepsFit PROVE Spec => RowsAreMeasured
  OBVIOUS
<1>1. Init => ErrorsBounded /\ RowsInv
  BY ErrorsInit, RowsInit DEF Init
<1>2. PyInv /\ ErrorsBounded /\ RowsInv /\ [Next]_vars => ErrorsBounded' /\ RowsInv'
  BY ErrorsStep, RowsStep DEF PyInv
<1>3. PyInv /\ ErrorsBounded /\ RowsInv /\ [Next]_vars => [RowMeasured]_vars
  BY RowStep
<1> QED
  BY <1>1, <1>2, <1>3, PyInvariance, PTL DEF Spec, RowsAreMeasured
=============================================================================
