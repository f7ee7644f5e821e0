---------------------------- MODULE Ufseom_proofs ----------------------------
(***************************************************************************)
(* Theorems about ufseom, for every set of options, every limit a device   *)
(* may report, every error threshold and every behaviour of the monitors.  *)
(***************************************************************************)
EXTENDS UfseomProps, EyeMonitor_proofs

-----------------------------------------------------------------------------
(***************************************************************************)
(* Typing.                                                                 *)
(***************************************************************************)
LEMMA ResolveType ==
    ASSUME NEW o \in AcceptedOptions, NEW c \in CapsRecords
    PROVE  Resolve(o, c) \in AcceptedOptions
<1>1. \A x, y \in Int : GivenOrLimit(x, y) \in Int
  BY DEF GivenOrLimit
<1>2. /\ c.voltage_max_steps \in Int /\ -c.voltage_max_steps \in Int
      /\ c.timing_max_steps \in Int /\ -c.timing_max_steps \in Int
  BY DEF CapsRecords
<1> QED
  BY <1>1, <1>2 DEF Resolve, AcceptedOptions

\* What config_eom writes is a value of the register it writes to.
LEMMA ConfigType ==
    ASSUME TypeOK, NEW attr \in {ConfigOrder[i] : i \in 1 .. 6}, ConfigEffect(attr)
    PROVE  MonitorTypeOK'
<1> USE DEF TypeOK, MonitorTypeOK
<1>1. CASE attr = "adapt_type"
  BY <1>1 DEF ConfigEffect, LinkStates
<1>2. CASE attr = "pwrmode"
  BY <1>2 DEF ConfigEffect, LinkStates
<1>3. CASE attr \in {"enable", "timing", "voltage", "target"}
  <2>0. /\ ConfigValue("enable") = 1
        /\ ConfigValue("timing") = StepConfig(cur.t)
        /\ ConfigValue("voltage") = StepConfig(cur.v)
        /\ ConfigValue("target") = opt.target_test_count
    BY DEF ConfigValue
  <2>1. \/ attr = "enable" /\ ConfigValue(attr) \in {0, 1}
        \/ attr \in {"timing", "voltage", "target"} /\ ConfigValue(attr) \in Registers
    <3>1. /\ StepConfig(cur.t) \in Registers
          /\ StepConfig(cur.v) \in Registers
          /\ opt.target_test_count \in Registers
      BY StepConfigType DEF AcceptedOptions, Cursors, Registers, EOM_TARGET_TEST_COUNT_MAX
    <3> QED
      BY <1>3, <2>0, <3>1
  <2>2. \A s \in MonitorStates : Written(s, attr, ConfigValue(attr)) \in MonitorStates
    BY <2>1, WrittenType
  <2> QED
    BY <1>3, <2>2 DEF ConfigEffect
<1> QED
  BY <1>1, <1>2, <1>3 DEF ConfigOrder

LEMMA DisableType ==
    ASSUME TypeOK, DisableEffect
    PROVE  mon' \in [Monitors -> MonitorStates]
<1>1. \A s \in MonitorStates : Written(s, "enable", 0) \in MonitorStates
  BY WrittenType
<1> QED
  BY <1>1 DEF DisableEffect, TypeOK, MonitorTypeOK

LEMMA TypeInit == Init => TypeOK
<1> SUFFICES ASSUME Init PROVE TypeOK
  OBVIOUS
<1>3. MonitorTypeOK
  BY MonitorInitType DEF Init
<1>4. <<>> \in Seq(Rows)
  OBVIOUS
<1>5. opt \in AcceptedOptions /\ caps \in CapsRecords
  BY UfseomAssumption DEF Init
<1>6. /\ cur \in Cursors
      /\ report \in Reports
  BY <1>4 DEF Init, Cursors, Reports
<1>7. /\ pc \in Labels /\ cfg \in 1 .. 6 /\ tested \in Nat /\ er \in Seq(Rows)
      /\ eom_result_count \in Int /\ ret \in {SUCCESS, ERROR}
      /\ held \subseteq {"bsg", "tmp", "buf", "er"}
  BY DEF Init, Labels
<1> QED
  BY <1>3, <1>5, <1>6, <1>7 DEF TypeOK

LEMMA TypeStep == TypeOK /\ [Next]_vars => TypeOK'
<1> SUFFICES ASSUME TypeOK, [Next]_vars PROVE TypeOK'
  OBVIOUS
<1> USE DEF Goto, Fail, Labels
<1>1. CASE OpenBsg
  BY <1>1 DEF OpenBsg, TypeOK, MonitorTypeOK
<1>2. CASE CheckSupport
  BY <1>2 DEF CheckSupport, TypeOK, MonitorTypeOK
<1>3. CASE PrepareIo
  BY <1>3 DEF PrepareIo, TypeOK, MonitorTypeOK
<1>4. CASE ReadLimits
  BY <1>4 DEF ReadLimits, TypeOK, MonitorTypeOK
<1>5. CASE CheckRange
  <2>1. opt' \in AcceptedOptions
    BY <1>5, ResolveType DEF CheckRange, TypeOK
  <2> QED
    BY <1>5, <2>1 DEF CheckRange, TypeOK, MonitorTypeOK
<1>6. CASE AllocResults
  <2>1. ResultCount(opt) \in Int
    <3>1. Timings(opt) \in Int /\ Volts(opt) \in Int /\ opt.num_lanes \in Int
      BY DEF Timings, Volts, TypeOK, AcceptedOptions
    <3> QED
      BY <3>1 DEF ResultCount
  <2>2. [l |-> opt.lane, t |-> opt.timing_left, v |-> opt.voltage_low, n |-> opt.num_lanes]
          \in Cursors
    BY DEF TypeOK, AcceptedOptions, LaneNumbers, Cursors
  <2>3. cur' \in Cursors
    BY <1>6, <2>2 DEF AllocResults, TypeOK
  <2>4. held' \subseteq {"bsg", "tmp", "buf", "er"}
    BY <1>6 DEF AllocResults, TypeOK
  <2>5. pc' \in Labels /\ cfg' \in 1 .. 6 /\ ret' \in {SUCCESS, ERROR}
    BY <1>6 DEF AllocResults, TypeOK
  <2>6. eom_result_count' \in Int
    BY <1>6, <2>1 DEF AllocResults
  <2> QED
    BY <1>6, <2>3, <2>4, <2>5, <2>6 DEF AllocResults, TypeOK, MonitorTypeOK
<1>7. CASE ConfigWrite
  <2>1. ConfigOrder[cfg] \in {ConfigOrder[i] : i \in 1 .. 6} /\ Len(ConfigOrder) = 6
    BY DEF TypeOK, ConfigOrder
  <2>2. MonitorTypeOK'
    BY <1>7, <2>1, ConfigType DEF ConfigWrite, TypeOK, MonitorTypeOK
  <2> QED
    BY <1>7, <2>1, <2>2 DEF ConfigWrite, TypeOK
<1>8. CASE PollUnipro
  BY <1>8 DEF PollUnipro, TypeOK, MonitorTypeOK
<1>9. CASE Delay
  BY <1>9 DEF Delay, TypeOK, MonitorTypeOK
<1>10. CASE DoIo
  BY <1>10 DEF DoIo, TypeOK, MonitorTypeOK
<1>11. CASE GetStart
  BY <1>11 DEF GetStart, TypeOK, MonitorTypeOK
<1>12. CASE GetTested
  <2>1. Answers(cur.l) => mon[Mon].tested \in Nat
    BY DEF Answers, Mon, TypeOK, MonitorTypeOK, Monitors, MonitorStates, AcceptedOptions
  <2> QED
    BY <1>12, <2>1 DEF GetTested, TypeOK, MonitorTypeOK
<1>13. CASE GetErrors
  <2>1. Answers(cur.l) => mon[Mon].errors \in Nat
    BY DEF Answers, Mon, TypeOK, MonitorTypeOK, Monitors, MonitorStates, AcceptedOptions
  <2>2. ASSUME NEW e \in Nat, LogRow(e) PROVE er' \in Seq(Rows)
    BY <2>2 DEF LogRow, Rows, Cursors, TypeOK
  <2>3. ASSUME NEW e \in Nat, LogRow(e)
        PROVE  cur' \in Cursors /\ pc' \in Labels
               /\ ret' \in {SUCCESS, ERROR}
    <3>1. /\ opt.voltage_low \in Int
          /\ cur \in Cursors
      BY DEF TypeOK, AcceptedOptions
    <3>2. /\ [cur EXCEPT !.v = @ + 1] \in Cursors
          /\ [cur EXCEPT !.t = @ + 1, !.v = opt.voltage_low] \in Cursors
      <4>1. ASSUME NEW c \in Cursors, NEW x \in Int, NEW y \in Int
            PROVE  [c EXCEPT !.v = x] \in Cursors /\ [c EXCEPT !.t = y, !.v = x] \in Cursors
        BY DEF Cursors
      <4>2. cur.v + 1 \in Int /\ cur.t + 1 \in Int
        BY <3>1 DEF Cursors
      <4> QED
        BY <3>1, <4>1, <4>2
    <3>3. cur' \in Cursors
      BY <2>3, <3>1, <3>2 DEF LogRow, NextPoint
    <3>4. pc' \in Labels
      BY <2>3 DEF LogRow, NextPoint
    <3>5. ret' \in {SUCCESS, ERROR}
      BY <2>3 DEF LogRow, TypeOK
    <3> QED
      BY <3>3, <3>4, <3>5
  <2> QED
    BY <1>13, <2>1, <2>2, <2>3 DEF GetErrors, TypeOK, MonitorTypeOK
<1>14. CASE DisableMonitor
  <2>1. mon' \in [Monitors -> MonitorStates]
    BY <1>14, DisableType DEF DisableMonitor, TypeOK, MonitorTypeOK
  <2>2. cur.n > 1 => [l |-> cur.l + 1, t |-> opt.timing_left, v |-> opt.voltage_low,
                      n |-> cur.n - 1] \in Cursors
    BY DEF TypeOK, AcceptedOptions, Cursors
  <2> QED
    BY <1>14, <2>1, <2>2 DEF DisableMonitor, TypeOK, MonitorTypeOK
<1>15. CASE GenerateReport
  <2>1. \A k \in 0 .. Len(er) : SubSeq(er, 1, k) \in Seq(Rows)
    BY DEF TypeOK
  <2>2. Len(er) \in 0 .. Len(er)
    BY DEF TypeOK
  <2>3. report' \in Reports
    <3>1. CASE UNCHANGED report
      BY <3>1 DEF TypeOK
    <3>2. ASSUME NEW k \in 0 .. Len(er), report' = [saved |-> TRUE, rows |-> SubSeq(er, 1, k)]
          PROVE  report' \in Reports
      BY <2>1, <3>2 DEF Reports
    <3> QED
      BY <1>15, <2>2, <3>1, <3>2 DEF GenerateReport
  <2> QED
    BY <1>15, <2>3 DEF GenerateReport, TypeOK, MonitorTypeOK
<1>16. CASE FreeBuffers \/ CloseTmp \/ CloseBsg
  BY <1>16 DEF FreeBuffers, CloseTmp, CloseBsg, Release, TypeOK, MonitorTypeOK
<1>17. CASE Hardware
  <2>1. MonitorTypeOK'
    BY <1>17, HardwareType DEF Hardware, TypeOK
  <2> QED
    BY <1>17, <2>1 DEF Hardware, progVars, TypeOK
<1>18. CASE UNCHANGED vars
  BY <1>18 DEF vars, progVars, TypeOK, MonitorTypeOK
<1> QED
  BY <1>1, <1>2, <1>3, <1>4, <1>5, <1>6, <1>7, <1>8, <1>9, <1>10, <1>11, <1>12, <1>13,
     <1>14, <1>15, <1>16, <1>17, <1>18 DEF Next, Program, Terminated

\* Every reachable state is well typed: in particular every value written to an
\* attribute of a monitor fits its register.
THEOREM TypeCorrect == Spec => []TypeOK
<1>1. Init => TypeOK
  BY TypeInit
<1>2. TypeOK /\ [Next]_vars => TypeOK'
  BY TypeStep
<1> QED
  BY <1>1, <1>2, PTL DEF Spec

-----------------------------------------------------------------------------
(***************************************************************************)
(* The loops of main against the size of data->er and the report.          *)
(***************************************************************************)
Early == {"open", "support", "prepare", "limits", "range", "alloc"}
Ending == {"out", "close_tmp", "close_bsg", "done"}

\* The options have passed the sanity check, and data->er was given room for
\* every point, before the first row is stored.
SizeInv ==
    /\ pc \in Early => er = <<>> /\ eom_result_count = 0
    /\ pc \in {"alloc", "report"} \cup Scanning => IsScan(opt)
    /\ pc \in Scanning \cup {"report"} => eom_result_count = ResultCount(opt)
    /\ Len(er) <= eom_result_count
    /\ pc = "disable" => cur.t = opt.timing_right /\ cur.v = opt.voltage_high

\* ret is SUCCESS until something fails, and in the end exactly when the report
\* was written, with every row or, if the disk may fill up, with the first ones.
OutcomeInv ==
    /\ pc \notin Ending => ret = SUCCESS /\ ~report.saved
    /\ pc \in Ending => (ret = SUCCESS <=> report.saved)
    /\ report.saved =>
         /\ ~DiskMayFill => Len(report.rows) = ResultCount(opt)
         /\ \A i \in 1 .. Len(report.rows) : i \in 1 .. Len(er) /\ report.rows[i] = er[i]

IInv == TypeOK /\ SizeInv /\ ScanProgress /\ OutcomeInv

LEMMA InvInit == Init => IInv
<1> SUFFICES ASSUME Init PROVE IInv
  OBVIOUS
<1>1. TypeOK
  BY TypeInit
<1>2. pc = "open" /\ er = <<>> /\ Len(er) = 0 /\ eom_result_count = 0 /\ ret = SUCCESS
  BY DEF Init
<1>3. report.saved = FALSE
  BY DEF Init
<1>4. SizeInv
  BY <1>2 DEF SizeInv, Early, Scanning
<1>5. ScanProgress
  BY <1>2 DEF ScanProgress, Scanning
<1>6. OutcomeInv
  BY <1>2, <1>3 DEF OutcomeInv, Ending
<1> QED
  BY <1>1, <1>4, <1>5, <1>6 DEF IInv

\* A step that neither stores a row nor moves on leaves the invariant alone, be
\* it to go on or to jump to the label out.
LEMMA InvQuiet ==
    ASSUME IInv, TypeOK', pc \in Scanning \ {"disable"},
           UNCHANGED <<er, opt, cur, eom_result_count, report>>,
           \/ pc' \in Scanning \ {"disable"} /\ UNCHANGED ret
           \/ pc' = "out" /\ ret' = ERROR
    PROVE  IInv'
<1>1. SizeInv'
  BY DEF IInv, SizeInv, Early, Scanning
<1>2. ScanProgress'
  <2>1. /\ \A i \in 1 .. Len(er') :
              GridIndex(opt', er'[i].lane, er'[i].timing, er'[i].volt) = i - 1
        /\ InGrid(opt', cur'.l, cur'.t, cur'.v)
        /\ cur'.l + cur'.n = opt'.lane + opt'.num_lanes
        /\ Len(er') = GridIndex(opt', cur'.l, cur'.t, cur'.v) + 0
    BY DEF IInv, ScanProgress
  <2> QED
    BY <2>1 DEF ScanProgress, Scanning
<1>3. OutcomeInv'
  BY DEF IInv, OutcomeInv, Ending, Scanning, SUCCESS, ERROR
<1> QED
  BY <1>1, <1>2, <1>3 DEF IInv

\* The places of the points the loops of main move between.
LEMMA CursorFacts ==
    ASSUME IInv, pc \in Scanning
    PROVE  /\ IsScan(opt)
           /\ cur.l \in Nat /\ cur.t \in Int /\ cur.v \in Int /\ cur.n \in Nat
           /\ cur.l \in Int
           /\ GridIndex(opt, cur.l, cur.t, cur.v) \in Nat
           /\ GridIndex(opt, cur.l, cur.t, cur.v) < ResultCount(opt)
<1>1. IsScan(opt)
  BY DEF IInv, SizeInv
<1>2. cur.l \in Nat /\ cur.t \in Int /\ cur.v \in Int /\ cur.n \in Nat
  BY DEF IInv, TypeOK, Cursors
<1>3. InGrid(opt, cur.l, cur.t, cur.v)
  BY DEF IInv, ScanProgress
<1> QED
  BY <1>1, <1>2, <1>3, GridBound

\* Storing a row: there is room for it, it is the next of the grid, and the
\* loops go on to the point after it or to the end of the lane.
LEMMA InvLogRow ==
    ASSUME IInv, TypeOK', pc = "errors", NEW e \in Nat, LogRow(e),
           UNCHANGED <<opt, eom_result_count, report>>
    PROVE  IInv'
<1> DEFINE g == GridIndex(opt, cur.l, cur.t, cur.v)
           row == [lane |-> cur.l, timing |-> cur.t, volt |-> cur.v, error_cnt |-> e]
<1>1. pc \in Scanning
  BY DEF Scanning
<1>2. /\ IsScan(opt)
      /\ cur.l \in Int /\ cur.t \in Int /\ cur.v \in Int
      /\ g \in Nat /\ g < ResultCount(opt)
  BY <1>1, CursorFacts
<1>3. /\ Len(er) = g
      /\ eom_result_count = ResultCount(opt)
      /\ InGrid(opt, cur.l, cur.t, cur.v)
      /\ cur.l + cur.n = opt.lane + opt.num_lanes
      /\ ret = SUCCESS /\ ~report.saved
      /\ er \in Seq(Rows)
  <2>1. Len(er) = g + 0
    BY <1>1 DEF IInv, ScanProgress
  <2>2. ret = SUCCESS /\ ~report.saved
    BY DEF IInv, OutcomeInv, Ending
  <2>3. /\ eom_result_count = ResultCount(opt)
        /\ InGrid(opt, cur.l, cur.t, cur.v)
        /\ cur.l + cur.n = opt.lane + opt.num_lanes
    BY <1>1 DEF IInv, SizeInv, ScanProgress
  <2> QED
    BY <1>2, <2>1, <2>2, <2>3 DEF IInv, TypeOK
<1>4. /\ er' = Append(er, row)
      /\ Len(er') = g + 1
      /\ \A i \in 1 .. Len(er) : er'[i] = er[i]
      /\ er'[g + 1] = row
  <2>1. er' = Append(er, row)
    BY DEF LogRow
  <2> HIDE DEF g, row
  <2> QED
    BY <1>3, <2>1
<1>5. NextPoint /\ UNCHANGED ret
  <2>1. ~(Len(er') > eom_result_count)
    <3> HIDE DEF g
    <3> QED
      BY <1>2, <1>3, <1>4, GridSizes
  <2> QED
    BY <2>1 DEF LogRow
<1>6. \A i \in 1 .. Len(er') :
        GridIndex(opt', er'[i].lane, er'[i].timing, er'[i].volt) = i - 1
  <2> SUFFICES ASSUME NEW i \in 1 .. Len(er')
               PROVE  GridIndex(opt', er'[i].lane, er'[i].timing, er'[i].volt) = i - 1
    OBVIOUS
  <2>1. CASE i \in 1 .. Len(er)
    <3>1. GridIndex(opt, er[i].lane, er[i].timing, er[i].volt) = i - 1
      BY <2>1 DEF IInv, ScanProgress
    <3> QED
      BY <1>4, <2>1, <3>1
  <2>2. CASE i = g + 1
    <3>1. er'[i].lane = cur.l /\ er'[i].timing = cur.t /\ er'[i].volt = cur.v
      BY <1>4, <2>2
    <3>2. GridIndex(opt', er'[i].lane, er'[i].timing, er'[i].volt) = g
      BY <3>1
    <3> HIDE DEF g
    <3> QED
      BY <1>2, <2>2, <3>2
  <2>3. i \in 1 .. Len(er) \/ i = g + 1
    <3> HIDE DEF g
    <3> QED
      BY <1>2, <1>3, <1>4
  <2> QED
    BY <2>1, <2>2, <2>3
<1>7. OutcomeInv'
  <2>1. pc' \notin Ending
    BY <1>5 DEF NextPoint, Goto, Ending
  <2> QED
    BY <1>3, <1>5, <2>1 DEF OutcomeInv
<1>8. /\ pc' \in Scanning
      /\ InGrid(opt', cur'.l, cur'.t, cur'.v)
      /\ cur'.l = cur.l /\ cur'.n = cur.n
      /\ Len(er') = GridIndex(opt', cur'.l, cur'.t, cur'.v) + (IF pc' = "disable" THEN 1 ELSE 0)
      /\ pc' = "disable" => cur'.t = opt'.timing_right /\ cur'.v = opt'.voltage_high
  <2>0. cur \in Cursors /\ opt \in AcceptedOptions
    BY DEF IInv, TypeOK
  <2>1. CASE cur.v < opt.voltage_high
    <3>1. /\ pc' = "config"
          /\ cur'.l = cur.l /\ cur'.n = cur.n /\ cur'.t = cur.t /\ cur'.v = cur.v + 1
      BY <1>5, <2>0, <2>1 DEF NextPoint, Goto, Cursors
    <3>2. GridIndex(opt, cur.l, cur.t, cur.v + 1) = g + 1
      BY <1>2, GridNextVolt
    <3>3. InGrid(opt, cur.l, cur.t, cur.v + 1)
      BY <1>2, <1>3, <2>0, <2>1 DEF InGrid, AcceptedOptions
    <3>4. Len(er') = GridIndex(opt', cur'.l, cur'.t, cur'.v) + 0
      <4>1. GridIndex(opt', cur'.l, cur'.t, cur'.v) = g + 1
        BY <3>1, <3>2
      <4> HIDE DEF g
      <4> QED
        BY <1>2, <1>4, <4>1
    <3> QED
      BY <3>1, <3>3, <3>4 DEF Scanning
  <2>2. CASE ~(cur.v < opt.voltage_high) /\ cur.t < opt.timing_right
    <3>1. /\ pc' = "config"
          /\ cur'.l = cur.l /\ cur'.n = cur.n
          /\ cur'.t = cur.t + 1 /\ cur'.v = opt.voltage_low
      BY <1>5, <2>0, <2>2 DEF NextPoint, Goto, Cursors
    <3>2. cur.v = opt.voltage_high
      BY <1>2, <1>3, <2>0, <2>2 DEF InGrid, AcceptedOptions
    <3>3. GridIndex(opt, cur.l, cur.t + 1, opt.voltage_low) = g + 1
      BY <1>2, <3>2, GridNextTiming
    <3>4. InGrid(opt, cur.l, cur.t + 1, opt.voltage_low)
      BY <1>2, <1>3, <2>0, <2>2 DEF InGrid, AcceptedOptions
    <3>5. Len(er') = GridIndex(opt', cur'.l, cur'.t, cur'.v) + 0
      <4>1. GridIndex(opt', cur'.l, cur'.t, cur'.v) = g + 1
        BY <3>1, <3>3
      <4> HIDE DEF g
      <4> QED
        BY <1>2, <1>4, <4>1
    <3> QED
      BY <3>1, <3>4, <3>5 DEF Scanning
  <2>3. CASE ~(cur.v < opt.voltage_high) /\ ~(cur.t < opt.timing_right)
    <3>1. pc' = "disable" /\ cur' = cur
      BY <1>5, <2>3 DEF NextPoint, Goto
    <3>2. cur.v = opt.voltage_high /\ cur.t = opt.timing_right
      BY <1>2, <1>3, <2>0, <2>3 DEF InGrid, AcceptedOptions
    <3> QED
      BY <1>3, <1>4, <3>1, <3>2 DEF Scanning
  <2> QED
    BY <2>1, <2>2, <2>3
<1>9. SizeInv'
  <2>1. Len(er') <= eom_result_count'
    <3> HIDE DEF g
    <3> QED
      BY <1>2, <1>3, <1>4, GridSizes
  <2> QED
    BY <1>2, <1>3, <1>8, <2>1 DEF SizeInv, Scanning, Early
<1>10. ScanProgress'
  BY <1>3, <1>6, <1>8 DEF ScanProgress, Scanning
<1> QED
  BY <1>7, <1>9, <1>10 DEF IInv

\* The end of a lane: the next lane starts at its first point, or every point
\* of the grid has its row.
LEMMA InvDisable ==
    ASSUME IInv, TypeOK', DisableMonitor
    PROVE  IInv'
<1> DEFINE g == GridIndex(opt, cur.l, cur.t, cur.v)
           size == Timings(opt) * Volts(opt)
<1>1. pc = "disable" /\ pc \in Scanning /\ UNCHANGED <<opt, er, eom_result_count, report>>
  BY DEF DisableMonitor, Scanning
<1>2. /\ IsScan(opt)
      /\ cur.l \in Int /\ cur.t \in Int /\ cur.v \in Int /\ cur.n \in Nat
      /\ g \in Nat /\ g < ResultCount(opt)
  BY <1>1, CursorFacts
<1>3. /\ eom_result_count = ResultCount(opt)
      /\ InGrid(opt, cur.l, cur.t, cur.v)
      /\ cur.l + cur.n = opt.lane + opt.num_lanes
      /\ cur.t = opt.timing_right /\ cur.v = opt.voltage_high
      /\ ret = SUCCESS /\ ~report.saved
      /\ Len(er) = g + 1
  <2>1. ret = SUCCESS /\ ~report.saved
    BY <1>1 DEF IInv, OutcomeInv, Ending
  <2>2. Len(er) = g + 1
    BY <1>1 DEF IInv, ScanProgress
  <2> QED
    BY <1>1, <2>1, <2>2 DEF IInv, SizeInv, ScanProgress
<1>4. /\ opt.lane \in Int /\ opt.num_lanes \in Int
      /\ opt.timing_left \in Int /\ opt.timing_right \in Int
      /\ opt.voltage_low \in Int /\ opt.voltage_high \in Int
      /\ opt.timing_left <= opt.timing_right /\ opt.voltage_low <= opt.voltage_high
  BY <1>2 DEF IsScan
<1>5. g + 1 = ((cur.l + 1) - opt.lane) * size
  BY <1>2, <1>3, GridNextLane
<1>6. \A i \in 1 .. Len(er') :
        GridIndex(opt', er'[i].lane, er'[i].timing, er'[i].volt) = i - 1
  BY <1>1 DEF IInv, ScanProgress
<1>7. Len(er') <= eom_result_count'
  <2> HIDE DEF g
  <2> QED
    BY <1>1, <1>2, <1>3, GridSizes
<1>8. CASE /\ cur.n > 1 /\ pc' = "config" /\ UNCHANGED ret
           /\ cur' = [l |-> cur.l + 1, t |-> opt.timing_left, v |-> opt.voltage_low,
                       n |-> cur.n - 1]
  <2>1. InGrid(opt', cur'.l, cur'.t, cur'.v)
    <3>1. /\ cur'.l = cur.l + 1 /\ cur'.t = opt.timing_left /\ cur'.v = opt.voltage_low
          /\ opt' = opt
      BY <1>1, <1>8
    <3>2. opt.lane <= cur.l
      BY <1>3 DEF InGrid
    <3>3. opt.lane <= cur.l + 1 /\ cur.l + 1 < opt.lane + opt.num_lanes
      <4> HIDE DEF g, size
      <4>1. cur.l + cur.n = opt.lane + opt.num_lanes /\ cur.n > 1
        BY <1>3, <1>8
      <4> QED
        BY <1>2, <1>4, <3>2, <4>1
    <3> QED
      BY <1>4, <3>1, <3>3 DEF InGrid
  <2>2. cur'.l + cur'.n = opt'.lane + opt'.num_lanes
    <3>1. cur'.l = cur.l + 1 /\ cur'.n = cur.n - 1 /\ opt' = opt
      BY <1>1, <1>8
    <3>2. (cur.l + 1) + (cur.n - 1) = opt.lane + opt.num_lanes
      BY <1>2, <1>3
    <3> QED
      BY <3>1, <3>2
  <2>3. Len(er') = GridIndex(opt', cur'.l, cur'.t, cur'.v) + 0
    <3>1. GridIndex(opt', cur'.l, cur'.t, cur'.v) = ((cur.l + 1) - opt.lane) * size
      BY <1>1, <1>2, <1>8, GridLaneStart
    <3>2. Len(er') = GridIndex(opt', cur'.l, cur'.t, cur'.v)
      BY <1>1, <1>3, <1>5, <3>1
    <3> HIDE DEF g, size
    <3> QED
      BY <1>1, <1>2, <1>3, <3>2
  <2>4. SizeInv'
    BY <1>1, <1>2, <1>3, <1>7, <1>8 DEF SizeInv, Scanning, Early
  <2>5. ScanProgress'
    BY <1>6, <1>8, <2>1, <2>2, <2>3 DEF ScanProgress, Scanning
  <2>6. OutcomeInv'
    BY <1>1, <1>3, <1>8 DEF OutcomeInv, Ending
  <2> QED
    BY <2>4, <2>5, <2>6 DEF IInv
<1>9. CASE cur.n <= 1 /\ UNCHANGED cur /\ pc' = "report" /\ UNCHANGED ret
  <2>1. (cur.l + 1) - opt.lane = opt.num_lanes
    BY <1>2, <1>3, <1>4, <1>9 DEF InGrid
  <2>2. Len(er') = ResultCount(opt')
    BY <1>1, <1>2, <1>3, <1>5, <2>1, GridSizes
  <2>3. SizeInv'
    BY <1>1, <1>2, <1>3, <1>7, <1>9 DEF SizeInv, Scanning, Early
  <2>4. ScanProgress'
    BY <1>6, <1>9, <2>2 DEF ScanProgress, Scanning
  <2>5. OutcomeInv'
    BY <1>1, <1>3, <1>9 DEF OutcomeInv, Ending
  <2> QED
    BY <2>3, <2>4, <2>5 DEF IInv
<1>10. CASE pc' = "out" /\ ret' = ERROR /\ UNCHANGED cur
  <2>1. SizeInv'
    BY <1>7, <1>10 DEF SizeInv, Scanning, Early
  <2>2. ScanProgress'
    BY <1>6, <1>10 DEF ScanProgress, Scanning
  <2>3. OutcomeInv'
    BY <1>1, <1>3, <1>10 DEF OutcomeInv, Ending, SUCCESS, ERROR
  <2> QED
    BY <2>1, <2>2, <2>3 DEF IInv
<1> QED
  BY <1>2, <1>8, <1>9, <1>10 DEF DisableMonitor, Goto, Fail

\* The steps before the first row and after the last.
LEMMA InvOutside ==
    ASSUME IInv, TypeOK', pc \notin Scanning, Program
    PROVE  IInv'
<1> USE DEF Goto, Fail
<1>1. CASE OpenBsg
  BY <1>1 DEF OpenBsg, IInv, SizeInv, ScanProgress, OutcomeInv, Early, Ending, Scanning,
     SUCCESS, ERROR
<1>2. CASE CheckSupport \/ ReadLimits
  BY <1>2 DEF CheckSupport, ReadLimits, IInv, SizeInv, ScanProgress, OutcomeInv, Early,
     Ending, Scanning, SUCCESS, ERROR
<1>3. CASE PrepareIo
  BY <1>3 DEF PrepareIo, IInv, SizeInv, ScanProgress, OutcomeInv, Early, Ending, Scanning,
     SUCCESS, ERROR
<1>4. CASE CheckRange
  <2>1. er = <<>> /\ Len(er) = 0 /\ eom_result_count = 0 /\ ret = SUCCESS /\ ~report.saved
    BY <1>4 DEF CheckRange, IInv, SizeInv, OutcomeInv, Early, Ending
  <2>2. /\ UNCHANGED <<er, eom_result_count, report>>
        /\ \/ RangeOK(opt', caps) /\ pc' = "alloc" /\ ret' = ret
           \/ pc' = "out" /\ ret' = ERROR
    BY <1>4 DEF CheckRange
  <2>3. RangeOK(opt', caps) => IsScan(opt')
    BY DEF RangeOK, IsScan, TypeOK, AcceptedOptions, LaneNumbers
  <2>4. SizeInv'
    BY <2>1, <2>2, <2>3 DEF SizeInv, Early, Scanning
  <2>5. ScanProgress'
    BY <2>1, <2>2 DEF ScanProgress, Scanning
  <2>6. OutcomeInv'
    BY <2>1, <2>2 DEF OutcomeInv, Ending, SUCCESS, ERROR
  <2> QED
    BY <2>4, <2>5, <2>6 DEF IInv
<1>5. CASE AllocResults
  <2>1. /\ pc = "alloc" /\ IsScan(opt)
        /\ er = <<>> /\ Len(er) = 0 /\ ret = SUCCESS /\ ~report.saved
    BY <1>5 DEF AllocResults, IInv, SizeInv, OutcomeInv, Early, Ending
  <2>2. /\ UNCHANGED <<opt, er, report>>
        /\ eom_result_count' = ResultCount(opt)
        /\ ResultCount(opt) \in Nat
    BY <1>5, <2>1, GridSizes DEF AllocResults
  <2>3. CASE /\ pc' = "config" /\ ret' = ret
             /\ cur' = [l |-> opt.lane, t |-> opt.timing_left, v |-> opt.voltage_low,
                         n |-> opt.num_lanes]
    <3>1. /\ opt.lane \in Int /\ opt.num_lanes \in Nat \ {0}
          /\ opt.timing_left \in Int /\ opt.timing_right \in Int
          /\ opt.voltage_low \in Int /\ opt.voltage_high \in Int
          /\ opt.timing_left <= opt.timing_right /\ opt.voltage_low <= opt.voltage_high
      BY <2>1 DEF IsScan
    <3>2. InGrid(opt', cur'.l, cur'.t, cur'.v)
      BY <2>2, <2>3, <3>1 DEF InGrid
    <3>3. GridIndex(opt', cur'.l, cur'.t, cur'.v) = 0
      <4>1. GridIndex(opt', cur'.l, cur'.t, cur'.v)
              = (opt.lane - opt.lane) * (Timings(opt) * Volts(opt))
        BY <2>1, <2>2, <2>3, <3>1, GridLaneStart
      <4>2. opt.lane - opt.lane = 0 /\ Timings(opt) * Volts(opt) \in Nat
        BY <2>1, <3>1, GridSizes
      <4>3. 0 * (Timings(opt) * Volts(opt)) = 0
        BY <4>2
      <4> QED
        BY <4>1, <4>2, <4>3
    <3>4. SizeInv'
      BY <2>1, <2>2, <2>3 DEF SizeInv, Early, Scanning
    <3>5. ScanProgress'
      BY <2>1, <2>2, <2>3, <3>2, <3>3 DEF ScanProgress, Scanning
    <3>6. OutcomeInv'
      BY <2>1, <2>2, <2>3 DEF OutcomeInv, Ending
    <3> QED
      BY <3>4, <3>5, <3>6 DEF IInv
  <2>4. CASE pc' = "out" /\ ret' = ERROR
    <3>1. SizeInv'
      BY <2>1, <2>2, <2>4 DEF SizeInv, Early, Scanning
    <3>2. ScanProgress'
      BY <2>1, <2>2, <2>4 DEF ScanProgress, Scanning
    <3>3. OutcomeInv'
      BY <2>1, <2>2, <2>4 DEF OutcomeInv, Ending, SUCCESS, ERROR
    <3> QED
      BY <3>1, <3>2, <3>3 DEF IInv
  <2> QED
    BY <1>5, <2>3, <2>4 DEF AllocResults
<1>6. CASE GenerateReport
  <2>1. /\ pc = "report" /\ UNCHANGED <<opt, er, eom_result_count>>
        /\ er \in Seq(Rows)
        /\ Len(er) = ResultCount(opt) /\ ret = SUCCESS /\ ~report.saved
    BY <1>6 DEF GenerateReport, IInv, TypeOK, ScanProgress, OutcomeInv, Ending
  <2>2. CASE pc' = "out" /\ ret' = ERROR /\ UNCHANGED report
    BY <2>1, <2>2 DEF IInv, SizeInv, ScanProgress, OutcomeInv, Early, Ending, Scanning,
       SUCCESS, ERROR
  <2>3. ASSUME pc' = "out", ret' = ret,
               NEW k \in IF DiskMayFill THEN 0 .. Len(er) ELSE {Len(er)},
               report' = [saved |-> TRUE, rows |-> SubSeq(er, 1, k)]
        PROVE  IInv'
    <3>1. /\ report'.saved /\ k \in 0 .. Len(er)
          /\ Len(report'.rows) = k
          /\ \A i \in 1 .. k : report'.rows[i] = er[i]
          /\ ~DiskMayFill => k = Len(er)
      <4>1. k \in 0 .. Len(er) /\ (~DiskMayFill => k = Len(er))
        BY <2>1, <2>3
      <4>2. Len(SubSeq(er, 1, k)) = k /\ \A i \in 1 .. k : SubSeq(er, 1, k)[i] = er[i]
        BY <2>1, <4>1
      <4> QED
        BY <2>3, <4>1, <4>2
    <3>2. SizeInv' /\ ScanProgress'
      BY <2>1, <2>3 DEF IInv, SizeInv, ScanProgress, Early, Scanning
    <3>3. OutcomeInv'
      BY <2>1, <2>3, <3>1 DEF OutcomeInv, Ending
    <3> QED
      BY <3>2, <3>3 DEF IInv
  <2> QED
    BY <1>6, <2>2, <2>3 DEF GenerateReport
<1>7. CASE FreeBuffers \/ CloseTmp \/ CloseBsg
  <2>1. /\ pc \in Ending /\ pc' \in Ending
        /\ UNCHANGED <<opt, cur, er, eom_result_count, ret, report>>
    BY <1>7 DEF FreeBuffers, CloseTmp, CloseBsg, Release, Ending
  <2> QED
    BY <2>1 DEF IInv, SizeInv, ScanProgress, OutcomeInv, Early, Ending, Scanning
<1> QED
  BY <1>1, <1>2, <1>3, <1>4, <1>5, <1>6, <1>7
     DEF Program, ConfigWrite, PollUnipro, Delay, DoIo, GetStart, GetTested, GetErrors,
         DisableMonitor, Scanning

LEMMA InvStep == IInv /\ [Next]_vars => IInv'
<1> SUFFICES ASSUME IInv, [Next]_vars PROVE IInv'
  OBVIOUS
<1>1. TypeOK'
  BY TypeStep DEF IInv
<1>2. CASE ConfigWrite
  <2>1. /\ pc = "config" /\ pc' \in {"config", "poll", "out"}
        /\ UNCHANGED <<er, opt, cur, eom_result_count, report>>
        /\ pc' = "out" => ret' = ERROR
        /\ pc' # "out" => ret' = ret
    BY <1>2 DEF ConfigWrite, Goto, Fail
  <2> QED
    BY <1>1, <2>1, InvQuiet DEF Scanning
<1>3. CASE PollUnipro \/ Delay
  BY <1>1, <1>3, InvQuiet DEF PollUnipro, Delay, Goto, Scanning
<1>4. CASE DoIo \/ GetStart \/ GetTested
  BY <1>1, <1>4, InvQuiet DEF DoIo, GetStart, GetTested, Goto, Fail, Scanning
<1>5. CASE GetErrors
  <2>1. pc = "errors" /\ UNCHANGED <<opt, eom_result_count, report>>
    BY <1>5 DEF GetErrors
  <2>2. CASE Answers(cur.l) /\ LogRow(mon[Mon].errors)
    <3>1. mon[Mon].errors \in Nat
      BY <2>2 DEF Answers, Mon, IInv, TypeOK, MonitorTypeOK, Monitors, MonitorStates,
         AcceptedOptions
    <3> QED
      BY <1>1, <2>1, <2>2, <3>1, InvLogRow
  <2>3. CASE UNCHANGED <<cur, er, ret>> /\ pc' = "io"
    BY <1>1, <2>1, <2>3, InvQuiet DEF Scanning
  <2>4. CASE UNCHANGED <<cur, er>> /\ pc' = "out" /\ ret' = ERROR
    BY <1>1, <2>1, <2>4, InvQuiet DEF Scanning
  <2> QED
    BY <1>5, <2>2, <2>3, <2>4 DEF GetErrors, Goto, Fail
<1>6. CASE DisableMonitor
  BY <1>1, <1>6, InvDisable
<1>7. CASE Program /\ pc \notin Scanning
  BY <1>1, <1>7, InvOutside
<1>8. CASE Hardware \/ UNCHANGED vars
  <2>1. UNCHANGED progVars
    BY <1>8 DEF Hardware, vars
  <2> QED
    BY <1>1, <2>1 DEF progVars, IInv, SizeInv, ScanProgress, OutcomeInv
<1>9. Program /\ pc \in Scanning =>
        \/ ConfigWrite \/ PollUnipro \/ Delay \/ DoIo \/ GetStart \/ GetTested
        \/ GetErrors \/ DisableMonitor
  BY DEF Program, Scanning, OpenBsg, CheckSupport, PrepareIo, ReadLimits, CheckRange,
     AllocResults, GenerateReport, FreeBuffers, CloseTmp, CloseBsg
<1> QED
  BY <1>2, <1>3, <1>4, <1>5, <1>6, <1>7, <1>8, <1>9 DEF Next, Terminated

LEMMA Invariance == Spec => []IInv
<1>1. Init => IInv
  BY InvInit
<1>2. IInv /\ [Next]_vars => IInv'
  BY InvStep
<1> QED
  BY <1>1, <1>2, PTL DEF Spec

\* For every range and number of lanes: no row is stored outside data->er.
THEOREM NoOverflow == Spec => []ResultsInBounds
<1>1. IInv => ResultsInBounds
  <2> SUFFICES ASSUME IInv PROVE ResultsInBounds
    OBVIOUS
  <2>1. Len(er) <= eom_result_count
    BY DEF IInv, SizeInv
  <2>2. ASSUME pc \in Scanning \ {"disable"} PROVE Len(er) < eom_result_count
    <3>1. eom_result_count = ResultCount(opt)
      BY <2>2 DEF IInv, SizeInv
    <3>2. /\ GridIndex(opt, cur.l, cur.t, cur.v) \in Nat
          /\ GridIndex(opt, cur.l, cur.t, cur.v) < ResultCount(opt)
      BY <2>2, CursorFacts
    <3>3. Len(er) = GridIndex(opt, cur.l, cur.t, cur.v) + 0
      BY <2>2 DEF IInv, ScanProgress
    <3> QED
      BY <3>1, <3>2, <3>3
  <2> QED
    BY <2>1, <2>2 DEF ResultsInBounds
<1> QED
  BY <1>1, Invariance, PTL

\* What is in data->er is at all times the beginning of the grid.
THEOREM RowsFollowGrid == Spec => []ScanProgress
<1>1. IInv => ScanProgress
  BY DEF IInv
<1> QED
  BY <1>1, Invariance, PTL

\* A run ends with SUCCESS exactly when there is a report, and a report has the
\* points of the grid in order: each of them once, unless the disk fills up.
THEOREM ReportComplete == Spec => []SuccessMeansComplete
<1>1. IInv => SuccessMeansComplete
  BY DEF IInv, ScanProgress, OutcomeInv, SuccessMeansComplete, Ending
<1> QED
  BY <1>1, Invariance, PTL

-----------------------------------------------------------------------------
(***************************************************************************)
(* What ufs-eom-plot.py relies on.                                         *)
(***************************************************************************)
\* main goes no further on a device without support, and no row is of another
\* lane than the loop has.
ReadableInv ==
    /\ pc \notin {"open", "support"} \cup Ending => Supported
    /\ report.saved => Supported
    /\ \A i \in 1 .. Len(er) : er[i].lane \in LaneNumbers

LEMMA ReadableStep ==
    ASSUME IInv, ReadableInv, [Next]_vars
    PROVE  ReadableInv'
<1>1. er \in Seq(Rows) /\ opt \in AcceptedOptions /\ cur \in Cursors
  BY DEF IInv, TypeOK
<1>2. (\A i \in 1 .. Len(er') : er'[i].lane \in LaneNumbers)
  <2>1. CASE er' = er
    BY <2>1 DEF ReadableInv
  <2>2. ASSUME pc \in Scanning, NEW e \in Nat, LogRow(e)
        PROVE  \A i \in 1 .. Len(er') : er'[i].lane \in LaneNumbers
    <3>1. cur.l \in LaneNumbers
      BY <1>1, <2>2 DEF IInv, ScanProgress, InGrid, AcceptedOptions, LaneNumbers, Cursors
    <3>2. PICK r : r.lane = cur.l /\ er' = Append(er, r)
      BY <2>2 DEF LogRow
    <3>3. /\ Len(er') = Len(er) + 1 /\ er'[Len(er) + 1].lane \in LaneNumbers
          /\ \A i \in 1 .. Len(er) : er'[i] = er[i]
      BY <1>1, <3>1, <3>2
    <3>4. \A i \in 1 .. Len(er') : i \in 1 .. Len(er) \/ i = Len(er) + 1
      BY <1>1, <3>3
    <3> QED
      BY <3>3, <3>4 DEF ReadableInv
  <2>3. er' = er \/ \E e \in Nat : pc \in Scanning /\ LogRow(e)
    <3>1. CASE GetErrors
      <4>1. cur.l \in Connected => mon[Mon].errors \in Nat
        BY MonitorAssumption DEF IInv, TypeOK, MonitorTypeOK, Mon, Monitors, MonitorStates,
           AcceptedOptions
      <4> QED
        BY <3>1, <4>1 DEF GetErrors, Answers, Scanning
    <3>2. CASE ~GetErrors
      BY <3>2 DEF Next, Program, Terminated, Hardware, vars, progVars, OpenBsg, CheckSupport,
         PrepareIo, ReadLimits, CheckRange, AllocResults, ConfigWrite, PollUnipro, Delay,
         DoIo, GetStart, GetTested, DisableMonitor, GenerateReport, FreeBuffers, CloseTmp,
         CloseBsg, Release
    <3> QED
      BY <3>1, <3>2
  <2> QED
    BY <2>1, <2>2, <2>3
<1>3. /\ pc' \notin {"open", "support"} \cup Ending => Supported'
      /\ report'.saved => Supported'
  <2>1. Supported' = Supported
    BY DEF Supported, Next, Program, Terminated, Hardware, vars, progVars, OpenBsg, CheckSupport,
       PrepareIo, ReadLimits, CheckRange, AllocResults, ConfigWrite, PollUnipro, Delay,
       DoIo, GetStart, GetTested, GetErrors, DisableMonitor, GenerateReport, FreeBuffers,
       CloseTmp, CloseBsg, Release
  <2>2. \/ pc' \in {"open", "support"} \cup Ending
        \/ pc \notin {"open", "support"} \cup Ending
        \/ Supported
    <3>1. CASE OpenBsg \/ CheckSupport \/ PrepareIo \/ ReadLimits \/ CheckRange
      BY <3>1 DEF OpenBsg, CheckSupport, PrepareIo, ReadLimits, CheckRange, Goto, Fail, Ending
    <3>2. CASE /\ Program
               /\ ~(OpenBsg \/ CheckSupport \/ PrepareIo \/ ReadLimits \/ CheckRange)
      BY <3>2 DEF Program, AllocResults, ConfigWrite, PollUnipro, Delay, DoIo, GetStart,
         GetTested, GetErrors, DisableMonitor, GenerateReport, FreeBuffers, CloseTmp,
         CloseBsg, Release, Goto, Ending
    <3>3. CASE Hardware \/ Terminated \/ UNCHANGED vars
      BY <3>3 DEF Hardware, Terminated, vars, progVars
    <3> QED
      BY <3>1, <3>2, <3>3 DEF Next
  <2>3. report' = report \/ pc = "report"
    BY DEF Next, Program, Terminated, Hardware, vars, progVars, OpenBsg, CheckSupport,
       PrepareIo, ReadLimits, CheckRange, AllocResults, ConfigWrite, PollUnipro, Delay,
       DoIo, GetStart, GetTested, GetErrors, DisableMonitor, GenerateReport, FreeBuffers,
       CloseTmp, CloseBsg, Release
  <2> QED
    BY <2>1, <2>2, <2>3 DEF ReadableInv, Ending
<1> QED
  BY <1>2, <1>3 DEF ReadableInv

\* A report is of a gear of 4 or more, has rows of lanes 0 and 1 only, and none
\* twice: so much EomPlot assumes of the reports that ufseom saves.
ReportReadable ==
    /\ caps.gear >= 4
    /\ \A i, j \in 1 .. Len(report.rows) :
         LET a == report.rows[i]
             b == report.rows[j]
         IN  /\ a.lane \in {0, 1}
             /\ <<a.lane, a.timing, a.volt>> = <<b.lane, b.timing, b.volt>> => i = j

\* Whatever the bounds and the failures, a report that is saved (ufs_eom.c:408-441)
\* is one that ufs-eom-plot.py reads to its end and takes every row of.
THEOREM ReportsReadable == Spec => [](report.saved => ReportReadable)
<1>1. ASSUME IInv, ReadableInv, report.saved PROVE ReportReadable
  <2>1. \A k \in 1 .. Len(report.rows) : k \in 1 .. Len(er) /\ report.rows[k] = er[k]
    BY <1>1 DEF IInv, OutcomeInv
  <2>2. \A k \in 1 .. Len(er) : GridIndex(opt, er[k].lane, er[k].timing, er[k].volt) = k - 1
    BY <1>1 DEF IInv, ScanProgress
  <2>3. caps.gear >= 4
    BY <1>1 DEF ReadableInv, Supported, EOM_SUPPORTED_MIN_GEAR
  <2>4. ASSUME NEW i \in 1 .. Len(report.rows), NEW j \in 1 .. Len(report.rows)
        PROVE  /\ report.rows[i].lane \in {0, 1}
               /\ <<report.rows[i].lane, report.rows[i].timing, report.rows[i].volt>>
                    = <<report.rows[j].lane, report.rows[j].timing, report.rows[j].volt>>
                      => i = j
    <3>1. report.rows[i].lane \in {0, 1}
      BY <1>1, <2>1 DEF ReadableInv, LaneNumbers
    <3>2. ASSUME report.rows[i].lane = report.rows[j].lane,
                 report.rows[i].timing = report.rows[j].timing,
                 report.rows[i].volt = report.rows[j].volt
          PROVE  i = j
      <4>1. i - 1 = j - 1
        BY <2>1, <2>2, <3>2
      <4> QED
        BY <4>1
    <3> QED
      BY <3>1, <3>2
  <2> QED
    BY <2>3, <2>4 DEF ReportReadable
<1>2. Init => ReadableInv
  BY DEF Init, ReadableInv
<1>3. Spec => []ReadableInv
  <2>1. IInv /\ ReadableInv /\ [Next]_vars => ReadableInv'
    BY ReadableStep
  <2> QED
    BY <1>2, <2>1, Invariance, PTL DEF Spec
<1>4. IInv /\ ReadableInv => (report.saved => ReportReadable)
  BY <1>1
<1> QED
  BY <1>3, <1>4, Invariance, PTL
=============================================================================
