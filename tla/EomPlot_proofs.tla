--------------------------- MODULE EomPlot_proofs ---------------------------
(***************************************************************************)
(* Theorems about ufs-eom-plot.py, for every report it is given.           *)
(***************************************************************************)
EXTENDS EomPlot, FiniteSetTheorems, WellFoundedInduction, TLAPS

\* Row i of the file is of this point of this lane.
IsRow(i, l, p) == file[i].kind = "row" /\ file[i].lane = l /\ <<file[i].t, file[i].v>> = p

\* Of the first n lines the last that is of this point says e.
LastSays(l, p, e, n) ==
    \E i \in 1 .. n : IsRow(i, l, p) /\ file[i].e = e /\ \A j \in i + 1 .. n : ~IsRow(j, l, p)

\* A number of steps and an offset that were read, or neither.
Limits == [steps : Nat, offset : Nat]
LimitsRead(axis) == axis.offset # 0 => axis.steps > 0

PlotTypeOK ==
    /\ pc \in {"read", "fill", "plot"} \cup Ends
    /\ file \in Files
    /\ line_no \in 0 .. Len(file)
    /\ timing \in Limits /\ LimitsRead(timing)
    /\ voltage \in Limits /\ LimitsRead(voltage)
    /\ IsOptional(ufs_gear, Nat)
    /\ gear \in Nat
    /\ lane_list \in Seq(Nat) /\ IsInjective(lane_list)
    /\ data = [l \in PlotLanes |-> data[l]]
    /\ \A l \in PlotLanes : /\ data[l] = [p \in DOMAIN data[l] |-> data[l][p]]
                            /\ DOMAIN data[l] \subseteq Int \X Int
                            /\ \A p \in DOMAIN data[l] : data[l][p] \in Nat
    /\ bad_data_count \in Nat
    /\ eye_center = [l \in PlotLanes |-> eye_center[l]]
    /\ \A l \in PlotLanes : IsOptional(eye_center[l], Int)
    /\ skip_result \in BOOLEAN
    /\ plotted \in 0 .. Len(lane_list)
    /\ verdict \in [PlotLanes -> {"none", "PASS", "FAIL"}]

\* Unless a row was bad the data are those of the rows so far, the last one of a
\* point counting.
RowsKept ==
    /\ \A i \in 1 .. line_no : file[i].kind = "row" => file[i].lane \in Range(lane_list)
    /\ pc \in {"read", "fill"} /\ bad_data_count = 0 =>
        /\ Range(lane_list) \subseteq PlotLanes
        /\ \A i \in 1 .. line_no :
             file[i].kind = "row" => <<file[i].t, file[i].v>> \in DOMAIN data[file[i].lane]
        /\ \A l \in PlotLanes : \A p \in DOMAIN data[l] : LastSays(l, p, data[l][p], line_no)

\* What the loop over the lanes starts from, and does not change.
WholeFile ==
    pc \in {"fill", "plot", "plotted"} =>
        line_no = Len(file) /\ bad_data_count = 0 /\ timing.steps > 0 /\ voltage.steps > 0

GridKnown ==
    pc \in {"plot", "plotted"} =>
        /\ Range(lane_list) \subseteq PlotLanes
        /\ \A l \in Range(lane_list) :
             /\ Grid \subseteq DOMAIN data[l]
             /\ \A p : Measured(l, p) => p \in DOMAIN data[l]
             /\ \A p \in DOMAIN data[l] :
                  data[l][p] = IF Measured(l, p) THEN Errors(l, p) ELSE INVALID_ERROR_COUNT

\* No report has the count of errors that stands for none.
CountsTell ==
    \A f \in Files : \A i \in 1 .. Len(f) : f[i].kind = "row" => f[i].e # INVALID_ERROR_COUNT

\* The lanes that were plotted have their centre and, if CountsTell, what their
\* verdicts say is so; a verdict is skipped only after a lane that lacks a point.
LanesPlotted ==
    /\ pc \notin {"plot", "plotted"} => plotted = 0
    /\ plotted = 0 => ~skip_result
    /\ pc = "plotted" => plotted = Len(lane_list)
    /\ \A l \in PlottedLanes : eye_center[l] = EyeCenter(l)
    /\ CountsTell =>
         /\ VerdictHonest
         /\ skip_result => \E k \in PlottedLanes : Unmeasured(k) # {}

PlotInv == PlotTypeOK /\ RowsKept /\ WholeFile /\ GridKnown /\ LanesPlotted
-----------------------------------------------------------------------------
(***************************************************************************)
(* Least and greatest elements.                                            *)
(***************************************************************************)
LEMMA LeastOf ==
    ASSUME NEW S, S \subseteq Nat, S # {}
    PROVE  Min(S) \in S /\ \A y \in S : Min(S) <= y
<1> DEFINE R == OpToRel(<, Nat)
<1>1. IsWellFoundedOn(R, Nat)
  BY NatLessThanWellFounded, Zenon
<1>2. \A x, y \in Nat : <<y, x>> \in R <=> y < x
  BY DEF OpToRel
<1> HIDE DEF R
<1>3. PICK x \in S : \A y \in S : ~(<<y, x>> \in R)
  BY <1>1, WFMin
<1>4. ASSUME NEW y \in S PROVE x <= y
  <2>1. x \in Nat /\ y \in Nat /\ ~(<<y, x>> \in R)
    BY <1>3
  <2>2. ~(y < x)
    BY <1>2, <2>1
  <2> QED
    BY <2>1, <2>2
<1> QED
  BY <1>4 DEF Min

LEMMA GreatestOf ==
    ASSUME NEW S, S \subseteq Int, NEW m \in S, \A y \in S : m >= y
    PROVE  Max(S) = m
<1>1. Max(S) \in S /\ \A y \in S : Max(S) >= y
  BY DEF Max
<1>2. Max(S) \in Int /\ m \in Int /\ Max(S) >= m /\ m >= Max(S)
  BY <1>1
<1> QED
  BY <1>2

LEMMA GreatestUpTo ==
    ASSUME NEW n \in Nat, NEW S, S \subseteq 1 .. n, S # {}
    PROVE  Max(S) \in S /\ \A y \in S : Max(S) >= y
<1> DEFINE T == {n - i : i \in S}
<1>1. T \subseteq Nat /\ T # {} /\ \A i \in S : n - i \in T
  <2>1. \A i \in 1 .. n : n - i \in Nat
    OBVIOUS
  <2> QED
    BY <2>1
<1>2. Min(T) \in T /\ \A y \in T : Min(T) <= y
  <2> HIDE DEF T
  <2> QED
    BY <1>1, LeastOf
<1>3. PICK i \in S : Min(T) = n - i
  BY <1>2
<1>4. \A y \in S : n - i <= n - y
  BY <1>1, <1>2, <1>3
<1>5. i \in S /\ S \subseteq Int /\ \A y \in S : i >= y
  BY <1>4
<1> HIDE DEF T
<1>6. Max(S) = i
  BY <1>5, GreatestOf
<1> QED
  BY <1>5, <1>6

-----------------------------------------------------------------------------
(***************************************************************************)
(* The lines of a file.                                                    *)
(***************************************************************************)
LEMMA OptionalValue ==
    ASSUME NEW x
    PROVE  The(Some(x)) = x /\ Some(x) # None
BY DEF The, Some, None

LEMMA LineTypes ==
    ASSUME file \in Files, NEW i \in 1 .. Len(file)
    PROVE  /\ file[i].kind \in {"title", "other", "gear", "timing", "voltage", "row"}
           /\ file[i].kind = "gear" => file[i].gear \in Nat
           /\ file[i].kind \in {"timing", "voltage"} =>
                IsOptional(file[i].steps, Nat) /\ file[i].offset \in Nat
           /\ file[i].kind = "row" =>
                /\ file[i].lane \in Nat /\ file[i].t \in Int /\ file[i].v \in Int
                /\ file[i].e \in Nat
<1>1. IsFile(file)
  BY PlotAssumption
<1>2. file[i] \in Lines
  BY <1>1 DEF IsFile
<1>3. file[i].kind \in {"timing", "voltage"} => IsOptional(file[i].steps, Nat)
  BY <1>1 DEF IsFile
<1>4. TitleLine.kind = "title" /\ OtherLine.kind = "other"
  BY DEF TitleLine, OtherLine
<1> QED
  BY <1>2, <1>3, <1>4 DEF Lines

LEMMA FileLength == file \in Files => file \in Seq(Lines) /\ Len(file) \in Nat
BY PlotAssumption DEF IsFile

LEMMA PlotInit == Init => PlotInv
<1> SUFFICES ASSUME Init PROVE PlotInv
  OBVIOUS
<1>1. Len(file) \in Nat /\ Len(lane_list) = 0 /\ lane_list = <<>>
  BY FileLength DEF Init
<1>2. <<>> \in Seq(Nat) /\ IsInjective(<<>>)
  BY DEF IsInjective
<1>3. \A l \in PlotLanes : data[l] = <<>> /\ eye_center[l] = None
  BY DEF Init
<1>4. <<>> = [p \in DOMAIN <<>> |-> <<>>[p]] /\ DOMAIN <<>> = {}
  OBVIOUS
<1>5. PlotTypeOK
  <2>1. pc \in {"read", "fill", "plot"} \cup Ends /\ file \in Files
    BY DEF Init
  <2>2. line_no \in 0 .. Len(file) /\ plotted \in 0 .. Len(lane_list)
    BY <1>1 DEF Init
  <2>3. timing \in Limits /\ LimitsRead(timing) /\ voltage \in Limits /\ LimitsRead(voltage)
    BY DEF Init, Limits, LimitsRead
  <2>4. IsOptional(ufs_gear, Nat) /\ gear \in Nat /\ bad_data_count \in Nat
    BY DEF Init, IsOptional
  <2>5. lane_list \in Seq(Nat) /\ IsInjective(lane_list)
    BY <1>1, <1>2
  <2>6. /\ data = [l \in PlotLanes |-> data[l]]
        /\ eye_center = [l \in PlotLanes |-> eye_center[l]]
    BY DEF Init
  <2>7. \A l \in PlotLanes : /\ data[l] = [p \in DOMAIN data[l] |-> data[l][p]]
                              /\ DOMAIN data[l] \subseteq Int \X Int
                              /\ \A p \in DOMAIN data[l] : data[l][p] \in Nat
    BY <1>3, <1>4
  <2>8. \A l \in PlotLanes : IsOptional(eye_center[l], Int)
    BY <1>3 DEF IsOptional
  <2>9. skip_result \in BOOLEAN /\ verdict \in [PlotLanes -> {"none", "PASS", "FAIL"}]
    BY DEF Init
  <2> QED
    BY <2>1, <2>2, <2>3, <2>4, <2>5, <2>6, <2>7, <2>8, <2>9 DEF PlotTypeOK
<1>6. RowsKept
  BY <1>1, <1>3, <1>4 DEF Init, RowsKept, Range
<1>7. LanesPlotted
  BY DEF Init, LanesPlotted, PlottedLanes, VerdictHonest
<1> QED
  BY <1>5, <1>6, <1>7 DEF Init, PlotInv, WholeFile, GridKnown

-----------------------------------------------------------------------------
(***************************************************************************)
(* The lines that are no rows.                                             *)
(***************************************************************************)
LEMMA LineAtHand ==
    ASSUME PlotInv, NEW kind, Reads(kind)
    PROVE  /\ pc = "read" /\ Line.kind = kind
           /\ line_no + 1 \in 1 .. Len(file)
           /\ line_no' = line_no + 1 /\ line_no \in Nat /\ Len(file) \in Nat
           /\ plotted = 0
BY FileLength DEF PlotInv, PlotTypeOK, Reads, LanesPlotted

LEMMA NoRow ==
    ASSUME PlotInv, NEW kind, Reads(kind), kind # "row",
           UNCHANGED <<file, lane_list, data, bad_data_count>>
    PROVE  RowsKept'
<1>1. /\ pc = "read" /\ Line.kind # "row" /\ line_no' = line_no + 1 /\ line_no \in Nat
  BY LineAtHand
<1>2. \A i \in 1 .. line_no' : file[i].kind = "row" => i \in 1 .. line_no
  BY <1>1 DEF Line
<1>3. Range(lane_list)' = Range(lane_list)
  BY DEF Range
<1>4. ASSUME NEW l, NEW p, NEW e, LastSays(l, p, e, line_no)
      PROVE  LastSays(l, p, e, line_no)'
  <2>1. PICK i \in 1 .. line_no :
           IsRow(i, l, p) /\ file[i].e = e /\ \A j \in i + 1 .. line_no : ~IsRow(j, l, p)
    BY <1>4 DEF LastSays
  <2>2. \A j \in i + 1 .. line_no' : ~IsRow(j, l, p)
    BY <1>1, <2>1 DEF IsRow, Line
  <2>3. i \in 1 .. line_no'
    BY <1>1
  <2>4. \A j : IsRow(j, l, p)' <=> IsRow(j, l, p)
    BY DEF IsRow
  <2> QED
    BY <2>1, <2>2, <2>3, <2>4 DEF LastSays
<1>5. \A i \in 1 .. line_no' : file'[i].kind = "row" => file'[i].lane \in Range(lane_list)
  BY <1>2 DEF PlotInv, RowsKept
<1>6. ASSUME bad_data_count = 0
      PROVE  /\ Range(lane_list) \subseteq PlotLanes
             /\ \A i \in 1 .. line_no' :
                  file[i].kind = "row" => <<file[i].t, file[i].v>> \in DOMAIN data[file[i].lane]
             /\ \A l \in PlotLanes : \A p \in DOMAIN data[l] :
                  LastSays(l, p, data[l][p], line_no)'
  BY <1>1, <1>2, <1>4, <1>6 DEF PlotInv, RowsKept
<1> QED
  BY <1>3, <1>5, <1>6 DEF RowsKept

LEMMA PlotLimits ==
    ASSUME PlotInv, ReadTiming \/ ReadVoltage
    PROVE  PlotInv'
<1>1. PICK kind \in {"timing", "voltage"} : Reads(kind)
  BY DEF ReadTiming, ReadVoltage
<1>2. /\ pc = "read" /\ line_no' \in 0 .. Len(file) /\ plotted = 0
      /\ IsOptional(Line.steps, Nat) /\ Line.offset \in Nat
  BY <1>1, LineAtHand, LineTypes DEF PlotInv, PlotTypeOK, Line
<1>3. UNCHANGED <<file, ufs_gear, gear, lane_list, data, bad_data_count, plotVars>>
  BY DEF ReadTiming, ReadVoltage
<1>4. RowsKept'
  BY <1>1, <1>3, NoRow
<1>5. /\ pc' \in {"read", "quit"}
      /\ timing' \in Limits /\ LimitsRead(timing)'
      /\ voltage' \in Limits /\ LimitsRead(voltage)'
  <2>1. ASSUME Line.steps \notin {None, Some(0)}
        PROVE  The(Line.steps) \in Nat /\ The(Line.steps) > 0
    BY <1>2, <2>1 DEF IsOptional
  <2>2. timing \in Limits /\ LimitsRead(timing) /\ voltage \in Limits /\ LimitsRead(voltage)
    BY DEF PlotInv, PlotTypeOK
  <2>3. CASE ReadTiming
    BY <1>2, <2>1, <2>2, <2>3 DEF ReadTiming, ReadLimits, Goto, Limits, LimitsRead
  <2>4. CASE ReadVoltage
    BY <1>2, <2>1, <2>2, <2>4 DEF ReadVoltage, ReadLimits, Goto, Limits, LimitsRead
  <2> QED
    BY <2>3, <2>4
<1>6. PlotTypeOK'
  BY <1>2, <1>3, <1>5 DEF PlotInv, PlotTypeOK, Ends, plotVars
<1>7. LanesPlotted'
  BY <1>2, <1>3, <1>5 DEF PlotInv, LanesPlotted, PlottedLanes, VerdictHonest, plotVars
<1> QED
  BY <1>4, <1>5, <1>6, <1>7 DEF PlotInv, WholeFile, GridKnown

LEMMA PlotOther ==
    ASSUME PlotInv, ReadGear \/ ReadOther
    PROVE  PlotInv'
<1>1. PICK kind \in {"gear", "title", "other"} : Reads(kind) /\ (ReadGear => kind = "gear")
  BY DEF ReadGear, ReadOther
<1>2. /\ pc = "read" /\ line_no' \in 0 .. Len(file) /\ plotted = 0
  BY <1>1, LineAtHand
<1>3. UNCHANGED <<pc, file, timing, voltage, gear, lane_list, data, bad_data_count, plotVars>>
  BY DEF ReadGear, ReadOther
<1>4. RowsKept'
  BY <1>1, <1>3, NoRow
<1>5. IsOptional(ufs_gear', Nat)
  <2>1. CASE ReadGear
    <3>1. Line.gear \in Nat /\ ufs_gear' = Some(Line.gear)
      BY <1>1, <2>1, LineAtHand, LineTypes DEF PlotInv, PlotTypeOK, Line, ReadGear
    <3> QED
      BY <3>1, OptionalValue DEF IsOptional
  <2>2. CASE ReadOther
    BY <2>2 DEF ReadOther, PlotInv, PlotTypeOK
  <2> QED
    BY <2>1, <2>2
<1>6. PlotTypeOK'
  BY <1>2, <1>3, <1>5 DEF PlotInv, PlotTypeOK, plotVars
<1>7. LanesPlotted'
  BY <1>2, <1>3 DEF PlotInv, LanesPlotted, PlottedLanes, VerdictHonest, plotVars
<1> QED
  BY <1>2, <1>3, <1>4, <1>6, <1>7 DEF PlotInv, WholeFile, GridKnown

-----------------------------------------------------------------------------
(***************************************************************************)
(* Rows.                                                                   *)
(***************************************************************************)
LEMMA LaneAdded ==
    ASSUME lane_list \in Seq(Nat), IsInjective(lane_list), NEW l \in Nat
    PROVE  /\ WithLane(l) \in Seq(Nat) /\ IsInjective(WithLane(l))
           /\ Range(WithLane(l)) = Range(lane_list) \cup {l}
<1>1. CASE l \in Range(lane_list)
  BY <1>1 DEF WithLane
<1>2. CASE l \notin Range(lane_list)
  <2> DEFINE s == Append(lane_list, l)
             n == Len(lane_list)
  <2>1. /\ s \in Seq(Nat) /\ n \in Nat
        /\ DOMAIN lane_list = 1 .. n /\ DOMAIN s = 1 .. n + 1
        /\ s[n + 1] = l /\ \A i \in 1 .. n : s[i] = lane_list[i]
    OBVIOUS
  <2>2. \A i \in 1 .. n : s[i] # l
    BY <1>2, <2>1 DEF Range
  <2>3. IsInjective(s)
    <3> SUFFICES ASSUME NEW a \in 1 .. n + 1, NEW b \in 1 .. n + 1, s[a] = s[b]
                 PROVE  a = b
      BY <2>1 DEF IsInjective
    <3>1. \A i \in 1 .. n + 1 : i \in 1 .. n \/ i = n + 1
      BY <2>1
    <3>2. CASE a = n + 1 \/ b = n + 1
      BY <2>1, <2>2, <3>1, <3>2
    <3>3. CASE a \in 1 .. n /\ b \in 1 .. n
      BY <2>1, <3>3 DEF IsInjective
    <3> QED
      BY <3>1, <3>2, <3>3
  <2>4. Range(s) = Range(lane_list) \cup {l}
    <3>1. \A i \in 1 .. n + 1 : i \in 1 .. n \/ i = n + 1
      BY <2>1
    <3>2. Range(s) \subseteq Range(lane_list) \cup {l}
      BY <2>1, <3>1 DEF Range
    <3>3. /\ l \in Range(s)
          /\ \A i \in 1 .. n : lane_list[i] \in Range(s)
      <4>1. n + 1 \in DOMAIN s /\ \A i \in 1 .. n : i \in DOMAIN s
        BY <2>1
      <4> HIDE DEF s
      <4> QED
        BY <2>1, <4>1 DEF Range
    <3> QED
      BY <2>1, <3>2, <3>3 DEF Range
  <2> QED
    BY <1>2, <2>1, <2>3, <2>4 DEF WithLane
<1> QED
  BY <1>1, <1>2

LEMMA RowStored ==
    ASSUME PlotTypeOK, NEW r, r.lane \in PlotLanes, data' = Stored(r)
    PROVE  /\ data' = [l \in PlotLanes |-> data'[l]]
           /\ \A l \in PlotLanes \ {r.lane} : data'[l] = data[l]
           /\ DOMAIN data'[r.lane] = DOMAIN data[r.lane] \cup {<<r.t, r.v>>}
           /\ data'[r.lane] = [p \in DOMAIN data'[r.lane] |-> data'[r.lane][p]]
           /\ data'[r.lane][<<r.t, r.v>>] = r.e
           /\ \A p \in DOMAIN data[r.lane] \ {<<r.t, r.v>>} :
                data'[r.lane][p] = data[r.lane][p]
<1> DEFINE at == <<r.t, r.v>>
           old == data[r.lane]
           new == [p \in DOMAIN old \cup {at} |-> IF p = at THEN r.e ELSE old[p]]
<1>1. data' = [data EXCEPT ![r.lane] = new]
  BY DEF Stored
<1>2. /\ DOMAIN new = DOMAIN old \cup {at} /\ new[at] = r.e
      /\ \A p \in DOMAIN old \ {at} : new[p] = old[p]
      /\ new = [p \in DOMAIN new |-> new[p]]
  OBVIOUS
<1> HIDE DEF new
<1>3. /\ data' = [l \in PlotLanes |-> data'[l]] /\ data'[r.lane] = new
      /\ \A l \in PlotLanes \ {r.lane} : data'[l] = data[l]
  BY <1>1 DEF PlotTypeOK
<1> QED
  BY <1>2, <1>3

LEMMA PlotRow ==
    ASSUME PlotInv, ReadRow
    PROVE  PlotInv'
<1> DEFINE at == <<Line.t, Line.v>>
<1>1. Reads("row")
  BY DEF ReadRow
<1>2. /\ pc = "read" /\ Line.kind = "row" /\ plotted = 0 /\ Line = file[line_no + 1]
      /\ line_no \in Nat /\ line_no' = line_no + 1 /\ line_no' \in 1 .. Len(file)
  BY <1>1, LineAtHand DEF Line
<1>3. Line.lane \in Nat /\ Line.t \in Int /\ Line.v \in Int /\ Line.e \in Nat
  BY <1>2, LineTypes DEF PlotInv, PlotTypeOK
<1>4. /\ lane_list' \in Seq(Nat) /\ IsInjective(lane_list)'
      /\ Range(lane_list') = Range(lane_list) \cup {Line.lane}
  BY <1>3, LaneAdded DEF PlotInv, PlotTypeOK, ReadRow
<1>5. UNCHANGED <<file, timing, voltage, ufs_gear, plotVars>>
  BY DEF ReadRow
<1>6. \A i \in 1 .. line_no' : i \in 1 .. line_no \/ i = line_no + 1
  BY <1>2
<1>7. \A i \in 1 .. line_no' : file'[i].kind = "row" => file'[i].lane \in Range(lane_list')
  BY <1>2, <1>4, <1>5, <1>6 DEF PlotInv, RowsKept
<1>8. /\ pc' \in {"read", "refused", "quit"} /\ gear' \in Nat /\ bad_data_count' \in Nat
      /\ \/ data' = data /\ (pc' \in {"refused", "quit"} \/ bad_data_count' > 0)
         \/ Line.lane \in PlotLanes /\ data' = Stored(Line) /\ bad_data_count' = bad_data_count
  <2>1. gear \in Nat /\ bad_data_count \in Nat /\ IsOptional(ufs_gear, Nat)
    BY DEF PlotInv, PlotTypeOK
  <2>2. CASE ufs_gear = None
    BY <1>2, <2>1, <2>2 DEF ReadRow
  <2>3. CASE ufs_gear # None
    <3>1. gear' \in Nat /\ bad_data_count' = bad_data_count
      BY <2>1, <2>3 DEF ReadRow, IsOptional
    <3> QED
      BY <1>2, <2>1, <2>3, <3>1 DEF ReadRow, Goto
  <2> QED
    BY <2>2, <2>3
<1>9. plotted' = 0 /\ 0 \in 0 .. Len(lane_list')
  BY <1>2, <1>4, <1>5 DEF plotVars
<1>10. LanesPlotted'
  BY <1>2, <1>5, <1>8, <1>9 DEF PlotInv, LanesPlotted, PlottedLanes, VerdictHonest, plotVars
<1>11. CASE data' = data /\ (pc' \in {"refused", "quit"} \/ bad_data_count' > 0)
  <2>1. PlotTypeOK'
    BY <1>2, <1>4, <1>5, <1>8, <1>9, <1>11 DEF PlotInv, PlotTypeOK, Ends, plotVars
  <2>2. RowsKept'
    BY <1>5, <1>7, <1>8, <1>11 DEF RowsKept
  <2> QED
    BY <1>8, <1>10, <2>1, <2>2 DEF PlotInv, WholeFile, GridKnown
<1>12. CASE /\ Line.lane \in PlotLanes /\ data' = Stored(Line)
            /\ bad_data_count' = bad_data_count
  <2> DEFINE lane == Line.lane
  <2>1. /\ data' = [l \in PlotLanes |-> data'[l]]
        /\ \A l \in PlotLanes \ {lane} : data'[l] = data[l]
        /\ DOMAIN data'[lane] = DOMAIN data[lane] \cup {at}
        /\ data'[lane] = [p \in DOMAIN data'[lane] |-> data'[lane][p]]
        /\ data'[lane][at] = Line.e
        /\ \A p \in DOMAIN data[lane] \ {at} : data'[lane][p] = data[lane][p]
    BY <1>12, RowStored DEF PlotInv
  <2>2. at \in Int \X Int
    BY <1>3
  <2> HIDE DEF at
  <2>3. \A l \in PlotLanes : /\ data'[l] = [p \in DOMAIN data'[l] |-> data'[l][p]]
                            /\ DOMAIN data'[l] \subseteq Int \X Int
                            /\ \A p \in DOMAIN data'[l] : data'[l][p] \in Nat
    <3> SUFFICES ASSUME NEW l \in PlotLanes
                 PROVE  /\ data'[l] = [p \in DOMAIN data'[l] |-> data'[l][p]]
                        /\ DOMAIN data'[l] \subseteq Int \X Int
                        /\ \A p \in DOMAIN data'[l] : data'[l][p] \in Nat
      OBVIOUS
    <3>2. CASE l # lane
      BY <2>1, <3>2 DEF PlotInv, PlotTypeOK
    <3>3. CASE l = lane
      <4>1. DOMAIN data[lane] \subseteq Int \X Int /\ \A p \in DOMAIN data[lane] : data[lane][p] \in Nat
        BY <1>12 DEF PlotInv, PlotTypeOK
      <4> QED
        BY <1>3, <2>1, <2>2, <3>3, <4>1
    <3> QED
      BY <3>2, <3>3
  <2>4. PlotTypeOK'
    BY <1>2, <1>4, <1>5, <1>8, <1>9, <2>1, <2>3 DEF PlotInv, PlotTypeOK, Ends, plotVars
  <2>5. ASSUME bad_data_count = 0
        PROVE  /\ Range(lane_list') \subseteq PlotLanes
               /\ \A i \in 1 .. line_no' : file[i].kind = "row" =>
                    <<file[i].t, file[i].v>> \in DOMAIN data'[file[i].lane]
               /\ \A l \in PlotLanes : \A p \in DOMAIN data'[l] :
                    LastSays(l, p, data[l][p], line_no)'
    <3>1. /\ Range(lane_list) \subseteq PlotLanes
          /\ \A i \in 1 .. line_no : file[i].kind = "row" =>
               <<file[i].t, file[i].v>> \in DOMAIN data[file[i].lane]
          /\ \A l \in PlotLanes : \A p \in DOMAIN data[l] : LastSays(l, p, data[l][p], line_no)
      BY <1>2, <2>5 DEF PlotInv, RowsKept
    <3>2. \A i \in 1 .. line_no : file[i].kind = "row" => file[i].lane \in PlotLanes
      BY <3>1 DEF PlotInv, RowsKept
    <3>3. \A l \in PlotLanes : DOMAIN data[l] \subseteq DOMAIN data'[l]
      BY <2>1
    <3>4. \A i \in 1 .. line_no' : file[i].kind = "row" =>
            <<file[i].t, file[i].v>> \in DOMAIN data'[file[i].lane]
      BY <1>2, <1>6, <2>1, <3>1, <3>2, <3>3 DEF at
    <3>5. ASSUME NEW l \in PlotLanes, NEW p \in DOMAIN data'[l]
          PROVE  LastSays(l, p, data[l][p], line_no)'
      <4>1. \A i \in 1 .. line_no' : IsRow(i, l, p)' <=> IsRow(i, l, p)
        BY <1>5 DEF IsRow
      <4>2. CASE l = lane /\ p = at
        <5>1. IsRow(line_no', l, p)
          BY <1>2, <4>2 DEF IsRow, at
        <5>2. file'[line_no'].e = data'[l][p]
          BY <1>2, <1>5, <2>1, <4>2
        <5>3. line_no' \in 1 .. line_no' /\ \A j \in line_no' + 1 .. line_no' : FALSE
          BY <1>2
        <5> QED
          BY <4>1, <5>1, <5>2, <5>3 DEF LastSays
      <4>3. CASE ~(l = lane /\ p = at)
        <5>1. p \in DOMAIN data[l] /\ data'[l][p] = data[l][p]
          BY <2>1, <4>3
        <5>2. PICK i \in 1 .. line_no : /\ IsRow(i, l, p) /\ file[i].e = data[l][p]
                                        /\ \A j \in i + 1 .. line_no : ~IsRow(j, l, p)
          BY <3>1, <5>1 DEF LastSays
        <5>3. ~IsRow(line_no + 1, l, p)
          BY <1>2, <4>3 DEF IsRow, at
        <5>4. i \in 1 .. line_no' /\ \A j \in i + 1 .. line_no' : j \in i + 1 .. line_no \/ j = line_no + 1
          BY <1>2
        <5>5. \A j \in i + 1 .. line_no' : j \in 1 .. line_no' /\ ~IsRow(j, l, p)
          BY <1>2, <5>2, <5>3, <5>4
        <5> QED
          BY <1>5, <4>1, <5>1, <5>2, <5>4, <5>5 DEF LastSays
      <4> QED
        BY <4>2, <4>3
    <3> QED
      BY <1>4, <1>12, <3>1, <3>4, <3>5
  <2>6. RowsKept'
    BY <1>5, <1>7, <1>8, <1>12, <2>5 DEF RowsKept
  <2> QED
    BY <1>8, <1>10, <2>4, <2>6 DEF PlotInv, WholeFile, GridKnown
<1> QED
  BY <1>8, <1>11, <1>12

-----------------------------------------------------------------------------
(***************************************************************************)
(* The end of the file and the points without a row.                       *)
(***************************************************************************)
LEMMA LastCounts ==
    ASSUME file \in Files, NEW l, NEW p, NEW e, LastSays(l, p, e, Len(file))
    PROVE  Measured(l, p) /\ Errors(l, p) = e
<1>1. Len(file) \in Nat
  BY FileLength
<1>2. PICK i \in 1 .. Len(file) :
         IsRow(i, l, p) /\ file[i].e = e /\ \A j \in i + 1 .. Len(file) : ~IsRow(j, l, p)
  BY DEF LastSays
<1>3. RowsFor(l, p) = {j \in 1 .. Len(file) : IsRow(j, l, p)}
  BY DEF RowsFor, IsRow
<1>4. i \in RowsFor(l, p) /\ RowsFor(l, p) \subseteq Int
  BY <1>2, <1>3
<1>5. ASSUME NEW j \in RowsFor(l, p) PROVE i >= j
  <2>1. j \in 1 .. Len(file) /\ j \notin i + 1 .. Len(file)
    BY <1>2, <1>3, <1>5
  <2> QED
    BY <1>1, <2>1
<1>6. Max(RowsFor(l, p)) = i
  BY <1>4, <1>5, GreatestOf
<1> QED
  BY <1>2, <1>4, <1>6 DEF Measured, Errors

LEMMA PlotEndOfFile ==
    ASSUME PlotInv, EndOfFile
    PROVE  PlotInv'
<1>1. /\ pc = "read" /\ line_no = Len(file) /\ pc' \in {"refused", "quit", "fill"}
      /\ pc' = "fill" => bad_data_count = 0 /\ timing.offset # 0 /\ voltage.offset # 0
      /\ UNCHANGED <<file, line_no, timing, voltage, ufs_gear, gear, lane_list, data,
                     bad_data_count, plotVars>>
  BY DEF EndOfFile, Goto
<1>2. PlotTypeOK'
  BY <1>1 DEF PlotInv, PlotTypeOK, Ends, plotVars
<1>3. RowsKept'
  <2>1. \A l, p, e : LastSays(l, p, e, line_no)' <=> LastSays(l, p, e, line_no)
    BY <1>1 DEF LastSays, IsRow
  <2> QED
    BY <1>1, <2>1 DEF PlotInv, RowsKept
<1>4. WholeFile'
  BY <1>1 DEF PlotInv, PlotTypeOK, LimitsRead, WholeFile
<1>5. LanesPlotted'
  BY <1>1 DEF PlotInv, LanesPlotted, PlottedLanes, VerdictHonest, plotVars
<1> QED
  BY <1>1, <1>2, <1>3, <1>4, <1>5 DEF PlotInv, GridKnown

LEMMA GridPoints ==
    ASSUME PlotInv
    PROVE  Grid \subseteq Int \X Int
BY DEF PlotInv, PlotTypeOK, Limits, Grid, Points

LEMMA PlotFill ==
    ASSUME PlotInv, FillGrid
    PROVE  PlotInv'
<1>1. /\ pc = "fill" /\ pc' = "plot" /\ line_no = Len(file) /\ bad_data_count = 0
      /\ UNCHANGED <<file, line_no, timing, voltage, ufs_gear, gear, lane_list,
                     bad_data_count, plotVars>>
      /\ file \in Files
  BY DEF FillGrid, Goto, PlotInv, WholeFile, PlotTypeOK
<1>2. /\ Range(lane_list) \subseteq PlotLanes
      /\ \A i \in 1 .. Len(file) :
           file[i].kind = "row" => <<file[i].t, file[i].v>> \in DOMAIN data[file[i].lane]
      /\ \A l \in PlotLanes : \A p \in DOMAIN data[l] : LastSays(l, p, data[l][p], Len(file))
  BY <1>1 DEF PlotInv, RowsKept
<1>3. /\ data' = [l \in PlotLanes |-> data'[l]]
      /\ \A l \in PlotLanes : data'[l] = IF l \in Range(lane_list) THEN Filled(data[l])
                                         ELSE data[l]
  BY DEF FillGrid
<1>4. \A l \in PlotLanes :
        /\ data[l] = [p \in DOMAIN data[l] |-> data[l][p]]
        /\ DOMAIN data[l] \subseteq Int \X Int
        /\ \A p \in DOMAIN data[l] : data[l][p] \in Nat
  BY DEF PlotInv, PlotTypeOK
<1>5. ASSUME NEW l \in Range(lane_list)
      PROVE  /\ DOMAIN data'[l] = DOMAIN data[l] \cup Grid
             /\ data'[l] = [p \in DOMAIN data'[l] |-> data'[l][p]]
             /\ \A p \in DOMAIN data'[l] :
                  data'[l][p] = IF p \in DOMAIN data[l] THEN data[l][p]
                                ELSE INVALID_ERROR_COUNT
  <2> DEFINE counts == data[l]
  <2>1. data'[l] = Filled(counts)
    BY <1>2, <1>3
  <2> HIDE DEF counts
  <2>2. /\ DOMAIN Filled(counts) = DOMAIN counts \cup Grid
        /\ Filled(counts) = [p \in DOMAIN Filled(counts) |-> Filled(counts)[p]]
        /\ \A p \in DOMAIN Filled(counts) :
             Filled(counts)[p] = IF p \in DOMAIN counts THEN counts[p] ELSE INVALID_ERROR_COUNT
    BY DEF Filled
  <2>3. /\ DOMAIN data'[l] = DOMAIN counts \cup Grid
        /\ data'[l] = [p \in DOMAIN data'[l] |-> data'[l][p]]
        /\ \A p \in DOMAIN data'[l] :
             data'[l][p] = IF p \in DOMAIN counts THEN counts[p] ELSE INVALID_ERROR_COUNT
    BY <2>1, <2>2
  <2> QED
    BY <2>3 DEF counts
<1>6. \A l \in PlotLanes :
        /\ data'[l] = [p \in DOMAIN data'[l] |-> data'[l][p]]
        /\ DOMAIN data'[l] \subseteq Int \X Int
        /\ \A p \in DOMAIN data'[l] : data'[l][p] \in Nat
  <2> SUFFICES ASSUME NEW l \in PlotLanes
               PROVE  /\ data'[l] = [p \in DOMAIN data'[l] |-> data'[l][p]]
                      /\ DOMAIN data'[l] \subseteq Int \X Int
                      /\ \A p \in DOMAIN data'[l] : data'[l][p] \in Nat
    OBVIOUS
  <2>1. CASE l \in Range(lane_list)
    <3>1. DOMAIN data[l] \subseteq Int \X Int /\ \A p \in DOMAIN data[l] : data[l][p] \in Nat
      BY <1>4
    <3>2. DOMAIN data'[l] = DOMAIN data[l] \cup Grid
      BY <1>5, <2>1
    <3>3. DOMAIN data'[l] \subseteq Int \X Int
      BY <3>1, <3>2, GridPoints
    <3>4. ASSUME NEW p \in DOMAIN data'[l] PROVE data'[l][p] \in Nat
      <4>1. data'[l][p] = IF p \in DOMAIN data[l] THEN data[l][p] ELSE INVALID_ERROR_COUNT
        BY <1>5, <2>1, <3>4
      <4> QED
        BY <3>1, <4>1 DEF INVALID_ERROR_COUNT
    <3> QED
      BY <1>5, <2>1, <3>3, <3>4
  <2>2. CASE l \notin Range(lane_list)
    BY <1>3, <1>4, <2>2
  <2> QED
    BY <2>1, <2>2
<1>7. PlotTypeOK'
  BY <1>1, <1>3, <1>6 DEF PlotInv, PlotTypeOK, plotVars
<1>8. GridKnown'
  <2>1. /\ Range(lane_list)' = Range(lane_list) /\ Grid' = Grid
        /\ \A l, p : Measured(l, p)' = Measured(l, p) /\ Errors(l, p)' = Errors(l, p)
    BY <1>1 DEF Range, Grid, Points, Measured, RowsFor, Errors
  <2>2. ASSUME NEW l \in Range(lane_list)
        PROVE  /\ Grid \subseteq DOMAIN data'[l]
               /\ \A p : Measured(l, p) => p \in DOMAIN data'[l]
               /\ \A p \in DOMAIN data'[l] :
                    data'[l][p] = IF Measured(l, p) THEN Errors(l, p) ELSE INVALID_ERROR_COUNT
    <3>1. l \in PlotLanes
      BY <1>2
    <3>2. \A p : Measured(l, p) => p \in DOMAIN data[l]
      BY <1>2 DEF Measured, RowsFor
    <3>3. \A p \in DOMAIN data[l] : Measured(l, p) /\ Errors(l, p) = data[l][p]
      BY <1>1, <1>2, <3>1, LastCounts
    <3> QED
      BY <1>5, <3>1, <3>2, <3>3
  <2> QED
    BY <2>1, <2>2, <1>2 DEF GridKnown
<1>9. LanesPlotted'
  BY <1>1 DEF PlotInv, LanesPlotted, PlottedLanes, VerdictHonest, plotVars
<1> QED
  BY <1>1, <1>7, <1>8, <1>9 DEF PlotInv, RowsKept, WholeFile, Range

-----------------------------------------------------------------------------
(***************************************************************************)
(* The centre of an eye and the mask around it.                            *)
(***************************************************************************)
\* From the middle n points are free of errors; the boundary is the last of them,
\* the middle if there are none, and unknown if the next one was not measured.
LEMMA BoundaryOf ==
    ASSUME timing.steps \in Nat, NEW l, NEW direction,
           \A k \in 0 .. timing.steps : Count(l, direction * k) \in Nat
    PROVE  \E n \in 0 .. timing.steps + 1 :
             /\ \A j \in 0 .. n - 1 : Count(l, direction * j) = 0
             /\ n <= timing.steps => Count(l, direction * n) > 0
             /\ Boundary(l, direction) =
                  IF n <= timing.steps /\ Count(l, direction * n) = INVALID_ERROR_COUNT
                  THEN None
                  ELSE Some(direction * (IF n = 0 THEN 0 ELSE n - 1))
<1> DEFINE C(k) == Count(l, direction * k)
           stops == {k \in 0 .. timing.steps : C(k) > 0}
           B == IF stops = {} THEN Some(direction * timing.steps)
                ELSE IF C(Min(stops)) = INVALID_ERROR_COUNT THEN None
                ELSE Some(direction * Max({Min(stops) - 1, 0}))
<1>1. Boundary(l, direction) = B
  BY DEF Boundary
<1>2. \A k \in 0 .. timing.steps : C(k) \in Nat
  OBVIOUS
<1>3. SUFFICES
        \E n \in 0 .. timing.steps + 1 :
          /\ \A j \in 0 .. n - 1 : C(j) = 0
          /\ n <= timing.steps => C(n) > 0
          /\ B = IF n <= timing.steps /\ C(n) = INVALID_ERROR_COUNT THEN None
                 ELSE Some(direction * (IF n = 0 THEN 0 ELSE n - 1))
  BY <1>1
<1> HIDE DEF C
<1>4. CASE stops = {}
  <2>1. \A j \in 0 .. timing.steps : C(j) = 0
    BY <1>2, <1>4
  <2>2. B = Some(direction * timing.steps)
    BY <1>4
  <2>3. timing.steps + 1 \in 0 .. timing.steps + 1 /\ ~(timing.steps + 1 <= timing.steps)
    OBVIOUS
  <2>4. (IF timing.steps + 1 = 0 THEN 0 ELSE timing.steps + 1 - 1) = timing.steps
    OBVIOUS
  <2>5. \A j \in 0 .. timing.steps + 1 - 1 : C(j) = 0
    BY <2>1
  <2> HIDE DEF B
  <2> QED
    BY <2>2, <2>3, <2>4, <2>5
<1>5. CASE stops # {}
  <2> DEFINE m == Min(stops)
  <2>1. stops \subseteq Nat /\ m \in stops /\ \A y \in stops : m <= y
    BY <1>5, LeastOf
  <2>2. B = IF C(m) = INVALID_ERROR_COUNT THEN None ELSE Some(direction * Max({m - 1, 0}))
    BY <1>5
  <2> HIDE DEF m, B
  <2>3. m \in 0 .. timing.steps /\ C(m) > 0
    BY <2>1
  <2>4. \A j \in 0 .. m - 1 : C(j) = 0
    <3> SUFFICES ASSUME NEW j \in 0 .. m - 1 PROVE C(j) = 0
      OBVIOUS
    <3>1. j \in 0 .. timing.steps /\ ~(m <= j)
      BY <2>3
    <3>2. j \notin stops
      BY <2>1, <3>1
    <3> QED
      BY <1>2, <3>1, <3>2
  <2>5. Max({m - 1, 0}) = IF m = 0 THEN 0 ELSE m - 1
    <3> DEFINE S == {m - 1, 0}
               top == IF m = 0 THEN 0 ELSE m - 1
    <3>1. S \subseteq Int /\ top \in S /\ \A y \in S : top >= y
      BY <2>3
    <3> HIDE DEF S, top
    <3>2. Max(S) = top
      BY <3>1, GreatestOf
    <3> QED
      BY <3>2 DEF S, top
  <2>6. m \in 0 .. timing.steps + 1 /\ m <= timing.steps
    BY <2>3
  <2> QED
    BY <2>2, <2>3, <2>4, <2>5, <2>6
<1> QED
  BY <1>4, <1>5

LEMMA LimitsKnown ==
    ASSUME PlotInv, pc \in {"plot", "plotted"}
    PROVE  /\ timing.steps \in Nat \ {0} /\ timing.offset \in Nat
           /\ voltage.steps \in Nat \ {0} /\ voltage.offset \in Nat
BY DEF PlotInv, PlotTypeOK, Limits, WholeFile

LEMMA CountsKnown ==
    ASSUME PlotInv, pc \in {"plot", "plotted"}, NEW l \in Range(lane_list),
           NEW t \in -timing.steps .. timing.steps
    PROVE  /\ Count(l, t) \in Nat
           /\ Count(l, t) = IF Measured(l, <<t, 0>>) THEN Errors(l, <<t, 0>>)
                            ELSE INVALID_ERROR_COUNT
<1>1. <<t, 0>> \in Grid
  BY LimitsKnown DEF Grid, Points
<1>2. l \in PlotLanes /\ <<t, 0>> \in DOMAIN data[l]
  BY <1>1 DEF PlotInv, GridKnown
<1>3. data[l][<<t, 0>>] \in Nat
  BY <1>2 DEF PlotInv, PlotTypeOK
<1> QED
  BY <1>2, <1>3 DEF PlotInv, GridKnown, Count

\* The eye of a plotted lane: the points free of errors from the middle to the
\* left and to the right, and what is known of the next one.
LEMMA EyeSides ==
    ASSUME PlotInv, pc \in {"plot", "plotted"}, NEW l \in Range(lane_list),
           NEW direction \in {-1, 1}
    PROVE  \E n \in 0 .. timing.steps + 1 :
             /\ \A j \in 0 .. n - 1 : Count(l, direction * j) = 0
             /\ n <= timing.steps => Count(l, direction * n) > 0
             /\ Boundary(l, direction) =
                  IF n <= timing.steps /\ Count(l, direction * n) = INVALID_ERROR_COUNT
                  THEN None
                  ELSE Some(direction * (IF n = 0 THEN 0 ELSE n - 1))
<1>1. timing.steps \in Nat
  BY LimitsKnown
<1>2. \A k \in 0 .. timing.steps : direction * k \in -timing.steps .. timing.steps
  BY <1>1
<1>3. \A k \in 0 .. timing.steps : Count(l, direction * k) \in Nat
  BY <1>2, CountsKnown
<1> QED
  BY <1>1, <1>3, BoundaryOf

LEMMA EyeCentred ==
    ASSUME PlotInv, pc \in {"plot", "plotted"}, NEW l \in Range(lane_list)
    PROVE  \/ EyeCenter(l) = None
           \/ \E c \in -timing.steps .. timing.steps : EyeCenter(l) = Some(c)
<1>1. timing.steps \in Nat
  BY LimitsKnown
<1>2. PICK n \in 0 .. timing.steps + 1 :
        Boundary(l, -1) \in {None, Some((-1) * (IF n = 0 THEN 0 ELSE n - 1))}
  BY EyeSides
<1>3. PICK m \in 0 .. timing.steps + 1 :
        Boundary(l, 1) \in {None, Some(1 * (IF m = 0 THEN 0 ELSE m - 1))}
  BY EyeSides
<1> DEFINE a == IF n = 0 THEN 0 ELSE n - 1
           b == IF m = 0 THEN 0 ELSE m - 1
<1>4. a \in 0 .. timing.steps /\ b \in 0 .. timing.steps
  BY <1>1
<1>5. (-1) * a = -a /\ 1 * b = b
  BY <1>4
<1>6. CASE None \in {Boundary(l, -1), Boundary(l, 1)}
  BY <1>6 DEF EyeCenter
<1>7. CASE None \notin {Boundary(l, -1), Boundary(l, 1)}
  <2>1. Boundary(l, -1) = Some(-a) /\ Boundary(l, 1) = Some(b)
    BY <1>2, <1>3, <1>5, <1>7
  <2> HIDE DEF a, b
  <2>2. EyeCenter(l) = Some(-a + (b - (-a) + 1) \div 2)
    BY <1>7, <2>1, OptionalValue DEF EyeCenter
  <2>3. -a + (b - (-a) + 1) \div 2 \in -timing.steps .. timing.steps
    BY <1>1, <1>4
  <2> QED
    BY <2>2, <2>3
<1> QED
  BY <1>6, <1>7

LEMMA Rounding ==
    ASSUME NEW d \in Nat \ {0}, NEW n \in Int
    PROVE  RoundedDiv(n, d) \in Int /\ RoundedDiv(0, d) = 0
<1>1. 2 * d \in Nat /\ 2 * d > 0 /\ 2 * n + d \in Int
  OBVIOUS
<1>2. (2 * n + d) \div (2 * d) \in Int
  BY <1>1
<1>3. 2 * 0 + d = d /\ d \div (2 * d) = 0
  OBVIOUS
<1> QED
  BY <1>2, <1>3 DEF RoundedDiv

LEMMA MaskHasCentre ==
    ASSUME PlotInv, pc \in {"plot", "plotted"}, NEW c \in -timing.steps .. timing.steps
    PROVE  <<c, 0>> \in Mask(Some(c))
<1>1. /\ timing.steps \in Nat \ {0} /\ timing.offset \in Nat
      /\ voltage.steps \in Nat \ {0} /\ voltage.offset \in Nat
  BY LimitsKnown
<1>2. <<c, 0>> \in Grid
  BY <1>1 DEF Grid, Points
<1>3. UI(c) \in Int
  <2>1. 100 * c * timing.offset \in Int
    BY <1>1
  <2> QED
    BY <1>1, <2>1, Rounding DEF UI
<1>4. MilliVolt(0) = 0
  <2>1. 1000 * 0 * voltage.offset = 0
    BY <1>1
  <2> QED
    BY <1>1, <2>1, Rounding DEF MilliVolt
<1>5. Abs(UI(c) - UI(c)) = 0 /\ Abs(MilliVolt(0)) = 0
  BY <1>3, <1>4 DEF Abs
<1>6. InEyeMask(<<c, 0>>, c)
  <2>1. <<c, 0>>[1] = c /\ <<c, 0>>[2] = 0
    OBVIOUS
  <2>2. InEyeMask(<<c, 0>>, c) <=> IF gear = 5 THEN 2 * 0 + 0 <= 3000 ELSE 5 * 0 + 3 * 0 <= 12000
    BY <1>5, <2>1 DEF InEyeMask
  <2> QED
    BY <2>2
<1> QED
  BY <1>2, <1>6, OptionalValue DEF Mask

-----------------------------------------------------------------------------
(***************************************************************************)
(* The plot of a lane.                                                     *)
(***************************************************************************)
LEMMA RowCounts ==
    ASSUME PlotInv, CountsTell, NEW l, NEW p, Measured(l, p)
    PROVE  Errors(l, p) # INVALID_ERROR_COUNT
<1> DEFINE S == RowsFor(l, p)
<1>1. file \in Files /\ Len(file) \in Nat
  BY FileLength DEF PlotInv, PlotTypeOK
<1>2. S \subseteq 1 .. Len(file) /\ S # {} /\ \A i \in S : file[i].kind = "row"
  BY DEF RowsFor, Measured
<1> HIDE DEF S
<1>3. Max(S) \in S
  BY <1>1, <1>2, GreatestUpTo
<1> QED
  BY <1>1, <1>2, <1>3 DEF CountsTell, Errors, S

\* A point without a measurement has the count of one, and only such a point
\* unless a row has that count.
LEMMA PointsInMask ==
    ASSUME PlotInv, pc = "plot", NEW l \in Range(lane_list), NEW center,
           NEW p \in Mask(center)
    PROVE  /\ data[l][p] \in Nat
           /\ data[l][p] # INVALID_ERROR_COUNT => Measured(l, p)
           /\ Measured(l, p) => data[l][p] = Errors(l, p)
           /\ CountsTell /\ Measured(l, p) => data[l][p] # INVALID_ERROR_COUNT
<1>1. p \in Grid
  BY DEF Mask
<1>2. l \in PlotLanes /\ p \in DOMAIN data[l]
  BY <1>1 DEF PlotInv, GridKnown
<1>3. data[l][p] = IF Measured(l, p) THEN Errors(l, p) ELSE INVALID_ERROR_COUNT
  BY <1>2 DEF PlotInv, GridKnown
<1>4. data[l][p] \in Nat
  BY <1>2 DEF PlotInv, PlotTypeOK
<1> QED
  BY <1>3, <1>4, RowCounts

LEMMA NothingMissing ==
    ASSUME PlotInv, pc = "plot", NEW l \in Range(lane_list)
    PROVE  MissingData(l) = {}
<1>1. timing.steps \in Nat /\ voltage.steps \in Nat
  BY LimitsKnown
<1>2. ((-timing.steps .. timing.steps - 1) \X (-voltage.steps .. voltage.steps)) \subseteq Grid
  BY <1>1 DEF Grid, Points
<1>3. Grid \subseteq DOMAIN data[l]
  BY DEF PlotInv, GridKnown
<1> QED
  BY <1>2, <1>3 DEF MissingData

LEMMA PlotLaneStep ==
    ASSUME PlotInv, PlotLane
    PROVE  PlotInv'
<1>0. PICK l : l = lane_list[plotted + 1]
  OBVIOUS
<1> DEFINE center == EyeCenter(l)
           mask == Mask(center)
<1>1. /\ pc = "plot" /\ plotted < Len(lane_list)
      /\ UNCHANGED <<file, line_no, timing, voltage, ufs_gear, gear, lane_list, data,
                     bad_data_count>>
  BY DEF PlotLane
<1>2. /\ plotted \in Nat /\ Len(lane_list) \in Nat /\ plotted + 1 \in 1 .. Len(lane_list)
      /\ DOMAIN lane_list = 1 .. Len(lane_list)
  BY <1>1 DEF PlotInv, PlotTypeOK
<1>3. l \in Range(lane_list) /\ l \in PlotLanes
  <2>1. l \in Range(lane_list)
    BY <1>0, <1>2 DEF Range
  <2> QED
    BY <1>1, <2>1 DEF PlotInv, GridKnown
<1>4. MissingData(l) = {}
  BY <1>1, <1>3, NothingMissing
<1>5. /\ eye_center' = [eye_center EXCEPT ![l] = center] /\ skip_result' = Skips(l, mask)
      /\ verdict' = [verdict EXCEPT ![l] = Verdict(l, mask)]
      /\ plotted' = plotted + 1 /\ pc' = "plot"
  BY <1>0, <1>1, <1>4 DEF PlotLane
<1>6. l \notin PlottedLanes /\ PlottedLanes' = PlottedLanes \cup {l}
  <2>1. \A i \in 1 .. plotted : i \in DOMAIN lane_list /\ i # plotted + 1
    BY <1>1, <1>2
  <2>2. plotted + 1 \in DOMAIN lane_list
    BY <1>2
  <2>3. \A i \in 1 .. plotted : lane_list[i] # l
    BY <1>0, <2>1, <2>2 DEF PlotInv, PlotTypeOK, IsInjective
  <2>4. \A i : i \in 1 .. plotted + 1 <=> i \in 1 .. plotted \/ i = plotted + 1
    BY <1>2
  <2>5. PlottedLanes' = {lane_list[i] : i \in 1 .. plotted + 1}
    BY <1>1, <1>5 DEF PlottedLanes
  <2>6. l \notin PlottedLanes
    BY <2>3 DEF PlottedLanes
  <2>7. PlottedLanes' = PlottedLanes \cup {l}
    BY <1>0, <2>4, <2>5 DEF PlottedLanes
  <2> QED
    BY <2>6, <2>7
<1>7. \/ center = None
      \/ \E c \in -timing.steps .. timing.steps : center = Some(c)
  BY <1>1, <1>3, EyeCentred
<1>8. Verdict(l, mask) \in {"none", "PASS", "FAIL"} /\ Skips(l, mask) \in BOOLEAN
  BY DEF Verdict, Skips, PlotInv, PlotTypeOK
<1>9. IsOptional(center, Int)
  BY <1>1, <1>7, LimitsKnown, OptionalValue DEF IsOptional
<1> HIDE DEF center, mask
<1>10. /\ eye_center' = [k \in PlotLanes |-> eye_center'[k]]
       /\ eye_center'[l] = center /\ \A k \in PlotLanes \ {l} : eye_center'[k] = eye_center[k]
  BY <1>3, <1>5 DEF PlotInv, PlotTypeOK
<1>11. /\ verdict' \in [PlotLanes -> {"none", "PASS", "FAIL"}]
       /\ verdict'[l] = Verdict(l, mask)
       /\ \A k \in PlotLanes \ {l} : verdict'[k] = verdict[k]
  BY <1>3, <1>5, <1>8 DEF PlotInv, PlotTypeOK
<1>12. PlotTypeOK'
  <2>1. \A k \in PlotLanes : IsOptional(eye_center'[k], Int)
    BY <1>9, <1>10 DEF PlotInv, PlotTypeOK
  <2>2. plotted' \in 0 .. Len(lane_list) /\ skip_result' \in BOOLEAN
    BY <1>2, <1>5, <1>8
  <2> QED
    BY <1>1, <1>5, <1>10, <1>11, <2>1, <2>2 DEF PlotInv, PlotTypeOK
<1>13. RowsKept' /\ WholeFile'
  BY <1>1, <1>5 DEF PlotInv, RowsKept, WholeFile, Range
<1>14. GridKnown'
  <2>1. /\ Range(lane_list)' = Range(lane_list) /\ Grid' = Grid
        /\ \A k, p : Measured(k, p)' = Measured(k, p) /\ Errors(k, p)' = Errors(k, p)
    BY <1>1 DEF Range, Grid, Points, Measured, RowsFor, Errors
  <2> QED
    BY <1>1, <1>5, <2>1 DEF PlotInv, GridKnown
<1>15. /\ \A k \in PlotLanes : EyeCenter(k)' = EyeCenter(k)
       /\ \A c : Mask(c)' = Mask(c)
       /\ \A k, p : Measured(k, p)' = Measured(k, p) /\ Errors(k, p)' = Errors(k, p)
  <2>1. \A k \in PlotLanes : EyeCenter(k)' = EyeCenter(k)
    BY <1>1 DEF EyeCenter, Boundary, Count
  <2>2. \A c : Mask(c)' = Mask(c)
    BY <1>1 DEF Mask, Grid, Points, InEyeMask, UI, MilliVolt
  <2>3. \A k, p : Measured(k, p)' = Measured(k, p) /\ Errors(k, p)' = Errors(k, p)
    BY <1>1 DEF Measured, RowsFor, Errors
  <2> QED
    BY <2>1, <2>2, <2>3
<1>16. PlottedLanes \subseteq PlotLanes \ {l}
  <2>1. Range(lane_list) \subseteq PlotLanes
    BY <1>1 DEF PlotInv, GridKnown
  <2>2. \A i \in 1 .. plotted : i \in DOMAIN lane_list
    BY <1>2
  <2>3. PlottedLanes \subseteq Range(lane_list)
    BY <2>2 DEF PlottedLanes, Range
  <2> QED
    BY <1>6, <2>1, <2>3
<1>17. \A k \in PlottedLanes' : eye_center'[k] = EyeCenter(k)'
  BY <1>3, <1>6, <1>10, <1>15, <1>16 DEF PlotInv, LanesPlotted, center
<1>18. \A k \in PlottedLanes : Unmeasured(k)' = Unmeasured(k)
  BY <1>10, <1>15, <1>16 DEF Unmeasured
<1>19. Unmeasured(l)' = {p \in mask : ~Measured(l, p)}
  BY <1>10, <1>15 DEF Unmeasured, mask
<1>20. ASSUME CountsTell
       PROVE  /\ VerdictHonest'
              /\ skip_result' => \E k \in PlottedLanes' : Unmeasured(k)' # {}
  <2>1. \A p \in mask : /\ data[l][p] \in Nat
                        /\ data[l][p] # INVALID_ERROR_COUNT <=> Measured(l, p)
                        /\ Measured(l, p) => data[l][p] = Errors(l, p)
    BY <1>1, <1>3, <1>20, PointsInMask DEF mask
  <2>2. skip_result' => \E k \in PlottedLanes' : Unmeasured(k)' # {}
    <3>1. CASE skip_result
      BY <1>6, <1>18, <1>20, <3>1 DEF PlotInv, LanesPlotted
    <3>2. CASE \E p \in mask : data[l][p] = INVALID_ERROR_COUNT
      BY <1>6, <1>19, <2>1, <3>2
    <3> QED
      BY <1>5, <3>1, <3>2 DEF Skips
  <2>3. ASSUME NEW k \in PlottedLanes
        PROVE  /\ verdict'[k] # "none" =>
                    /\ Unmeasured(k)' = {}
                    /\ verdict'[k] = "PASS" <=> \A p \in Mask(eye_center[k])' : Errors(k, p)' = 0
               /\ verdict'[k] = "none" =>
                    eye_center'[k] = None \/ \E j \in PlottedLanes' : Unmeasured(j)' # {}
    <3>1. /\ verdict'[k] = verdict[k] /\ eye_center'[k] = eye_center[k]
          /\ Unmeasured(k)' = Unmeasured(k) /\ Mask(eye_center[k])' = Mask(eye_center[k])
      <4>1. verdict'[k] = verdict[k] /\ eye_center'[k] = eye_center[k]
        BY <1>10, <1>11, <1>16
      <4> QED
        BY <1>15, <1>18, <4>1
    <3>2. /\ verdict[k] # "none" =>
               /\ Unmeasured(k) = {}
               /\ verdict[k] = "PASS" <=> \A p \in Mask(eye_center[k]) : Errors(k, p) = 0
          /\ verdict[k] = "none" =>
               eye_center[k] = None \/ \E j \in PlottedLanes : Unmeasured(j) # {}
      BY <1>20 DEF PlotInv, LanesPlotted, VerdictHonest
    <3>3. (\E j \in PlottedLanes : Unmeasured(j) # {}) =>
            \E j \in PlottedLanes' : Unmeasured(j)' # {}
      BY <1>6, <1>18
    <3> QED
      BY <1>15, <3>1, <3>2, <3>3
  <2>4. /\ verdict'[l] # "none" =>
             /\ Unmeasured(l)' = {}
             /\ verdict'[l] = "PASS" <=> \A p \in mask : Errors(l, p) = 0
        /\ verdict'[l] = "none" =>
             center = None \/ \E j \in PlottedLanes' : Unmeasured(j)' # {}
    <3>1. ASSUME verdict'[l] # "none"
          PROVE  /\ Unmeasured(l)' = {}
                 /\ verdict'[l] = "PASS" <=> \A p \in mask : Errors(l, p) = 0
      <4>1. /\ \A p \in mask : data[l][p] # INVALID_ERROR_COUNT
            /\ verdict'[l] = IF \E p \in mask : data[l][p] > 0 THEN "FAIL" ELSE "PASS"
        BY <1>11, <3>1 DEF Verdict, Skips
      <4>2. \A p \in mask : Measured(l, p) /\ Errors(l, p) \in Nat /\ data[l][p] = Errors(l, p)
        BY <2>1, <4>1
      <4>3. \A p \in mask : data[l][p] > 0 <=> Errors(l, p) # 0
        BY <4>2
      <4> QED
        BY <1>19, <4>1, <4>2, <4>3
    <3>2. ASSUME verdict'[l] = "none", center # None
          PROVE  \E j \in PlottedLanes' : Unmeasured(j)' # {}
      <4>1. mask # {}
        BY <1>1, <1>7, <3>2, MaskHasCentre DEF mask
      <4>2. skip_result'
        BY <1>5, <1>11, <3>2, <4>1 DEF Verdict
      <4> QED
        BY <2>2, <4>2
    <3> QED
      BY <3>1, <3>2
  <2>5. /\ verdict'[l] # "none" =>
             /\ Unmeasured(l)' = {}
             /\ verdict'[l] = "PASS" <=> \A p \in Mask(eye_center[l])' : Errors(l, p)' = 0
        /\ verdict'[l] = "none" =>
             eye_center'[l] = None \/ \E j \in PlottedLanes' : Unmeasured(j)' # {}
    <3>1. Mask(eye_center[l])' = mask /\ \A p : Errors(l, p)' = Errors(l, p)
      BY <1>10, <1>15 DEF mask
    <3> QED
      BY <1>10, <2>4, <3>1
  <2> QED
    BY <1>6, <2>2, <2>3, <2>5 DEF VerdictHonest
<1>21. LanesPlotted'
  <2>1. pc' = "plot" /\ plotted' # 0
    BY <1>2, <1>5
  <2> QED
    BY <1>17, <1>20, <2>1 DEF LanesPlotted, CountsTell
<1> QED
  BY <1>12, <1>13, <1>14, <1>21 DEF PlotInv

\* What is computed from the rows, the data and the limits stays with them.
LEMMA StaysWith ==
    ASSUME UNCHANGED <<file, line_no, timing, voltage, gear, lane_list, data, eye_center,
                       skip_result, plotted, verdict>>
    PROVE  /\ Range(lane_list)' = Range(lane_list) /\ Grid' = Grid
           /\ PlottedLanes' = PlottedLanes /\ VerdictHonest' = VerdictHonest
           /\ \A l, p : Measured(l, p)' = Measured(l, p) /\ Errors(l, p)' = Errors(l, p)
           /\ \A l, p, e, n : LastSays(l, p, e, n)' = LastSays(l, p, e, n)
           /\ \A l : EyeCenter(l)' = EyeCenter(l) /\ Unmeasured(l)' = Unmeasured(l)
<1>1. Range(lane_list)' = Range(lane_list) /\ Grid' = Grid /\ PlottedLanes' = PlottedLanes
  BY DEF Range, Grid, Points, PlottedLanes
<1>2. \A l, p : Measured(l, p)' = Measured(l, p) /\ Errors(l, p)' = Errors(l, p)
  BY DEF Measured, RowsFor, Errors
<1>3. \A l, p, e, n : LastSays(l, p, e, n)' = LastSays(l, p, e, n)
  BY DEF LastSays, IsRow
<1>4. \A l : EyeCenter(l)' = EyeCenter(l)
  BY DEF EyeCenter, Boundary, Count
<1>5. \A c : Mask(c)' = Mask(c)
  BY DEF Mask, Grid, Points, InEyeMask, UI, MilliVolt
<1>6. \A l : Unmeasured(l)' = Unmeasured(l) /\ Mask(eye_center[l])' = Mask(eye_center[l])
  BY <1>2, <1>5 DEF Unmeasured
<1>7. VerdictHonest' = VerdictHonest
  BY <1>1, <1>2, <1>6 DEF VerdictHonest
<1> QED
  BY <1>1, <1>2, <1>3, <1>4, <1>6, <1>7

LEMMA PlotFinish ==
    ASSUME PlotInv, Finish
    PROVE  PlotInv'
<1>1. /\ pc = "plot" /\ pc' = "plotted" /\ plotted = Len(lane_list)
      /\ UNCHANGED <<file, line_no, timing, voltage, ufs_gear, gear, lane_list, data,
                     bad_data_count, eye_center, skip_result, plotted, verdict>>
  BY DEF Finish, Goto, plotVars
<1>2. PlotTypeOK'
  BY <1>1 DEF PlotInv, PlotTypeOK, Ends
<1>3. RowsKept' /\ WholeFile'
  BY <1>1, StaysWith DEF PlotInv, RowsKept, WholeFile
<1>4. GridKnown'
  BY <1>1, StaysWith DEF PlotInv, GridKnown
<1>5. LanesPlotted'
  BY <1>1, StaysWith DEF PlotInv, LanesPlotted, CountsTell
<1> QED
  BY <1>2, <1>3, <1>4, <1>5 DEF PlotInv

LEMMA PlotStep == PlotInv /\ [Next]_vars => PlotInv'
<1> SUFFICES ASSUME PlotInv, [Next]_vars PROVE PlotInv'
  OBVIOUS
<1>1. CASE ReadTiming \/ ReadVoltage
  BY <1>1, PlotLimits
<1>2. CASE ReadGear \/ ReadOther
  BY <1>2, PlotOther
<1>3. CASE ReadRow
  BY <1>3, PlotRow
<1>4. CASE EndOfFile
  BY <1>4, PlotEndOfFile
<1>5. CASE FillGrid
  BY <1>5, PlotFill
<1>6. CASE PlotLane
  BY <1>6, PlotLaneStep
<1>7. CASE Finish
  BY <1>7, PlotFinish
<1>8. CASE Terminated \/ UNCHANGED vars
  <2>1. UNCHANGED <<pc, file, line_no, timing, voltage, ufs_gear, gear, lane_list, data,
                    bad_data_count, eye_center, skip_result, plotted, verdict>>
    BY <1>8 DEF Terminated, vars
  <2>2. PlotTypeOK'
    BY <2>1 DEF PlotInv, PlotTypeOK
  <2>3. RowsKept' /\ WholeFile'
    BY <2>1, StaysWith DEF PlotInv, RowsKept, WholeFile
  <2>4. GridKnown'
    BY <2>1, StaysWith DEF PlotInv, GridKnown
  <2>5. LanesPlotted'
    BY <2>1, StaysWith DEF PlotInv, LanesPlotted, CountsTell
  <2> QED
    BY <2>2, <2>3, <2>4, <2>5 DEF PlotInv
<1> QED
  BY <1>1, <1>2, <1>3, <1>4, <1>5, <1>6, <1>7, <1>8 DEF Next

LEMMA PlotInvariance == Spec => []PlotInv
BY PlotInit, PlotStep, PTL DEF Spec

-----------------------------------------------------------------------------
\* Every report, of whatever lines, is read and plotted with values of their types.
THEOREM TypeCorrect == Spec => []TypeOK
<1>1. PlotInv => TypeOK
  BY DEF PlotInv, PlotTypeOK, TypeOK, Limits
<1> QED
  BY <1>1, PlotInvariance, PTL

\* What the mask of a plotted lane says is true of the rows of the report, and
\* nothing is said only where the centre or a measurement is missing.
THEOREM VerdictsRight == CountsTell => (Spec => []VerdictHonest)
<1> SUFFICES ASSUME CountsTell PROVE Spec => []VerdictHonest
  OBVIOUS
<1>1. PlotInv => VerdictHonest
  BY DEF PlotInv, LanesPlotted
<1> QED
  BY <1>1, PlotInvariance, PTL

-----------------------------------------------------------------------------
(***************************************************************************)
(* The eye and its centre.                                                 *)
(***************************************************************************)
LEMMA PointOfEye ==
    ASSUME PlotInv, pc \in {"plot", "plotted"}, NEW l \in Range(lane_list),
           NEW t \in -timing.steps .. timing.steps
    PROVE  /\ Count(l, t) \in Nat
           /\ ErrorFree(l, t) <=> Count(l, t) = 0
           /\ Count(l, t) # INVALID_ERROR_COUNT => Measured(l, <<t, 0>>)
           /\ CountsTell /\ Measured(l, <<t, 0>>) => Count(l, t) # INVALID_ERROR_COUNT
<1>1. /\ Count(l, t) \in Nat
      /\ Count(l, t) = IF Measured(l, <<t, 0>>) THEN Errors(l, <<t, 0>>)
                       ELSE INVALID_ERROR_COUNT
  BY CountsKnown
<1>2. INVALID_ERROR_COUNT # 0
  BY DEF INVALID_ERROR_COUNT
<1> QED
  BY <1>1, <1>2, RowCounts DEF ErrorFree

\* The points s between the middle and t.
LEMMA BetweenPoints ==
    ASSUME NEW t \in Int
    PROVE  /\ Between(0, t) \subseteq Int
           /\ \A s \in Int :
                s \in Between(0, t) <=> (0 <= s /\ s <= t) \/ (t <= s /\ s <= 0)
<1>1. CASE 0 <= t
  BY <1>1 DEF Between
<1>2. CASE ~(0 <= t)
  BY <1>2 DEF Between
<1> QED
  BY <1>1, <1>2

\* The eye from its sides: n points to the left of the middle and it, and m to the
\* right and it.
LEMMA EyeShape ==
    ASSUME PlotInv, pc \in {"plot", "plotted"}, NEW l \in Range(lane_list),
           NEW n \in 1 .. timing.steps + 1, NEW m \in 1 .. timing.steps + 1,
           \A t \in -(n - 1) .. m - 1 : Count(l, t) = 0,
           n <= timing.steps => Count(l, -n) > 0,
           m <= timing.steps => Count(l, m) > 0
    PROVE  /\ Eye(l) = -(n - 1) .. m - 1
           /\ Rim(l) = {t \in -timing.steps .. timing.steps : t = -n \/ t = m}
<1> DEFINE T == timing.steps
<1>1. T \in Nat
  BY LimitsKnown
<1>2. \A t \in -T .. T : Count(l, t) \in Nat /\ (ErrorFree(l, t) <=> Count(l, t) = 0)
  BY PointOfEye
<1>3. Eye(l) = -(n - 1) .. m - 1
  <2>1. ASSUME NEW t \in -(n - 1) .. m - 1 PROVE t \in Eye(l)
    <3>1. t \in -T .. T
      BY <1>1
    <3>2. ASSUME NEW s \in Between(0, t) PROVE ErrorFree(l, s)
      <4>1. s \in -(n - 1) .. m - 1 /\ s \in -T .. T
        BY <1>1, <3>2, BetweenPoints
      <4> QED
        BY <1>2, <4>1
    <3> QED
      BY <3>1, <3>2 DEF Eye
  <2>2. ASSUME NEW t \in Eye(l) PROVE t \in -(n - 1) .. m - 1
    <3>1. t \in -T .. T /\ \A s \in Between(0, t) : ErrorFree(l, s)
      BY DEF Eye
    <3>2. CASE t <= -n
      <4>1. -n \in Between(0, t) /\ -n \in -T .. T /\ n <= T
        BY <1>1, <3>1, <3>2, BetweenPoints
      <4> QED
        BY <1>2, <3>1, <4>1
    <3>3. CASE t >= m
      <4>1. m \in Int /\ 0 <= m /\ m <= t /\ m \in -T .. T /\ m <= T
        BY <1>1, <3>1, <3>3
      <4>2. m \in Between(0, t)
        BY <3>1, <4>1, BetweenPoints
      <4> QED
        BY <1>2, <3>1, <4>1, <4>2
    <3> QED
      BY <1>1, <3>1, <3>2, <3>3
  <2> QED
    BY <2>1, <2>2
<1>4. \A t : t \in Rim(l) <=> t \in -T .. T /\ (t = -n \/ t = m)
  <2>1. ASSUME NEW t \in -T .. T, t = -n \/ t = m PROVE t \in Rim(l)
    <3>1. t \notin Eye(l)
      BY <1>1, <1>3, <2>1
    <3>2. ASSUME NEW s \in Between(0, t), s # t PROVE s \in Eye(l)
      BY <1>1, <1>3, <2>1, <3>2, BetweenPoints
    <3> QED
      BY <3>1, <3>2 DEF Rim
  <2>2. ASSUME NEW t \in Rim(l) PROVE t \in -T .. T /\ (t = -n \/ t = m)
    <3>1. t \in -T .. T /\ t \notin Eye(l) /\ \A s \in Between(0, t) \ {t} : s \in Eye(l)
      BY DEF Rim
    <3>2. CASE t < -n
      <4>1. -n \in Between(0, t) \ {t}
        BY <1>1, <3>1, <3>2, BetweenPoints
      <4> QED
        BY <1>1, <1>3, <3>1, <4>1
    <3>3. CASE t > m
      <4>1. m \in Int /\ 0 <= m /\ m <= t /\ m # t
        BY <1>1, <3>1, <3>3
      <4>2. m \in Between(0, t) \ {t}
        BY <3>1, <4>1, BetweenPoints
      <4> QED
        BY <1>1, <1>3, <3>1, <4>2
    <3> QED
      BY <1>1, <1>3, <3>1, <3>2, <3>3
  <2> QED
    BY <2>1, <2>2
<1> QED
  BY <1>3, <1>4

LEMMA EyeClosed ==
    ASSUME PlotInv, pc \in {"plot", "plotted"}, NEW l \in Range(lane_list), Count(l, 0) > 0
    PROVE  Eye(l) = {} /\ Rim(l) = {0}
<1> DEFINE T == timing.steps
<1>1. T \in Nat /\ 0 \in -T .. T
  BY LimitsKnown
<1>2. ~ErrorFree(l, 0)
  <2>1. ErrorFree(l, 0) <=> Count(l, 0) = 0
    BY <1>1, PointOfEye
  <2> QED
    BY <2>1
<1>3. Eye(l) = {}
  <2>1. \A t \in -T .. T : 0 \in Between(0, t)
    BY <1>1, BetweenPoints
  <2> QED
    BY <1>2, <2>1 DEF Eye
<1>4. 0 \in Rim(l)
  BY <1>1, <1>3, BetweenPoints DEF Rim
<1>5. ASSUME NEW t \in Rim(l) PROVE t = 0
  <2>1. t \in -T .. T /\ \A s \in Between(0, t) \ {t} : s \in Eye(l)
    BY DEF Rim
  <2>2. 0 \in Between(0, t)
    BY <1>1, <2>1, BetweenPoints
  <2> QED
    BY <1>3, <2>1, <2>2
<1> QED
  BY <1>3, <1>4, <1>5

LEMMA PointsAround ==
    ASSUME NEW a \in Nat, NEW b \in Nat, NEW c \in Int,
           c = -a + (b - (-a) + 1) \div 2
    PROVE  /\ c \in -a .. b
           /\ Cardinality({t \in -a .. b : t < c}) - Cardinality({t \in -a .. b : t > c})
                \in {0, 1}
<1>1. 2 * c \in {b - a, b - a + 1}
  OBVIOUS
<1>2. c \in -a .. b
  BY <1>1
<1>3. {t \in -a .. b : t < c} = -a .. c - 1
  BY <1>2
<1>4. {t \in -a .. b : t > c} = c + 1 .. b
  BY <1>2
<1>5. Cardinality(-a .. c - 1) = c + a
  <2>1. -a \in Int /\ c - 1 \in Int
    OBVIOUS
  <2>2. Cardinality(-a .. c - 1) = IF -a > c - 1 THEN 0 ELSE c - 1 - (-a) + 1
    BY <2>1, FS_Interval
  <2> QED
    BY <1>2, <2>2
<1>6. Cardinality(c + 1 .. b) = b - c
  <2>1. c + 1 \in Int /\ b \in Int
    OBVIOUS
  <2>2. Cardinality(c + 1 .. b) = IF c + 1 > b THEN 0 ELSE b - (c + 1) + 1
    BY <2>1, FS_Interval
  <2> QED
    BY <1>2, <2>2
<1>7. (c + a) - (b - c) \in {0, 1}
  BY <1>1
<1> QED
  BY <1>2, <1>3, <1>4, <1>5, <1>6, <1>7

LEMMA CentreOfLane ==
    ASSUME PlotInv, CountsTell, pc \in {"plot", "plotted"}, NEW l \in Range(lane_list)
    PROVE  IF \E t \in Rim(l) : ~Measured(l, <<t, 0>>) THEN EyeCenter(l) = None
           ELSE IF Eye(l) = {} THEN EyeCenter(l) = Some(0)
           ELSE \E c \in Eye(l) :
                  /\ EyeCenter(l) = Some(c)
                  /\ Cardinality({t \in Eye(l) : t < c}) - Cardinality({t \in Eye(l) : t > c})
                       \in {0, 1}
<1> DEFINE T == timing.steps
           Unknown(t) == t \in -T .. T /\ Count(l, t) = INVALID_ERROR_COUNT
<1>1. T \in Nat /\ 0 \in -T .. T
  BY LimitsKnown
<1>2. \A t \in -T .. T : Count(l, t) \in Nat /\ (~Measured(l, <<t, 0>>) <=> Unknown(t))
  BY PointOfEye
<1>3. PICK n \in 0 .. T + 1 :
        /\ \A j \in 0 .. n - 1 : Count(l, (-1) * j) = 0
        /\ n <= T => Count(l, (-1) * n) > 0
        /\ Boundary(l, -1) =
             IF n <= T /\ Count(l, (-1) * n) = INVALID_ERROR_COUNT THEN None
             ELSE Some((-1) * (IF n = 0 THEN 0 ELSE n - 1))
  BY EyeSides
<1>4. PICK m \in 0 .. T + 1 :
        /\ \A j \in 0 .. m - 1 : Count(l, 1 * j) = 0
        /\ m <= T => Count(l, 1 * m) > 0
        /\ Boundary(l, 1) =
             IF m <= T /\ Count(l, 1 * m) = INVALID_ERROR_COUNT THEN None
             ELSE Some(1 * (IF m = 0 THEN 0 ELSE m - 1))
  BY EyeSides
<1>5. \A j \in Int : (-1) * j = -j /\ 1 * j = j
  OBVIOUS
<1>6. /\ \A j \in 0 .. n - 1 : Count(l, -j) = 0
      /\ n <= T => Count(l, -n) > 0
      /\ Boundary(l, -1) =
           IF n <= T /\ Count(l, -n) = INVALID_ERROR_COUNT THEN None
           ELSE Some(IF n = 0 THEN 0 ELSE -(n - 1))
  <2>1. \A j \in 0 .. n - 1 : j \in Int
    OBVIOUS
  <2>2. (-1) * n = -n /\ (-1) * (IF n = 0 THEN 0 ELSE n - 1) = IF n = 0 THEN 0 ELSE -(n - 1)
    BY <1>1
  <2> QED
    BY <1>3, <1>5, <2>1, <2>2
<1>7. /\ \A j \in 0 .. m - 1 : Count(l, j) = 0
      /\ m <= T => Count(l, m) > 0
      /\ Boundary(l, 1) =
           IF m <= T /\ Count(l, m) = INVALID_ERROR_COUNT THEN None
           ELSE Some(IF m = 0 THEN 0 ELSE m - 1)
  <2>1. \A j \in 0 .. m - 1 : j \in Int
    OBVIOUS
  <2>2. 1 * m = m /\ 1 * (IF m = 0 THEN 0 ELSE m - 1) = IF m = 0 THEN 0 ELSE m - 1
    BY <1>1
  <2> QED
    BY <1>4, <1>5, <2>1, <2>2
<1>8. (n = 0 <=> Count(l, 0) > 0) /\ (m = 0 <=> Count(l, 0) > 0)
  <2>1. \A j \in Int : -j = 0 - j
    OBVIOUS
  <2>2. \A j \in 0 .. n - 1 : Count(l, 0 - j) = 0
    BY <1>6, <2>1
  <2>3. n # 0 => Count(l, 0) = 0
    <3>1. n # 0 => 0 \in 0 .. n - 1 /\ 0 - 0 = 0
      BY <1>1
    <3> QED
      BY <2>2, <3>1
  <2>4. m # 0 => Count(l, 0) = 0
    BY <1>1, <1>7
  <2>5. n = 0 => Count(l, 0) > 0
    BY <1>1, <1>6, <2>1
  <2>6. m = 0 => Count(l, 0) > 0
    BY <1>1, <1>7
  <2> QED
    BY <2>3, <2>4, <2>5, <2>6
<1>9. CASE Count(l, 0) > 0
  <2>1. Eye(l) = {} /\ Rim(l) = {0}
    BY <1>9, EyeClosed
  <2>2. n = 0 /\ m = 0 /\ 0 <= T /\ -n = 0
    BY <1>1, <1>8, <1>9
  <2>3. CASE ~Measured(l, <<0, 0>>)
    <3>1. Boundary(l, 1) = None
      BY <1>1, <1>2, <1>7, <2>2, <2>3
    <3> QED
      BY <2>1, <2>3, <3>1 DEF EyeCenter
  <2>4. CASE Measured(l, <<0, 0>>)
    <3>1. Count(l, 0) # INVALID_ERROR_COUNT
      BY <1>1, <1>2, <2>4
    <3>2. Boundary(l, 1) = Some(0) /\ Boundary(l, -1) = Some(0)
      BY <1>6, <1>7, <2>2, <3>1
    <3>3. EyeCenter(l) = Some(0 + (0 - 0 + 1) \div 2)
      BY <3>2, OptionalValue DEF EyeCenter
    <3>4. 0 + (0 - 0 + 1) \div 2 = 0
      OBVIOUS
    <3> QED
      BY <2>1, <2>4, <3>3, <3>4
  <2> QED
    BY <2>3, <2>4
<1>10. CASE ~(Count(l, 0) > 0)
  <2>1. n \in 1 .. T + 1 /\ m \in 1 .. T + 1
    BY <1>1, <1>8, <1>10
  <2>2. \A t \in -(n - 1) .. m - 1 : Count(l, t) = 0
    <3> SUFFICES ASSUME NEW t \in -(n - 1) .. m - 1 PROVE Count(l, t) = 0
      OBVIOUS
    <3>1. CASE t >= 0
      BY <1>7, <2>1, <3>1
    <3>2. CASE t < 0
      <4>1. -t \in 0 .. n - 1 /\ -(-t) = t
        BY <2>1, <3>2
      <4> QED
        BY <1>6, <4>1
    <3> QED
      BY <2>1, <3>1, <3>2
  <2>3. /\ Eye(l) = -(n - 1) .. m - 1
        /\ Rim(l) = {t \in -T .. T : t = -n \/ t = m}
    BY <1>6, <1>7, <2>1, <2>2, EyeShape
  <2>4. (\E t \in Rim(l) : ~Measured(l, <<t, 0>>)) <=> Unknown(-n) \/ Unknown(m)
    BY <1>2, <2>3
  <2>5. /\ Unknown(-n) <=> n <= T /\ Count(l, -n) = INVALID_ERROR_COUNT
        /\ Unknown(m) <=> m <= T /\ Count(l, m) = INVALID_ERROR_COUNT
    BY <1>1, <2>1
  <2> HIDE DEF Unknown
  <2>6. CASE Unknown(-n) \/ Unknown(m)
    <3>1. None \in {Boundary(l, -1), Boundary(l, 1)}
      BY <1>6, <1>7, <2>5, <2>6
    <3> QED
      BY <2>4, <2>6, <3>1 DEF EyeCenter
  <2>7. CASE ~Unknown(-n) /\ ~Unknown(m)
    <3> DEFINE c == -(n - 1) + ((m - 1) - (-(n - 1)) + 1) \div 2
    <3>1. Boundary(l, -1) = Some(-(n - 1)) /\ Boundary(l, 1) = Some(m - 1)
      BY <1>6, <1>7, <2>1, <2>5, <2>7
    <3>2. EyeCenter(l) = Some(c)
      BY <3>1, OptionalValue DEF EyeCenter
    <3>3. n - 1 \in Nat /\ m - 1 \in Nat /\ c \in Int
      BY <2>1
    <3>4. /\ c \in -(n - 1) .. m - 1
          /\ Cardinality({t \in -(n - 1) .. m - 1 : t < c})
               - Cardinality({t \in -(n - 1) .. m - 1 : t > c}) \in {0, 1}
      BY <3>3, PointsAround
    <3> HIDE DEF c
    <3>5. c \in Eye(l) /\ Eye(l) # {}
      BY <2>3, <3>4
    <3>6. Cardinality({t \in Eye(l) : t < c}) - Cardinality({t \in Eye(l) : t > c}) \in {0, 1}
      BY <2>3, <3>4
    <3> QED
      BY <2>4, <2>7, <3>2, <3>5, <3>6
  <2> QED
    BY <2>6, <2>7
<1> QED
  BY <1>9, <1>10

\* The script finds the middle of the eye whatever the report says, and says that
\* it is unknown just when an end of the eye was not measured.
THEOREM CentreFound == CountsTell => (Spec => []CentreRight)
<1> SUFFICES ASSUME CountsTell PROVE Spec => []CentreRight
  OBVIOUS
<1>1. ASSUME PlotInv PROVE CentreRight
  <2>1. \A i \in 1 .. plotted : i \in DOMAIN lane_list /\ pc \in {"plot", "plotted"}
    BY <1>1 DEF PlotInv, PlotTypeOK, LanesPlotted
  <2>2. \A l \in PlottedLanes : l \in Range(lane_list) /\ pc \in {"plot", "plotted"}
    BY <2>1 DEF PlottedLanes, Range
  <2>3. \A l \in PlottedLanes : eye_center[l] = EyeCenter(l)
    BY <1>1 DEF PlotInv, LanesPlotted
  <2> QED
    BY <1>1, <2>2, <2>3, CentreOfLane DEF CentreRight
<1> QED
  BY <1>1, PlotInvariance, PTL

-----------------------------------------------------------------------------
(***************************************************************************)
(* The reports of ufseom.                                                  *)
(***************************************************************************)
LEMMA Concatenation ==
    ASSUME NEW S, NEW T, NEW s \in Seq(S), NEW t \in Seq(T)
    PROVE  /\ Len(s \o t) = Len(s) + Len(t)
           /\ \A i \in 1 .. Len(s) : (s \o t)[i] = s[i]
           /\ \A i \in 1 .. Len(t) : (s \o t)[Len(s) + i] = t[i]
OBVIOUS

\* The lines of a report: seven of its head, and its rows.
LEMMA UfseomLines ==
    ASSUME file \in UfseomFiles
    PROVE  /\ file \in Files /\ Len(file) \in Nat /\ Len(file) >= 7
           /\ file[1].kind = "title" /\ file[2].kind = "title"
           /\ file[3].kind = "gear" /\ file[3].gear >= 4
           /\ file[4].kind = "other" /\ file[7].kind = "other"
           /\ file[5].kind = "timing" /\ file[5].steps \notin {None, Some(0)}
           /\ file[5].offset # 0
           /\ file[6].kind = "voltage" /\ file[6].steps \notin {None, Some(0)}
           /\ file[6].offset # 0
           /\ \A i \in 8 .. Len(file) : file[i].kind = "row" /\ file[i].lane \in PlotLanes
<1> DEFINE d == DeviceOf(file)
           head == << TitleLine, TitleLine, GearLine(file[3].gear), OtherLine,
                      TimingLine(Some(d.timing_steps), d.timing_offset),
                      VoltageLine(Some(d.voltage_steps), d.voltage_offset), OtherLine >>
           rows == RowLines(RowsOf(file))
           S == {head[i] : i \in 1 .. 7}
           T == {rows[i] : i \in 1 .. Len(file) - 7}
<1>1. /\ file \in Files /\ Len(file) \in Nat /\ Len(file) >= 7 /\ file[3].gear >= 4
      /\ \A i \in {5, 6} : file[i].steps # Some(0) /\ file[i].offset # 0
      /\ \A i \in 8 .. Len(file) : file[i].lane \in PlotLanes
  BY FileLength, PlotAssumption DEF Files, IsUfseomReport, PlotLanes
<1>2. file = head \o rows
  BY PlotAssumption DEF IsUfseomReport, UfseomReport
<1>3. head \in Seq(S) /\ Len(head) = 7
  OBVIOUS
<1>4. Len(RowsOf(file)) = Len(file) - 7
  BY <1>1 DEF RowsOf
<1>5. rows = [i \in 1 .. Len(file) - 7 |-> RowLine(RowsOf(file)[i])]
  BY <1>4 DEF RowLines
<1>6. rows \in Seq(T) /\ Len(rows) = Len(file) - 7
  <2>1. rows = [i \in 1 .. Len(file) - 7 |-> rows[i]]
    BY <1>5
  <2>2. Len(file) - 7 \in Nat
    BY <1>1
  <2> HIDE DEF rows
  <2> QED
    BY <2>1, <2>2
<1>7. \A i \in 1 .. Len(file) - 7 : rows[i].kind = "row"
  BY <1>5 DEF RowLine
<1>8. /\ head[1].kind = "title" /\ head[2].kind = "title" /\ head[3].kind = "gear"
      /\ head[4].kind = "other" /\ head[7].kind = "other"
      /\ head[5].kind = "timing" /\ head[5].steps # None
      /\ head[6].kind = "voltage" /\ head[6].steps # None
  BY OptionalValue DEF TitleLine, OtherLine, GearLine, TimingLine, VoltageLine
<1> HIDE DEF head, rows, S, T
<1>9. /\ \A i \in 1 .. 7 : file[i] = head[i]
      /\ \A i \in 1 .. Len(file) - 7 : file[7 + i] = rows[i]
  <2>1. head \in Seq(S) /\ rows \in Seq(T)
    BY <1>3, <1>6
  <2>2. /\ \A i \in 1 .. Len(head) : (head \o rows)[i] = head[i]
        /\ \A i \in 1 .. Len(rows) : (head \o rows)[Len(head) + i] = rows[i]
    BY <2>1, Concatenation
  <2> QED
    BY <1>2, <1>3, <1>6, <2>2, Zenon
<1>10. \A i \in 8 .. Len(file) : file[i].kind = "row"
  <2> SUFFICES ASSUME NEW i \in 8 .. Len(file) PROVE file[i].kind = "row"
    OBVIOUS
  <2>1. i - 7 \in 1 .. Len(file) - 7 /\ 7 + (i - 7) = i
    BY <1>1
  <2> QED
    BY <1>7, <1>9, <2>1
<1>11. /\ file[1] = head[1] /\ file[2] = head[2] /\ file[3] = head[3] /\ file[4] = head[4]
       /\ file[5] = head[5] /\ file[6] = head[6] /\ file[7] = head[7]
  BY <1>9
<1> QED
  BY <1>1, <1>8, <1>10, <1>11

\* A report of ufseom is never refused, and has its gear and its limits read by the
\* time they are needed.
UfseomTaken ==
    file \in UfseomFiles =>
        /\ pc \in {"read", "fill", "plot", "plotted"}
        /\ bad_data_count = 0
        /\ line_no >= 3 => ufs_gear = Some(file[3].gear)
        /\ line_no >= 5 => timing.offset # 0
        /\ line_no >= 6 => voltage.offset # 0

LEMMA ReportLine ==
    ASSUME PlotInv, file \in UfseomFiles, NEW kind, Reads(kind)
    PROVE  /\ line_no \in Nat /\ line_no' = line_no + 1 /\ pc = "read"
           /\ kind = "gear" => line_no = 2
           /\ kind = "timing" => line_no = 4
           /\ kind = "voltage" => line_no = 5
           /\ kind = "row" => line_no >= 7 /\ Line.lane \in PlotLanes
           /\ kind # "gear" => line_no # 2
           /\ kind # "timing" => line_no # 4
           /\ kind # "voltage" => line_no # 5
<1>1. /\ pc = "read" /\ file[line_no + 1].kind = kind /\ line_no + 1 \in 1 .. Len(file)
      /\ line_no' = line_no + 1 /\ line_no \in Nat /\ Len(file) \in Nat
  BY LineAtHand DEF Line
<1>2. \/ line_no = 0 /\ file[line_no + 1].kind = "title"
      \/ line_no = 1 /\ file[line_no + 1].kind = "title"
      \/ line_no = 2 /\ file[line_no + 1].kind = "gear"
      \/ line_no = 3 /\ file[line_no + 1].kind = "other"
      \/ line_no = 4 /\ file[line_no + 1].kind = "timing"
      \/ line_no = 5 /\ file[line_no + 1].kind = "voltage"
      \/ line_no = 6 /\ file[line_no + 1].kind = "other"
      \/ line_no >= 7 /\ file[line_no + 1].kind = "row" /\ Line.lane \in PlotLanes
  <2>1. line_no >= 7 => line_no + 1 \in 8 .. Len(file)
    BY <1>1
  <2>2. line_no \in {0, 1, 2, 3, 4, 5, 6} \/ line_no >= 7
    BY <1>1
  <2> QED
    BY <2>1, <2>2, UfseomLines DEF Line
<1> QED
  BY <1>1, <1>2

LEMMA UfseomStep ==
    ASSUME PlotInv, UfseomTaken, [Next]_vars
    PROVE  UfseomTaken'
<1> SUFFICES ASSUME file' \in UfseomFiles
             PROVE  /\ pc' \in {"read", "fill", "plot", "plotted"}
                    /\ bad_data_count' = 0
                    /\ line_no' >= 3 => ufs_gear' = Some(file[3].gear)
                    /\ line_no' >= 5 => timing'.offset # 0
                    /\ line_no' >= 6 => voltage'.offset # 0
                    /\ file' = file
  BY DEF UfseomTaken
<1>1. file' = file
  BY DEF Next, vars, ReadTiming, ReadVoltage, ReadGear, ReadOther, ReadRow, EndOfFile,
         FillGrid, PlotLane, Finish, Terminated
<1>2. /\ file \in UfseomFiles /\ line_no \in Nat
      /\ pc \in {"read", "fill", "plot", "plotted"} /\ bad_data_count = 0
      /\ line_no >= 3 => ufs_gear = Some(file[3].gear)
      /\ line_no >= 5 => timing.offset # 0
      /\ line_no >= 6 => voltage.offset # 0
  BY <1>1, FileLength DEF PlotInv, PlotTypeOK, UfseomTaken
<1>3. CASE ReadTiming
  <2>1. line_no = 4 /\ line_no' = 5 /\ pc = "read"
    BY <1>2, <1>3, ReportLine DEF ReadTiming
  <2>2. Line.steps \notin {None, Some(0)} /\ Line.offset # 0
    BY <1>2, <2>1, UfseomLines DEF Line
  <2>3. timing'.offset # 0 /\ pc' = "read"
    BY <1>3, <2>1, <2>2 DEF ReadTiming, ReadLimits
  <2> QED
    BY <1>1, <1>2, <1>3, <2>1, <2>3 DEF ReadTiming
<1>4. CASE ReadVoltage
  <2>1. line_no = 5 /\ line_no' = 6 /\ pc = "read"
    BY <1>2, <1>4, ReportLine DEF ReadVoltage
  <2>2. Line.steps \notin {None, Some(0)} /\ Line.offset # 0
    BY <1>2, <2>1, UfseomLines DEF Line
  <2>3. voltage'.offset # 0 /\ pc' = "read"
    BY <1>4, <2>1, <2>2 DEF ReadVoltage, ReadLimits
  <2> QED
    BY <1>1, <1>2, <1>4, <2>1, <2>3 DEF ReadVoltage
<1>5. CASE ReadGear
  <2>1. line_no = 2 /\ line_no' = 3
    BY <1>2, <1>5, ReportLine DEF ReadGear
  <2> QED
    BY <1>1, <1>2, <1>5, <2>1 DEF ReadGear, Line
<1>6. CASE ReadOther
  <2>1. /\ line_no' = line_no + 1 /\ line_no # 2 /\ line_no # 4 /\ line_no # 5
    BY <1>2, <1>6, ReportLine DEF ReadOther
  <2> QED
    BY <1>1, <1>2, <1>6, <2>1 DEF ReadOther
<1>7. CASE ReadRow
  <2>1. /\ line_no' = line_no + 1 /\ line_no >= 7 /\ Line.lane \in PlotLanes /\ pc = "read"
    BY <1>2, <1>7, ReportLine DEF ReadRow
  <2>2. The(ufs_gear) >= 4 /\ ufs_gear # None /\ The(ufs_gear) \in Nat
    <3>1. ufs_gear = Some(file[3].gear) /\ file[3].gear >= 4
      BY <1>2, <2>1, UfseomLines
    <3>2. file[3].gear \in Nat
      BY <1>2, UfseomLines, LineTypes
    <3> QED
      BY <3>1, <3>2, OptionalValue
  <2>3. gear' = The(ufs_gear) /\ bad_data_count' = bad_data_count
    BY <1>7, <2>2 DEF ReadRow
  <2>4. ~GearRefused(gear')
    BY <2>2, <2>3 DEF GearRefused
  <2>5. pc' = pc
    BY <1>7, <2>1, <2>2, <2>4 DEF ReadRow
  <2> QED
    BY <1>1, <1>2, <1>7, <2>1, <2>3, <2>5 DEF ReadRow
<1>8. CASE EndOfFile
  <2>1. line_no >= 7
    BY <1>2, <1>8, UfseomLines DEF EndOfFile
  <2> QED
    BY <1>1, <1>2, <1>8, <2>1 DEF EndOfFile, Goto
<1>9. CASE FillGrid
  BY <1>1, <1>2, <1>9 DEF FillGrid, Goto
<1>10. CASE PlotLane
  <2>1. pc = "plot" /\ lane_list[plotted + 1] \in Range(lane_list)
    BY <1>10 DEF PlotLane, PlotInv, PlotTypeOK, Range
  <2>2. MissingData(lane_list[plotted + 1]) = {}
    BY <2>1, NothingMissing
  <2> QED
    BY <1>1, <1>2, <1>10, <2>2 DEF PlotLane
<1>11. CASE Finish
  BY <1>1, <1>2, <1>11 DEF Finish, Goto
<1>12. CASE Terminated \/ UNCHANGED vars
  BY <1>1, <1>2, <1>12 DEF Terminated, vars
<1> QED
  BY <1>3, <1>4, <1>5, <1>6, <1>7, <1>8, <1>9, <1>10, <1>11, <1>12 DEF Next

\* A report of ufseom is plotted to its end, with every lane and every row in it.
THEOREM ReportsPlotted == Spec => []ReadsUfseomReports
<1>1. Init => UfseomTaken
  BY DEF Init, UfseomTaken
<1>2. Spec => []UfseomTaken
  <2>1. PlotInv /\ UfseomTaken /\ [Next]_vars => UfseomTaken'
    BY UfseomStep
  <2> QED
    BY <1>1, <2>1, PlotInvariance, PTL DEF Spec
<1>3. ASSUME PlotInv, UfseomTaken, pc \in Ends, file \in UfseomFiles
      PROVE  /\ pc = "plotted" /\ plotted = Len(lane_list)
             /\ \A i \in 1 .. Len(file) : file[i].kind = "row" =>
                  /\ file[i].lane \in PlottedLanes
                  /\ data[file[i].lane][<<file[i].t, file[i].v>>] = file[i].e
  <2>1. pc = "plotted"
    BY <1>3 DEF UfseomTaken, Ends
  <2>2. plotted = Len(lane_list) /\ line_no = Len(file) /\ lane_list \in Seq(Nat)
    BY <1>3, <2>1 DEF PlotInv, LanesPlotted, WholeFile, PlotTypeOK
  <2>3. PlottedLanes = Range(lane_list)
    BY <2>2 DEF PlottedLanes, Range
  <2>4. ASSUME NEW i \in 1 .. Len(file), file[i].kind = "row"
        PROVE  /\ file[i].lane \in PlottedLanes
               /\ data[file[i].lane][<<file[i].t, file[i].v>>] = file[i].e
    <3>1. PICK l : l = file[i].lane
      OBVIOUS
    <3>2. PICK p : p = <<file[i].t, file[i].v>>
      OBVIOUS
    <3>3. l \in Range(lane_list)
      BY <1>3, <2>2, <2>4, <3>1 DEF PlotInv, RowsKept
    <3>4. RowsFor(l, p) = {i}
      <4>1. \A j \in 1 .. Len(file) : file[j].kind = "row" => j \in 8 .. Len(file)
        <5> SUFFICES ASSUME NEW j \in 1 .. Len(file), file[j].kind = "row"
                     PROVE  j \in 8 .. Len(file)
          OBVIOUS
        <5>1. j \in {1, 2, 3, 4, 5, 6, 7} \/ j \in 8 .. Len(file)
          BY <1>3, UfseomLines
        <5> QED
          BY <1>3, <5>1, UfseomLines
      <4>2. \A j \in 8 .. Len(file) :
              <<file[i].lane, file[i].t, file[i].v>> = <<file[j].lane, file[j].t, file[j].v>>
                => i = j
        BY <1>3, <2>4, <4>1, PlotAssumption
      <4>3. ASSUME NEW j \in RowsFor(l, p) PROVE j = i
        <5>1. /\ j \in 8 .. Len(file) /\ file[j].lane = file[i].lane
              /\ file[j].t = file[i].t /\ file[j].v = file[i].v
          BY <3>1, <3>2, <4>1, <4>3 DEF RowsFor
        <5> QED
          BY <4>2, <5>1
      <4> QED
        BY <2>4, <3>1, <3>2, <4>3 DEF RowsFor
    <3>5. Measured(l, p) /\ Errors(l, p) = file[i].e
      <4>1. Max({i}) = i
        BY GreatestOf
      <4> QED
        BY <3>4, <4>1 DEF Measured, Errors
    <3>6. data[l][p] = Errors(l, p)
      <4>1. p \in DOMAIN data[l]
        BY <1>3, <2>1, <3>3, <3>5 DEF PlotInv, GridKnown
      <4> QED
        BY <1>3, <2>1, <3>3, <3>5, <4>1 DEF PlotInv, GridKnown
    <3> QED
      BY <2>3, <3>1, <3>2, <3>3, <3>5, <3>6
  <2> QED
    BY <2>1, <2>2, <2>4
<1>4. PlotInv /\ UfseomTaken => ReadsUfseomReports
  BY <1>3 DEF ReadsUfseomReports
<1> QED
  BY <1>2, <1>4, PlotInvariance, PTL
=============================================================================
