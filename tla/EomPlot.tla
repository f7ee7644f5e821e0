------------------------------- MODULE EomPlot -------------------------------
(***************************************************************************)
(* The script ufs-eom-plot.py (open_file and what it calls): it reads a    *)
(* report line by line, fills the grid of each lane, looks for the centre  *)
(* of the eye and says whether the mask around it is free of errors.  One  *)
(* action per line and per lane.  Times are in 0.0001 UI and voltages in   *)
(* 0.01 mV, to which the script rounds.  A definition whose name ends in   *)
(* Slip is the one after it with a slip in it; nothing uses it.            *)
(***************************************************************************)
EXTENDS EomReports, FiniteSetsExt, Functions

CONSTANTS
    UfseomFiles,    \* reports that ufseom saves
    OtherFiles      \* other files that may be given to the script

Files == UfseomFiles \cup OtherFiles

\* ufseom saves no report below gear 4 (ufs_eom.c:711) and has one row for each
\* point of its scan.
ASSUME PlotAssumption ==
    /\ \A f \in Files : IsFile(f)
    /\ \A f \in UfseomFiles :
         /\ IsUfseomReport(f) /\ f[3].gear >= 4
         /\ \A i \in {5, 6} : f[i].steps # Some(0) /\ f[i].offset # 0
         /\ \A i \in 8 .. Len(f) :
              /\ f[i].lane \in {0, 1}
              /\ \A j \in 8 .. Len(f) :
                   <<f[i].lane, f[i].t, f[i].v>> = <<f[j].lane, f[j].t, f[j].v>> => i = j

VARIABLES
    pc,             \* "read", "fill", "plot", or one of the ways to end
    file,           \* file_data
    line_no,        \* how many lines are read
    timing,         \* timing_max_steps and timing_max_offset
    voltage,        \* voltage_max_steps and voltage_max_offset
    ufs_gear,       \* the text of the gear line, None before it is read
    gear,           \* the gear taken from the text at the last row
    lane_list,      \* the lanes in the order of their first rows
    data,           \* lane0_data and lane1_data: point to error count
    bad_data_count,
    eye_center,     \* lane0_eye_center and lane1_eye_center
    skip_result,    \* single_lane_eom_skip_result
    plotted,        \* how many lanes of lane_list are plotted
    verdict         \* the text in the mask of each lane

vars == <<pc, file, line_no, timing, voltage, ufs_gear, gear, lane_list, data,
          bad_data_count, eye_center, skip_result, plotted, verdict>>

PlotLanes == {0, 1}
INVALID_ERROR_COUNT == 999
Ends == {"plotted", "refused", "quit"}
Points(steps, vsteps) == (-steps .. steps) \X (-vsteps .. vsteps)

TypeOK ==
    /\ pc \in {"read", "fill", "plot"} \cup Ends
    /\ line_no \in 0 .. Len(file)
    /\ timing \in [steps : Nat, offset : Nat]
    /\ voltage \in [steps : Nat, offset : Nat]
    /\ IsOptional(ufs_gear, Nat)
    /\ gear \in Nat
    /\ lane_list \in Seq(Nat) /\ IsInjective(lane_list)
    /\ \A l \in PlotLanes : \A p \in DOMAIN data[l] : p \in Int \X Int /\ data[l][p] \in Nat
    /\ bad_data_count \in Nat
    /\ \A l \in PlotLanes : IsOptional(eye_center[l], Int)
    /\ skip_result \in BOOLEAN
    /\ plotted \in 0 .. Len(lane_list)
    /\ verdict \in [PlotLanes -> {"none", "PASS", "FAIL"}]

Init ==
    /\ pc = "read"
    /\ file \in Files
    /\ line_no = 0
    /\ timing = [steps |-> 0, offset |-> 0]
    /\ voltage = [steps |-> 0, offset |-> 0]
    /\ ufs_gear = None
    /\ gear = 0
    /\ lane_list = <<>>
    /\ data = [l \in PlotLanes |-> <<>>]
    /\ bad_data_count = 0
    /\ eye_center = [l \in PlotLanes |-> None]
    /\ skip_result = FALSE
    /\ plotted = 0
    /\ verdict = [l \in PlotLanes |-> "none"]

Goto(label) == pc' = label
plotVars == <<eye_center, skip_result, plotted, verdict>>

-----------------------------------------------------------------------------
\* The loop over the lines.
Line == file[line_no + 1]
Reads(kind) == pc = "read" /\ line_no < Len(file) /\ Line.kind = kind /\ line_no' = line_no + 1

\* A number of steps that is None is no int, and one that is 0 divides nothing.
ReadLimits(axis) ==
    IF Line.steps \in {None, Some(0)}
    THEN Goto("quit") /\ UNCHANGED axis
    ELSE axis' = [steps |-> The(Line.steps), offset |-> Line.offset] /\ UNCHANGED pc

ReadTiming ==
    /\ Reads("timing")
    /\ ReadLimits(timing)
    /\ UNCHANGED <<file, voltage, ufs_gear, gear, lane_list, data, bad_data_count, plotVars>>

ReadVoltage ==
    /\ Reads("voltage")
    /\ ReadLimits(voltage)
    /\ UNCHANGED <<file, timing, ufs_gear, gear, lane_list, data, bad_data_count, plotVars>>

ReadGear ==
    /\ Reads("gear")
    /\ ufs_gear' = Some(Line.gear)
    /\ UNCHANGED <<pc, file, timing, voltage, gear, lane_list, data, bad_data_count, plotVars>>

ReadOther ==
    /\ Reads("title") \/ Reads("other")
    /\ UNCHANGED <<pc, file, timing, voltage, ufs_gear, gear, lane_list, data,
                   bad_data_count, plotVars>>

WithLaneSlip(l) == Append(lane_list, l)         \* one entry per row

WithLane(l) == IF l \in Range(lane_list) THEN lane_list ELSE Append(lane_list, l)

\* The row at hand in the data of its lane; a row given twice counts as the last.
Stored(r) ==
    [data EXCEPT ![r.lane] =
        [p \in DOMAIN @ \cup {<<r.t, r.v>>} |-> IF p = <<r.t, r.v>> THEN r.e ELSE @[p]]]

GearRefusedSlip(g) == g <= 4

GearRefused(g) == g < 4

\* The gear of the row is looked for in the text of the gear line: without one the
\* row is bad.
ReadRow ==
    /\ Reads("row")
    /\ lane_list' = WithLane(Line.lane)
    /\ \/ /\ ufs_gear = None
          /\ bad_data_count' = bad_data_count + 1
          /\ UNCHANGED <<pc, gear, data>>
       \/ /\ ufs_gear # None
          /\ gear' = The(ufs_gear)
          /\ IF GearRefused(gear') THEN Goto("refused") /\ UNCHANGED data
             ELSE IF Line.lane \notin PlotLanes THEN Goto("quit") /\ UNCHANGED data
             ELSE data' = Stored(Line) /\ UNCHANGED pc
          /\ UNCHANGED bad_data_count
    /\ UNCHANGED <<file, timing, voltage, ufs_gear, plotVars>>

\* What follows the loop: bad rows, or a missing line of limits, end the script.
EndOfFile ==
    /\ pc = "read" /\ line_no = Len(file)
    /\ Goto(IF bad_data_count # 0 THEN "refused"
            ELSE IF timing.offset = 0 \/ voltage.offset = 0 THEN "quit" ELSE "fill")
    /\ UNCHANGED <<file, line_no, timing, voltage, ufs_gear, gear, lane_list, data,
                   bad_data_count, plotVars>>

Grid == Points(timing.steps, voltage.steps)

Filled(counts) ==
    [p \in DOMAIN counts \cup Grid |->
        IF p \in DOMAIN counts THEN counts[p] ELSE INVALID_ERROR_COUNT]

\* Each point of the grid that has no row gets a count that stands for none.
FillGrid ==
    /\ pc = "fill"
    /\ data' = [l \in PlotLanes |->
                  IF l \in Range(lane_list) THEN Filled(data[l]) ELSE data[l]]
    /\ Goto("plot")
    /\ UNCHANGED <<file, line_no, timing, voltage, ufs_gear, gear, lane_list,
                   bad_data_count, plotVars>>
-----------------------------------------------------------------------------
\* find_eye_width_boundary: from the middle outwards, at voltage 0, to the first
\* point that is not free of errors.  No measurement there: no boundary.
Count(l, t) == data[l][<<t, 0>>]

BoundarySlip(l, direction) ==       \* the first point with errors
    LET stops == {k \in 0 .. timing.steps : Count(l, direction * k) > 0}
    IN  IF stops = {} THEN Some(direction * timing.steps)
        ELSE IF Count(l, direction * Min(stops)) = INVALID_ERROR_COUNT THEN None
        ELSE Some(direction * Min(stops))

Boundary(l, direction) ==
    LET stops == {k \in 0 .. timing.steps : Count(l, direction * k) > 0}
    IN  IF stops = {} THEN Some(direction * timing.steps)
        ELSE IF Count(l, direction * Min(stops)) = INVALID_ERROR_COUNT THEN None
        ELSE Some(direction * Max({Min(stops) - 1, 0}))

\* calculate_eye_width_center
EyeCenter(l) ==
    LET left == Boundary(l, -1)
        right == Boundary(l, 1)
    IN  IF None \in {left, right} THEN None
        ELSE Some(The(left) + (The(right) - The(left) + 1) \div 2)

RoundedDiv(n, d) == (2 * n + d) \div (2 * d)
UI(t) == RoundedDiv(100 * t * timing.offset, timing.steps)
MilliVolt(v) == RoundedDiv(1000 * v * voltage.offset, voltage.steps)
Abs(x) == IF x < 0 THEN -x ELSE x

\* in_eye_mask: a rhombus 0.3 UI wide and 60 mV high for gear 5, and otherwise
\* 0.48 UI wide and 80 mV high.
InEyeMask(p, center) ==
    LET dx == Abs(UI(p[1]) - UI(center))
        dy == Abs(MilliVolt(p[2]))
    IN  IF gear = 5 THEN 2 * dx + dy <= 3000 ELSE 5 * dx + 3 * dy <= 12000

Mask(center) == IF center = None THEN {} ELSE {p \in Grid : InEyeMask(p, The(center))}

\* validate_data looks for points without data, all of which FillGrid has filled.
MissingData(l) ==
    ((-timing.steps .. timing.steps - 1) \X (-voltage.steps .. voltage.steps))
        \ DOMAIN data[l]

SkipsSlip(l, mask) == skip_result       \* points without a measurement taken for errors

Skips(l, mask) == skip_result \/ \E p \in mask : data[l][p] = INVALID_ERROR_COUNT

Verdict(l, mask) ==
    IF mask = {} \/ Skips(l, mask) THEN "none"
    ELSE IF \E p \in mask : data[l][p] > 0 THEN "FAIL" ELSE "PASS"

\* One turn of the loop over the lanes: validate_data, calculate_eye_width_center
\* and plot_eye.  What makes a verdict be skipped is never reset.
PlotLane ==
    /\ pc = "plot" /\ plotted < Len(lane_list)
    /\ LET l == lane_list[plotted + 1]
           center == EyeCenter(l)
       IN  IF MissingData(l) # {} THEN Goto("refused") /\ UNCHANGED plotVars
           ELSE /\ eye_center' = [eye_center EXCEPT ![l] = center]
                /\ skip_result' = Skips(l, Mask(center))
                /\ verdict' = [verdict EXCEPT ![l] = Verdict(l, Mask(center))]
                /\ plotted' = plotted + 1
                /\ UNCHANGED pc
    /\ UNCHANGED <<file, line_no, timing, voltage, ufs_gear, gear, lane_list, data,
                   bad_data_count>>

Finish ==
    /\ pc = "plot" /\ plotted = Len(lane_list)
    /\ Goto("plotted")
    /\ UNCHANGED <<file, line_no, timing, voltage, ufs_gear, gear, lane_list, data,
                   bad_data_count, plotVars>>

Terminated == pc \in Ends /\ UNCHANGED vars

Next ==
    \/ ReadTiming \/ ReadVoltage \/ ReadGear \/ ReadOther \/ ReadRow
    \/ EndOfFile \/ FillGrid \/ PlotLane \/ Finish \/ Terminated

Spec == Init /\ [][Next]_vars

-----------------------------------------------------------------------------
\* The rows of the file for a point; of several the last one counts.
RowsFor(l, p) ==
    {i \in 1 .. Len(file) : /\ file[i].kind = "row"
                            /\ file[i].lane = l /\ <<file[i].t, file[i].v>> = p}
Measured(l, p) == RowsFor(l, p) # {}
Errors(l, p) == file[Max(RowsFor(l, p))].e

PlottedLanes == {lane_list[i] : i \in 1 .. plotted}
Unmeasured(l) == {p \in Mask(eye_center[l]) : ~Measured(l, p)}

\* PASS and FAIL (ufs-eom-plot.py:447-451) are said of a mask whose every point
\* was measured, and say whether one of them has errors.  A lane with a known
\* centre has its verdict, unless it or a lane plotted before it lacks a point.
VerdictHonest ==
    \A l \in PlottedLanes :
        /\ verdict[l] # "none" =>
             /\ Unmeasured(l) = {}
             /\ verdict[l] = "PASS" <=> \A p \in Mask(eye_center[l]) : Errors(l, p) = 0
        /\ verdict[l] = "none" =>
             eye_center[l] = None \/ \E k \in PlottedLanes : Unmeasured(k) # {}

\* The eye is what can be reached from the middle without an error.  Its centre
\* (ufs-eom-plot.py:310-330) has as many points of the eye to its left as to its
\* right, or one more; it is the middle if the eye has closed, and there is none
\* if an end of the eye was not measured.
ErrorFree(l, t) == Measured(l, <<t, 0>>) /\ Errors(l, <<t, 0>>) = 0
Between(s, t) == IF s <= t THEN s .. t ELSE t .. s
Eye(l) == {t \in -timing.steps .. timing.steps : \A s \in Between(0, t) : ErrorFree(l, s)}
Rim(l) == {t \in -timing.steps .. timing.steps :
             t \notin Eye(l) /\ \A s \in Between(0, t) \ {t} : s \in Eye(l)}

CentreRight ==
    \A l \in PlottedLanes :
        IF \E t \in Rim(l) : ~Measured(l, <<t, 0>>) THEN eye_center[l] = None
        ELSE IF Eye(l) = {} THEN eye_center[l] = Some(0)
        ELSE \E c \in Eye(l) :
               /\ eye_center[l] = Some(c)
               /\ Cardinality({t \in Eye(l) : t < c}) - Cardinality({t \in Eye(l) : t > c})
                    \in {0, 1}

\* A report that ufseom saves (ufs_eom.c:426-435) is plotted, with each lane that
\* has a row in it, every row of them taken as it stands.
ReadsUfseomReports ==
    pc \in Ends /\ file \in UfseomFiles =>
        /\ pc = "plotted" /\ plotted = Len(lane_list)
        /\ \A i \in 1 .. Len(file) : file[i].kind = "row" =>
             /\ file[i].lane \in PlottedLanes
             /\ data[file[i].lane][<<file[i].t, file[i].v>>] = file[i].e

\* README.md:22 says of ufs-eom.py that it "generates a report, such as
\* `local/peer_lane_0/_1.eom`, which can be fed into `ufs-eom-plot.py` to generate
\* UFS Eye diagrams": then a report of the script with rows in it is plotted.
PyReportsPlotted ==
    pc \in Ends /\ (\E i \in 1 .. Len(file) : file[i].kind = "row") => plotted > 0
=============================================================================
