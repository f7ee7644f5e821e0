----------------------------- MODULE UfseomProps -----------------------------
(***************************************************************************)
(* What ufseom must guarantee, stated of the module Ufseom.                *)
(***************************************************************************)
EXTENDS Ufseom

\* A store into data->er (ufs_eom.c:391-395) is inside the buffer, although the
\* count is compared with its size only after the store (396): whenever a row
\* may be logged there is room for it, and no row was ever logged beyond.
ResultsInBounds ==
    /\ pc \in Scanning \ {"disable"} => Len(er) < eom_result_count
    /\ Len(er) <= eom_result_count

\* What data->er holds at any time is the beginning of the grid: the i-th row is
\* of the i-th point, and while the loops of main (ufs_eom.c:835-852) run, the
\* rows filled are those of the points before the one at hand.
ScanProgress ==
    /\ \A i \in 1 .. Len(er) : GridIndex(opt, er[i].lane, er[i].timing, er[i].volt) = i - 1
    /\ pc \in Scanning =>
         /\ InGrid(opt, cur.l, cur.t, cur.v)
         /\ cur.l + cur.n = opt.lane + opt.num_lanes
         /\ Len(er) = GridIndex(opt, cur.l, cur.t, cur.v) + (IF pc = "disable" THEN 1 ELSE 0)
    /\ pc = "report" => Len(er) = ResultCount(opt)

\* A row that is logged (ufs_eom.c:384-401) is of a measurement of that very
\* point: the monitor of its lane was started since the program began, with the
\* timing and voltage of the row and with NO_ADAPT in force, it has come to its
\* end, and the count of the row is the count it ended with.
RowMeasured ==
    Len(er') > Len(er) =>
        LET r == er'[Len(er')]
            s == mon[<<opt.local_peer, r.lane>>]
        IN  /\ s.run.mine /\ s.run.no_adapt
            /\ StepOf(s.run.timing) = r.timing
            /\ StepOf(s.run.volt) = r.volt
            /\ ~s.start /\ ~s.armed
            /\ s.tested >= opt.target_test_count \/ s.errors >= ErrorThreshold
            /\ r.error_cnt = s.errors

RowsAreMeasured == [][RowMeasured]_vars

\* A monitor that is enabled is restarted by every later power mode change, so
\* the lanes the main loop (ufs_eom.c:835-852) has passed are disabled: while
\* it scans the next lane, and all of them once a report is written.
MonitorsReleased ==
    \A l \in Connected :
        (/\ opt.lane <= l
         /\ \/ pc \in Scanning /\ l < cur.l
            \/ report.saved /\ l < opt.lane + opt.num_lanes)
        => ~mon[<<opt.local_peer, l>>].enable

\* Whatever fails, main gives back each file and buffer it obtained
\* (ufs_eom.c:861-867), and the labels it jumps to release nothing it still uses.
NoLeak ==
    /\ pc = "done" => held = {}
    /\ pc \in Scanning \cup {"report"} =>
         held = {"bsg", "er"} \cup (IF opt.do_io THEN {"tmp", "buf"} ELSE {})

\* main returns SUCCESS exactly when there is a report, and the report has one
\* row for each point of the grid, in the order of the grid; on a disk that fills
\* up (ufs_eom.c:433-437) it has the first of them.
SuccessMeansComplete ==
    /\ pc = "done" => (ret = SUCCESS <=> report.saved)
    /\ report.saved =>
         /\ ~DiskMayFill => Len(report.rows) = ResultCount(opt)
         /\ \A i \in 1 .. Len(report.rows) :
              LET r == report.rows[i]
              IN  GridIndex(opt, r.lane, r.timing, r.volt) = i - 1

\* Every run comes to an end: neither the polling of the UniPro state
\* (ufs_eom.c:290-298) nor repeat_eom_scan (337-405) goes on for ever.
Termination == <>(pc = "done")

-----------------------------------------------------------------------------
\* The run seen as a sweep: what it is to visit, what it has logged, what the
\* report has, and whether it has failed.
SweepGrid == LET o == Resolve(opt, caps) IN IF RangeOK(o, caps) THEN GridOf(o) ELSE <<>>

SweepOutcome ==
    IF report.saved THEN "published" ELSE IF ret = ERROR THEN "failed" ELSE "none"

Sweep == INSTANCE EomSweep WITH
    ErrorCounts <- 0 .. ErrorThreshold,
    grid <- SweepGrid,
    rows <- er,
    published <- report.rows,
    outcome <- SweepOutcome

\* ufseom implements the sweep, its progress included.
RefinesSweep == Sweep!FairSpec

\* The steps alone, for the runs whose calls may fail.
StepsRefineSweep == Sweep!Spec

-----------------------------------------------------------------------------
\* ufs_eom.c:87 and 579 say of a run without -L: "collect EOM data for all
\* connected lanes".  Then a run in which no call fails reports, for the bounds
\* accepted, every lane that is connected.
AllConnectedLanesReported ==
    (/\ pc = "done" /\ opt.num_lanes = 2
     /\ Supported /\ RangeOK(opt, caps)) =>
        \A l \in Connected : \E i \in 1 .. Len(report.rows) : report.rows[i].lane = l
=============================================================================
