--------------------------- MODULE BestEffortSweep ---------------------------
(***************************************************************************)
(* What one run of ufs-eom.py promises: it goes through the points of a    *)
(* grid in order, each once, and writes down the count of a point or       *)
(* leaves the point out.  It says that it is finished only when it has     *)
(* gone through all of them.  What was written down stays, finished or not.*)
(***************************************************************************)
EXTENDS Naturals, Sequences

CONSTANT ErrorCounts        \* the counts a monitor can stop with

VARIABLES
    grid,           \* the points to go through
    passed,         \* how many of them are behind
    rows,           \* the points written down with their counts
    outcome         \* "none", "finished" or "abandoned"

vars == <<grid, passed, rows, outcome>>

Row(p, e) == [lane |-> p.lane, timing |-> p.timing, volt |-> p.volt, error_cnt |-> e]

Init ==
    /\ passed = 0
    /\ rows = <<>>
    /\ outcome = "none"

\* The next point, with a row or without.
Pass ==
    /\ outcome = "none"
    /\ passed < Len(grid)
    /\ passed' = passed + 1
    /\ \/ \E e \in ErrorCounts : rows' = Append(rows, Row(grid[passed + 1], e))
       \/ UNCHANGED rows
    /\ UNCHANGED <<grid, outcome>>

Finish ==
    /\ outcome = "none"
    /\ passed = Len(grid)
    /\ outcome' = "finished"
    /\ UNCHANGED <<grid, passed, rows>>

Abandon ==
    /\ outcome = "none"
    /\ outcome' = "abandoned"
    /\ UNCHANGED <<grid, passed, rows>>

Next == Pass \/ Finish \/ Abandon

Spec == Init /\ [][Next]_vars
=============================================================================
