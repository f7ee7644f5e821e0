------------------------------ MODULE EomSweep ------------------------------
(***************************************************************************)
(* What one run of ufseom promises: it visits the points of a grid in      *)
(* order, each once, and in the end either publishes a report of exactly   *)
(* the points and counts it collected, or fails and publishes nothing.     *)
(***************************************************************************)
EXTENDS Naturals, Sequences

CONSTANT ErrorCounts        \* the counts a monitor can stop with

VARIABLES
    grid,           \* the points to visit, empty when they cannot be measured
    rows,           \* the points measured so far with their counts
    published,      \* the rows of the report
    outcome         \* "none" until the report is there or given up

vars == <<grid, rows, published, outcome>>

Row(p, e) == [lane |-> p.lane, timing |-> p.timing, volt |-> p.volt, error_cnt |-> e]

Init ==
    /\ rows = <<>>
    /\ published = <<>>
    /\ outcome = "none"

Measure ==
    /\ outcome = "none"
    /\ Len(rows) < Len(grid)
    /\ \E e \in ErrorCounts : rows' = Append(rows, Row(grid[Len(rows) + 1], e))
    /\ UNCHANGED <<grid, published, outcome>>

Publish ==
    /\ outcome = "none"
    /\ grid # <<>>
    /\ Len(rows) = Len(grid)
    /\ published' = rows
    /\ outcome' = "published"
    /\ UNCHANGED <<grid, rows>>

Abandon ==
    /\ outcome = "none"
    /\ outcome' = "failed"
    /\ UNCHANGED <<grid, rows, published>>

Next == Measure \/ Publish \/ Abandon

Spec == Init /\ [][Next]_vars

\* A run does not stay at a point for ever.
FairSpec == Spec /\ WF_vars(Next)
=============================================================================
