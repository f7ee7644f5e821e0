----------------------------- MODULE MCLsufsCli -----------------------------
(***************************************************************************)
(* A small instance of the command line of lsufs.                          *)
(***************************************************************************)
EXTENDS LsufsCli

\* The opcodes at the edge of their range, a number that is none of an unsigned
\* type but INIT, a word that is no number, and a number with words after it.
EdgeArguments ==
    {[hex |-> FALSE, clean |-> TRUE, zero |-> FALSE, num |-> x] : x \in {-1, 4, 9}}
        \cup {[hex |-> FALSE, clean |-> FALSE, zero |-> FALSE, num |-> x] : x \in {0, 4}}
=============================================================================
