----------------------------- MODULE MCUfseomCli -----------------------------
(***************************************************************************)
(* Small instances of the command line of ufseom.                          *)
(***************************************************************************)
EXTENDS UfseomCli

Decimal(x) == [hex |-> FALSE, clean |-> TRUE, zero |-> x = 0, num |-> x]

\* The edges of the ranges that are checked, a word that is no number, and a
\* hexadecimal number with something after it.
EdgeArguments ==
    {Decimal(x) : x \in {-1, 0, 1, 2, 127, 128}}
        \cup {[hex |-> FALSE, clean |-> FALSE, zero |-> FALSE, num |-> 0],
              [hex |-> TRUE, clean |-> FALSE, zero |-> TRUE, num |-> 1]}
=============================================================================
