------------------------------- MODULE Common -------------------------------
(***************************************************************************)
(* What the programs share (common.c and common.h): their return codes and *)
(* the reading of a number from an option's argument; and, for the         *)
(* scripts, values that may be None.                                       *)
(***************************************************************************)
EXTENDS Integers

SUCCESS == 0
INIT == -1
ERROR == -2

\* enum uic_operation_target: the host and the device.
LocalSide == 0
PeerSide == 1
Sides == {LocalSide, PeerSide}

\* A value that the scripts may have as None is a set of at most one value.
None == {}
Some(x) == {x}
The(s) == CHOOSE x \in s : TRUE
IsOptional(s, S) == s = None \/ (The(s) \in S /\ s = Some(The(s)))

\* An argument as strtol, atoi and their wider kin see it: written in hexadecimal
\* or not, read to its end or not, its first character a "0" or not, and the number
\* that is read, after the conversion to the type it is kept in.
ArgumentRecords == [hex : BOOLEAN, clean : BOOLEAN, zero : BOOLEAN, num : Int]

IsNumber(a) == (a.hex => a.clean) /\ (a.num = 0 => a.zero)

\* get_value_from_cli
ReadsNatural(a) == IsNumber(a) /\ a.num >= 0

\* get_ull_from_cli: no value of an unsigned type is negative.  A number of 64
\* bits is written here as the signed number of the same bits.
ReadsUnsigned(a) == IsNumber(a)

\* init_device_path (and the output path of ufseom): an empty path and one of 256
\* characters or more are refused.
Paths == {"empty", "too_long", "spaced", "no_slash", "folder/"}
PathOK(p) == p \notin {"empty", "too_long"}
=============================================================================
