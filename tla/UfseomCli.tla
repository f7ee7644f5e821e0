----------------------------- MODULE UfseomCli -----------------------------
(***************************************************************************)
(* The command line of ufseom: init_eom_operation and parse_args of        *)
(* ufs_eom.c.  The options come in any order and number; each is one step  *)
(* of the getopt loop.  The result is what the module Ufseom starts from.  *)
(***************************************************************************)
EXTENDS EomSteps

CONSTANTS
    Arguments,      \* what may follow an option that takes a number
    MaxOptions      \* bound on the options of one command line

ASSUME CliAssumption ==
    /\ Arguments \subseteq ArgumentRecords
    /\ MaxOptions \in Nat

VARIABLES
    phase,      \* "parsing" until parse_args returns
    ret,        \* ret of parse_args
    g,          \* the global EOM control parameters, local_peer and num_lanes
    given,      \* for each option the value it was last given, for the properties
    count       \* options read so far

vars == <<phase, ret, g, given, count>>

BoundOptions == {"voltage_low", "voltage_high", "timing_left", "timing_right"}
OptionNames == BoundOptions \cup {"side", "lane", "target", "data", "output", "device"}

\* init_eom_operation; what it does not set is the zero of a global.
Init ==
    /\ phase = "parsing"
    /\ ret = ERROR
    /\ g = [local_peer |-> LocalSide, lane |-> INIT, num_lanes |-> 0,
            target_test_count |-> INIT, do_io |-> FALSE,
            voltage_low |-> EOM_TIMING_VOLTAGE_INIT, voltage_high |-> EOM_TIMING_VOLTAGE_INIT,
            timing_left |-> EOM_TIMING_VOLTAGE_INIT, timing_right |-> EOM_TIMING_VOLTAGE_INIT,
            output_path |-> "empty", device_path |-> "empty"]
    /\ given = [o \in OptionNames |-> {}]
    /\ count = 0

-----------------------------------------------------------------------------
\* get_voltage_timing_value_from_cli: a negative number is a number.
ReadsSigned(a) == IsNumber(a)

LaneOK(a) == ReadsNatural(a) /\ a.num \in LaneNumbers
TargetOKSlip(a) == ReadsNatural(a) /\ a.num <= EOM_TARGET_TEST_COUNT_MAX     \* 0 let in
TargetOK(a) == ReadsNatural(a) /\ 0 < a.num /\ a.num <= EOM_TARGET_TEST_COUNT_MAX

\* One turn of the loop: an option that is taken leaves the loop running.
Take(name, x, globals) ==
    /\ ret' = SUCCESS
    /\ g' = globals
    /\ given' = [given EXCEPT ![name] = {x}]
    /\ UNCHANGED phase

Refuse == phase' = "rejected" /\ ret' = ERROR /\ UNCHANGED <<g, given>>

SideOption(s) == Take("side", s, [g EXCEPT !.local_peer = s])

DataOption == Take("data", TRUE, [g EXCEPT !.do_io = TRUE])

\* -V changes nothing but what is printed.
VerboseOption == ret' = SUCCESS /\ UNCHANGED <<phase, g, given>>

LaneOptionSlip(a) ==            \* num_lanes not set
    IF LaneOK(a) THEN Take("lane", a.num, [g EXCEPT !.lane = a.num]) ELSE Refuse

LaneOption(a) ==
    IF LaneOK(a) THEN Take("lane", a.num, [g EXCEPT !.lane = a.num, !.num_lanes = 1]) ELSE Refuse

TargetOption(a) ==
    IF TargetOK(a) THEN Take("target", a.num, [g EXCEPT !.target_test_count = a.num]) ELSE Refuse

BoundOption(b, a) ==
    IF ReadsSigned(a) THEN Take(b, a.num, [g EXCEPT ![b] = a.num]) ELSE Refuse

OutputOption(p) ==
    IF PathOK(p) THEN Take("output", p, [g EXCEPT !.output_path = p]) ELSE Refuse

DeviceOption(p) ==
    IF PathOK(p) THEN Take("device", p, [g EXCEPT !.device_path = p]) ELSE Refuse

UnknownOption == Refuse

ParseOption ==
    /\ phase = "parsing"
    /\ count < MaxOptions
    /\ count' = count + 1
    /\ \/ \E s \in Sides : SideOption(s)
       \/ DataOption
       \/ VerboseOption
       \/ \E a \in Arguments : LaneOption(a)
       \/ \E a \in Arguments : TargetOption(a)
       \/ \E a \in Arguments, b \in BoundOptions : BoundOption(b, a)
       \/ \E p \in Paths : OutputOption(p)
       \/ \E p \in Paths : DeviceOption(p)
       \/ UnknownOption

-----------------------------------------------------------------------------
\* The defaults set after the loop.
Defaults ==
    [g EXCEPT !.lane = IF g.lane = INIT THEN 0 ELSE @,
              !.num_lanes = IF g.lane = INIT THEN 2 ELSE @,
              !.target_test_count = IF @ = INIT THEN EOM_TARGET_TEST_COUNT_DEFAULT ELSE @]

\* The checks made after the loop; check_output_path wants a folder with no space.
ChecksPass ==
    /\ g.local_peer # INIT
    /\ g.device_path # "empty"
    /\ g.output_path \notin {"empty", "spaced", "no_slash"}

\* The options are exhausted.  With none at all, and with -h or --version as the
\* first, ret is still ERROR.
EndOfOptions ==
    /\ phase = "parsing"
    /\ IF ret = SUCCESS /\ ChecksPass
       THEN phase' = "accepted" /\ g' = Defaults /\ UNCHANGED ret
       ELSE phase' = "rejected" /\ ret' = ERROR /\ UNCHANGED g
    /\ UNCHANGED <<given, count>>

Returned == phase # "parsing" /\ UNCHANGED vars

Next == ParseOption \/ EndOfOptions \/ Returned

Spec == Init /\ [][Next]_vars

-----------------------------------------------------------------------------
\* The options the rest of the program runs with.
Accepted ==
    [local_peer |-> g.local_peer, lane |-> g.lane, num_lanes |-> g.num_lanes,
     target_test_count |-> g.target_test_count, do_io |-> g.do_io,
     voltage_low |-> g.voltage_low, voltage_high |-> g.voltage_high,
     timing_left |-> g.timing_left, timing_right |-> g.timing_right]

GivenOr(name, default) == IF given[name] = {} THEN {default} ELSE given[name]

\* Whatever options parse_args (ufs_eom.c:498-604) is given, what it accepts is
\* what main can run: the assumption the module Ufseom makes of its options.
AcceptedWellFormed ==
    phase = "accepted" =>
        /\ ret = SUCCESS
        /\ Accepted \in AcceptedOptions
        /\ given["device"] # {} /\ given["output"] = {"folder/"}

\* Of an option given several times the last counts, one not given has its
\* default, and both lanes are scanned exactly when no lane was given, in
\* whatever order the options came (ufs_eom.c:515-585).
LastGivenWins ==
    phase = "accepted" =>
        /\ {g.lane} = GivenOr("lane", 0)
        /\ g.num_lanes = IF given["lane"] = {} THEN 2 ELSE 1
        /\ {g.target_test_count} = GivenOr("target", EOM_TARGET_TEST_COUNT_DEFAULT)
        /\ {g.do_io} = GivenOr("data", FALSE)
        /\ given["side"] # {} => {g.local_peer} = given["side"]
        /\ \A b \in BoundOptions : {g[b]} = GivenOr(b, EOM_TIMING_VOLTAGE_INIT)

\* ufs_eom.c:571-574 reject a command line with neither -p nor -l: "Local or
\* peer is not given".
AcceptedSideChosen == phase = "accepted" => given["side"] # {}
=============================================================================
