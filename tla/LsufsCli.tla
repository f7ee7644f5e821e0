------------------------------ MODULE LsufsCli ------------------------------
(***************************************************************************)
(* The command line of lsufs, from main to the call of do_uic_operation or *)
(* do_query_operation.  It is read twice: parse_args reads it with getopt  *)
(* and fills in the operation, then the shell splits the same words again  *)
(* and runs the command they name.  A definition whose name ends in Slip   *)
(* is the one after it with a slip in it; nothing uses it.                 *)
(***************************************************************************)
EXTENDS LsufsTypes, FiniteSets

CONSTANTS
    Arguments,      \* what may follow an option that takes a number
    MaxWords,       \* bound on the words at which no more options are given
    MaxPieces       \* bound on the words that one argument with spaces is split into

ASSUME CliAssumption ==
    /\ Arguments \subseteq ArgumentRecords
    /\ MaxWords \in Nat /\ MaxPieces \in Nat

VARIABLES
    phase,      \* where main is
    command,    \* argv[1]
    op,         \* lsufs_op, INIT where nothing was given
    path,       \* lsufs_op.device_path
    ret,        \* the value main returns, once it does
    words,      \* the words after argv[1], as the shell splits them
    last,       \* for each option the argument it was last given, and
    chosen      \* of each group of options that exclude each other the one given
                \* last: both for the properties

vars == <<phase, command, op, path, ret, words, last, chosen>>

\* The options of the two operations, those that stand alone first.
UicFlags == {"get", "peer", "local", "TX", "RX"}
UicNumbers == {"set", "id", "lane"}
QueryNumbers == {"opcode", "idn", "index", "selector", "value"}
OptionNames == UicFlags \cup UicNumbers \cup QueryNumbers \cup {"device"}

Groups == [mode |-> {"get", "set"}, local_peer |-> {"local", "peer"}, dir |-> {"TX", "RX"}]

SHELL_MAX_ARGS == 15

NoUic == [type |-> "uic", mode |-> INIT, dir |-> INIT, local_peer |-> INIT,
          lane |-> INIT, attr_id |-> INIT, data |-> INIT]

NoQuery == [type |-> "query", opcode |-> INIT, idn |-> INIT, index |-> INIT,
            selector |-> INIT, attr_value |-> INIT]

Init ==
    /\ phase = "start"
    /\ command = "none"
    /\ op = NoUic
    /\ path = "empty"
    /\ ret = ERROR
    /\ words = 0
    /\ last = [o \in OptionNames |-> {}]
    /\ chosen = [q \in DOMAIN Groups |-> {}]

-----------------------------------------------------------------------------
Return(r) == phase' = "returned" /\ ret' = r

\* parse_args up to the options: argv[1] names the operation, and is all there
\* is to read of -h, of -v and of a single -h or --help after an operation.
Start ==
    /\ phase = "start"
    /\ \/ command' = "none" /\ Return(ERROR) /\ UNCHANGED <<op, words>>
       \/ command' = "unknown" /\ Return(ERROR) /\ UNCHANGED <<op, words>>
       \/ /\ command' \in {"-h", "-v"}
          /\ phase' = "shell"
          /\ words' \in 0 .. MaxWords
          /\ UNCHANGED <<op, ret>>
       \/ command' \in {"uic", "query"} /\ phase' = "help" /\ words' = 1 /\ UNCHANGED <<op, ret>>
       \/ /\ command' \in {"uic", "query"}
          /\ phase' = "parsing"
          /\ op' = IF command' = "uic" THEN NoUic ELSE NoQuery
          /\ ret' = ERROR
          /\ UNCHANGED words
    /\ UNCHANGED <<path, last, chosen>>

\* The shell joins the arguments of the program and splits them at each space, so
\* an argument with spaces in it is several words.  The number that atoi reads may
\* have more words after it; a path of nothing but spaces is none.
PiecesOf(a) == IF a.clean THEN {1} ELSE 1 .. MaxPieces
PiecesOfPath(p) == IF p = "spaced" THEN 0 .. MaxPieces ELSE {1}

\* An option has a word to itself or follows others after one dash, and its argument
\* may be part of its word.
AddWords(pieces) ==
    \E n \in pieces - 1 .. pieces + 1 :
        /\ n >= (IF words = 0 THEN 1 ELSE 0)
        /\ words' = words + n

\* A turn of the loop of setup_uic_operation or setup_query_operation: an option
\* that is taken adds its words and lets the loop go on.
Take(name, x, filled, pieces) ==
    /\ op' = filled
    /\ last' = [last EXCEPT ![name] = {x}]
    /\ chosen' = [q \in DOMAIN Groups |-> IF name \in Groups[q] THEN {name} ELSE chosen[q]]
    /\ AddWords(pieces)
    /\ ret' = SUCCESS
    /\ UNCHANGED <<phase, command, path>>

Refuse == Return(ERROR) /\ UNCHANGED <<command, op, path, words, last, chosen>>

FlagFilled(f) ==
    CASE f = "get" -> [op EXCEPT !.mode = GET]
      [] f = "local" -> [op EXCEPT !.local_peer = LocalSide]
      [] f = "peer" -> [op EXCEPT !.local_peer = PeerSide]
      [] f = "TX" -> [op EXCEPT !.dir = TX]
      [] f = "RX" -> [op EXCEPT !.dir = RX]

UicFlag(f) == Take(f, TRUE, FlagFilled(f), 0)

UicFilledSlip(o, x) ==          \* init_set_op without the mode
    CASE o = "set" -> [op EXCEPT !.data = x]
      [] o = "id" -> [op EXCEPT !.attr_id = x]
      [] o = "lane" -> [op EXCEPT !.lane = x]

UicFilled(o, x) ==
    CASE o = "set" -> [op EXCEPT !.mode = SET, !.data = x]
      [] o = "id" -> [op EXCEPT !.attr_id = x]
      [] o = "lane" -> [op EXCEPT !.lane = x]

UicNumber(o, a) ==
    IF ReadsNatural(a)
    THEN \E n \in PiecesOf(a) : Take(o, a.num, UicFilled(o, a.num), n)
    ELSE Refuse

QueryFilled(o, x) ==
    CASE o = "opcode" -> [op EXCEPT !.opcode = x]
      [] o = "idn" -> [op EXCEPT !.idn = x]
      [] o = "index" -> [op EXCEPT !.index = x]
      [] o = "selector" -> [op EXCEPT !.selector = x]
      [] o = "value" -> [op EXCEPT !.attr_value = x]

QueryTakesSlip(o, a) ==         \* opcode > QUERY_REQ_OP_MAX
    IF o = "value" THEN ReadsUnsigned(a)
    ELSE ReadsNatural(a) /\ (o = "opcode" => a.num <= QUERY_REQ_OP_MAX)

QueryTakes(o, a) ==
    IF o = "value" THEN ReadsUnsigned(a)
    ELSE ReadsNatural(a) /\ (o = "opcode" => a.num < QUERY_REQ_OP_MAX)

QueryNumber(o, a) ==
    IF QueryTakes(o, a)
    THEN \E n \in PiecesOf(a) : Take(o, a.num, QueryFilled(o, a.num), n)
    ELSE Refuse

DeviceOption(p) ==
    IF PathOK(p)
    THEN /\ path' = p
         /\ last' = [last EXCEPT !["device"] = {p}]
         /\ \E n \in PiecesOfPath(p) : AddWords(n)
         /\ ret' = SUCCESS
         /\ UNCHANGED <<phase, command, op, chosen>>
    ELSE Refuse

UnknownOption == Refuse

\* getopt_long goes past a word that is no option; the shell counts it.
OtherWord == words' = words + 1 /\ UNCHANGED <<phase, command, op, path, ret, last, chosen>>

ParseOption ==
    /\ phase = "parsing"
    /\ words < MaxWords
    /\ \/ command = "uic" /\ \E f \in UicFlags : UicFlag(f)
       \/ command = "uic" /\ \E o \in UicNumbers, a \in Arguments : UicNumber(o, a)
       \/ command = "query" /\ \E o \in QueryNumbers, a \in Arguments : QueryNumber(o, a)
       \/ \E p \in Paths : DeviceOption(p)
       \/ UnknownOption
       \/ OtherWord

-----------------------------------------------------------------------------
\* uic_op_sanity_check fills in what has a default, query_op_sanity_check nothing.
Or(given, default) == IF given = INIT THEN default ELSE given

UicSane ==
    /\ op.attr_id # INIT
    /\ op.mode # INIT
    /\ op.mode = SET => op.data # INIT

UicDefaults ==
    [op EXCEPT !.local_peer = Or(@, LocalSide), !.dir = Or(@, TX), !.lane = Or(@, 0)]

QuerySaneSlip ==        \* the selector not asked for
    /\ op.opcode # INIT
    /\ op.opcode = WRITE_ATTR => op.attr_value # INIT
    /\ op.idn # INIT /\ op.index # INIT

QuerySane ==
    /\ op.opcode # INIT
    /\ op.opcode = WRITE_ATTR => op.attr_value # INIT
    /\ op.idn # INIT /\ op.index # INIT /\ op.selector # INIT

EndOfOptions ==
    /\ phase = "parsing"
    /\ IF ret = SUCCESS /\ path # "empty" /\ (IF command = "uic" THEN UicSane ELSE QuerySane)
       THEN /\ op' = IF command = "uic" THEN UicDefaults ELSE op
            /\ phase' = "shell"
            /\ UNCHANGED ret
       ELSE Return(ERROR) /\ UNCHANGED op
    /\ UNCHANGED <<command, path, words, last, chosen>>

-----------------------------------------------------------------------------
FitsSlip == words < SHELL_MAX_ARGS - 1      \* gives up one argument earlier

\* shell_interpret_cmd_line gives up at the argument that fills the array.
Fits == words < SHELL_MAX_ARGS

\* shell_process_cmd_line_args: a word that names no command is no error, and a
\* command asked for its help only returns.
Shell ==
    /\ phase \in {"shell", "help"}
    /\ IF ~Fits THEN Return(-1)
       ELSE IF command \in {"-h", "-v"} THEN Return(SUCCESS)
       ELSE IF phase = "help" THEN Return(ERROR)
       ELSE phase' = "run" /\ UNCHANGED ret
    /\ UNCHANGED <<command, op, path, words, last, chosen>>

Over == phase \in {"run", "returned"} /\ UNCHANGED vars

Next == Start \/ ParseOption \/ EndOfOptions \/ Shell \/ Over

Spec == Init /\ [][Next]_vars

-----------------------------------------------------------------------------
\* Whatever the command line, the operation that the shell runs (lsufs.c:92-112)
\* is one that parse_args filled in and found complete: nothing is left at INIT,
\* and it is the operation of the command that is run.
RunsOnlyComplete == phase = "run" => WellFormed(op) /\ op.type = command /\ PathOK(path)

GivenOr(name, default) == IF last[name] = {} THEN {default} ELSE last[name]

UicMeant ==
    /\ chosen.mode = {IF op.mode = SET THEN "set" ELSE "get"}
    /\ chosen.local_peer = {"peer"} <=> op.local_peer = PeerSide
    /\ chosen.dir = {"RX"} <=> op.dir = RX
    /\ op.mode = SET => {op.data} = last["set"]
    /\ {op.attr_id} = last["id"] /\ {op.lane} = GivenOr("lane", 0)

QueryMeant ==
    /\ {op.opcode} = last["opcode"] /\ {op.idn} = last["idn"]
    /\ {op.index} = last["index"] /\ {op.selector} = last["selector"]
    /\ {op.attr_value} = GivenOr("value", INIT)

\* Of options that contradict each other, and of those given more than once, the
\* last counts, and a write carries the data given for it, whatever the order
\* (uic.c:77-126, query.c:99-135).
RunsWhatWasGiven == phase = "run" => IF command = "uic" THEN UicMeant ELSE QueryMeant

\* The options of this command line, and the words they take when each is given
\* once, in a word of its own, with an argument without spaces.
Given == {o \in OptionNames : last[o] # {}}
OptionWords == Cardinality(Given) + Cardinality(Given \ UicFlags)

\* The shell's limit of arguments (shell.c:233) comes on top of what parse_args
\* accepts, and its refusal prints nothing.  There is room for all options of a
\* command and one word more: a command line that is dropped has two words to spare,
\* of options repeated, of arguments with spaces or of words that are no options.
OnlySpareWordsDropped == phase = "shell" /\ ~Fits => words >= OptionWords + 2
=============================================================================
