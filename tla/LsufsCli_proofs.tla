--------------------------- MODULE LsufsCli_proofs ---------------------------
(***************************************************************************)
(* Theorems about the command line of lsufs, for every sequence of options *)
(* and every argument they may be given.                                   *)
(***************************************************************************)
EXTENDS LsufsCli, FiniteSetTheorems, TLAPS

\* Operations while their options are read: INIT where nothing was given.
UicFilling ==
    [type : {"uic"}, mode : {INIT, GET, SET}, dir : {INIT, TX, RX},
     local_peer : {INIT} \cup Sides, lane : {INIT} \cup Nat, attr_id : {INIT} \cup Nat,
     data : {INIT} \cup Nat]

QueryFilling ==
    [type : {"query"}, opcode : {INIT} \cup 0 .. QUERY_REQ_OP_MAX - 1,
     idn : {INIT} \cup Nat, index : {INIT} \cup Nat, selector : {INIT} \cup Nat,
     attr_value : Int]

CliTypeOK ==
    /\ phase \in {"start", "parsing", "help", "shell", "run", "returned"}
    /\ path \in Paths
    /\ last = [o \in OptionNames |-> last[o]]
    /\ \A o \in {"set", "id", "lane"} : last[o] \subseteq Nat
    /\ chosen = [q \in DOMAIN Groups |-> chosen[q]]

\* What each command has options for.
OptionsOf(c) ==
    IF c = "uic" THEN UicFlags \cup UicNumbers \cup {"device"}
    ELSE IF c = "query" THEN QueryNumbers \cup {"device"} ELSE {}

\* The operation is that of the options so far, of each group the one given last.
UicSoFar ==
    /\ op \in UicFilling
    /\ chosen["mode"] = IF op.mode = INIT THEN {} ELSE {IF op.mode = SET THEN "set" ELSE "get"}
    /\ chosen["local_peer"] = {"peer"} <=> op.local_peer = PeerSide
    /\ chosen["dir"] = {"RX"} <=> op.dir = RX
    /\ op.mode = SET => {op.data} = last["set"]
    /\ {op.attr_id} = GivenOr("id", INIT)
    /\ {op.lane} = GivenOr("lane", INIT)

QuerySoFar ==
    /\ op \in QueryFilling
    /\ {op.opcode} = GivenOr("opcode", INIT)
    /\ {op.idn} = GivenOr("idn", INIT)
    /\ {op.index} = GivenOr("index", INIT)
    /\ {op.selector} = GivenOr("selector", INIT)
    /\ {op.attr_value} = GivenOr("value", INIT)

ParsedSoFar ==
    phase = "parsing" =>
        /\ command \in {"uic", "query"}
        /\ command = "uic" => UicSoFar
        /\ command = "query" => QuerySoFar
        /\ path = "empty" \/ PathOK(path)

\* What goes on to the shell is complete and what was meant.
Accepted ==
    /\ phase = "shell" => command \in {"-h", "-v", "uic", "query"}
    /\ phase = "run" => command \in {"uic", "query"}
    /\ phase \in {"shell", "run"} /\ command \in {"uic", "query"} =>
        /\ WellFormed(op) /\ op.type = command /\ PathOK(path)
        /\ IF command = "uic" THEN UicMeant ELSE QueryMeant

\* No option of another command is among the words.
OwnOptions ==
    /\ phase = "start" => \A o \in OptionNames : last[o] = {}
    /\ phase = "start" => \A q \in DOMAIN Groups : chosen[q] = {}
    /\ phase = "start" => path = "empty"
    /\ phase \in {"parsing", "shell"} => Given \subseteq OptionsOf(command)

CliInv == CliTypeOK /\ ParsedSoFar /\ Accepted /\ OwnOptions

-----------------------------------------------------------------------------
LEMMA ArgumentNumber ==
    ASSUME NEW a \in Arguments
    PROVE  a.num \in Int
BY CliAssumption DEF ArgumentRecords

LEMMA GroupsAre ==
    /\ DOMAIN Groups = {"mode", "local_peer", "dir"}
    /\ Groups["mode"] = {"get", "set"}
    /\ Groups["local_peer"] = {"local", "peer"}
    /\ Groups["dir"] = {"TX", "RX"}
BY DEF Groups

\* A turn of the loop: the option is the last given of its group, and what was
\* given of the other options and groups stands.
LEMMA TakeOther ==
    ASSUME CliTypeOK, NEW name \in OptionNames, NEW x, NEW filled, NEW n,
           Take(name, x, filled, n)
    PROVE  /\ last' = [o \in OptionNames |-> last'[o]]
           /\ last'[name] = {x}
           /\ \A o \in OptionNames \ {name} : last'[o] = last[o]
           /\ chosen' = [q \in DOMAIN Groups |-> chosen'[q]]
           /\ chosen'["mode"] = IF name \in {"get", "set"} THEN {name} ELSE chosen["mode"]
           /\ chosen'["local_peer"] = IF name \in {"local", "peer"} THEN {name}
                                      ELSE chosen["local_peer"]
           /\ chosen'["dir"] = IF name \in {"TX", "RX"} THEN {name} ELSE chosen["dir"]
           /\ op' = filled
           /\ phase' = phase /\ command' = command /\ path' = path
<1>1. /\ last' = [o \in OptionNames |-> last'[o]]
      /\ last'[name] = {x}
      /\ \A o \in OptionNames \ {name} : last'[o] = last[o]
  BY DEF CliTypeOK, Take
<1>2. chosen' = [q \in DOMAIN Groups |-> IF name \in Groups[q] THEN {name} ELSE chosen[q]]
  BY DEF Take
<1>3. /\ chosen' = [q \in DOMAIN Groups |-> chosen'[q]]
      /\ \A q \in DOMAIN Groups : chosen'[q] = IF name \in Groups[q] THEN {name} ELSE chosen[q]
  BY <1>2, Zenon
<1>4. /\ chosen'["mode"] = IF name \in {"get", "set"} THEN {name} ELSE chosen["mode"]
      /\ chosen'["local_peer"] = IF name \in {"local", "peer"} THEN {name}
                                 ELSE chosen["local_peer"]
      /\ chosen'["dir"] = IF name \in {"TX", "RX"} THEN {name} ELSE chosen["dir"]
  BY <1>3, GroupsAre
<1>5. op' = filled /\ phase' = phase /\ command' = command /\ path' = path
  BY DEF Take
<1> QED
  BY <1>1, <1>3, <1>4, <1>5

\* What is left to show of an option that is taken is that it fills in the field
\* it is for.
LEMMA Taken ==
    ASSUME CliInv, phase = "parsing", NEW name \in OptionNames, name \in OptionsOf(command),
           NEW x, name \in {"set", "id", "lane"} => x \in Nat,
           NEW filled, NEW n, Take(name, x, filled, n),
           command = "uic" => UicSoFar', command = "query" => QuerySoFar'
    PROVE  CliInv'
<1>1. /\ last' = [o \in OptionNames |-> last'[o]]
      /\ last'[name] = {x}
      /\ \A o \in OptionNames \ {name} : last'[o] = last[o]
      /\ chosen' = [q \in DOMAIN Groups |-> chosen'[q]]
      /\ phase' = phase /\ command' = command /\ path' = path
  BY TakeOther DEF CliInv
<1>2. {"set", "id", "lane"} \subseteq OptionNames
  BY DEF OptionNames, UicNumbers
<1>3. CliTypeOK'
  BY <1>1, <1>2 DEF CliInv, CliTypeOK
<1>4. ParsedSoFar'
  BY <1>1 DEF CliInv, ParsedSoFar
<1>5. Given' \subseteq OptionsOf(command)
  BY <1>1 DEF CliInv, OwnOptions, Given
<1>6. OwnOptions'
  BY <1>1, <1>5 DEF OwnOptions, OptionsOf
<1>7. Accepted'
  BY <1>1 DEF Accepted
<1> QED
  BY <1>3, <1>4, <1>6, <1>7 DEF CliInv

\* A command line that is refused leaves nothing to show.
LEMMA CliReturns ==
    ASSUME CliInv, NEW r, Return(r), UNCHANGED <<path, last, chosen>>
    PROVE  CliInv'
BY DEF CliInv, Return, CliTypeOK, ParsedSoFar, Accepted, OwnOptions

LEMMA CliInit == Init => CliInv
<1> SUFFICES ASSUME Init PROVE CliInv
  OBVIOUS
<1>1. /\ \A o \in OptionNames : last[o] = {}
      /\ last = [o \in OptionNames |-> last[o]]
  BY DEF Init
<1>2. /\ \A q \in DOMAIN Groups : chosen[q] = {}
      /\ chosen = [q \in DOMAIN Groups |-> chosen[q]]
  BY DEF Init
<1>3. {"set", "id", "lane"} \subseteq OptionNames
  BY DEF OptionNames, UicNumbers
<1> QED
  BY <1>1, <1>2, <1>3 DEF Init, CliInv, CliTypeOK, ParsedSoFar, Accepted, OwnOptions, Paths

-----------------------------------------------------------------------------
(***************************************************************************)
(* The options of a UIC operation.                                         *)
(***************************************************************************)
LEMMA CliUicFlag ==
    ASSUME CliInv, phase = "parsing", command = "uic", NEW f \in UicFlags, UicFlag(f)
    PROVE  CliInv'
<1>1. f \in OptionNames /\ f \in OptionsOf(command) /\ f \notin {"set", "id", "lane"}
  BY DEF OptionNames, OptionsOf, UicFlags
<1>2. {"set", "id", "lane"} \subseteq OptionNames \ {f}
  BY <1>1 DEF OptionNames, UicNumbers
<1>3. Take(f, TRUE, FlagFilled(f), 0)
  BY DEF UicFlag
<1>4. UicSoFar
  BY DEF CliInv, ParsedSoFar
<1>5. /\ last'["set"] = last["set"] /\ last'["id"] = last["id"] /\ last'["lane"] = last["lane"]
      /\ chosen'["mode"] = IF f \in {"get", "set"} THEN {f} ELSE chosen["mode"]
      /\ chosen'["local_peer"] = IF f \in {"local", "peer"} THEN {f} ELSE chosen["local_peer"]
      /\ chosen'["dir"] = IF f \in {"TX", "RX"} THEN {f} ELSE chosen["dir"]
      /\ op' = FlagFilled(f)
  BY <1>1, <1>2, <1>3, TakeOther DEF CliInv
<1>6. UicSoFar'
  <2>1. CASE f = "get"
    <3>1. op' = [op EXCEPT !.mode = GET]
      BY <1>5, <2>1 DEF FlagFilled
    <3>2. /\ op' \in UicFilling /\ op'.mode = GET
          /\ op'.local_peer = op.local_peer /\ op'.dir = op.dir
          /\ op'.attr_id = op.attr_id /\ op'.lane = op.lane
      BY <1>4, <3>1 DEF UicSoFar, UicFilling
    <3> QED
      BY <1>4, <1>5, <2>1, <3>2 DEF UicSoFar, GivenOr, GET, SET, INIT
  <2>2. CASE f \in {"local", "peer"}
    <3>1. op' = [op EXCEPT !.local_peer = IF f = "local" THEN LocalSide ELSE PeerSide]
      BY <1>5, <2>2 DEF FlagFilled
    <3>2. /\ op' \in UicFilling
          /\ op'.local_peer = IF f = "local" THEN LocalSide ELSE PeerSide
          /\ op'.mode = op.mode /\ op'.dir = op.dir /\ op'.data = op.data
          /\ op'.attr_id = op.attr_id /\ op'.lane = op.lane
      BY <1>4, <3>1 DEF UicSoFar, UicFilling, Sides
    <3> QED
      BY <1>4, <1>5, <2>2, <3>2 DEF UicSoFar, GivenOr, LocalSide, PeerSide
  <2>3. CASE f \in {"TX", "RX"}
    <3>1. op' = [op EXCEPT !.dir = IF f = "TX" THEN TX ELSE RX]
      BY <1>5, <2>3 DEF FlagFilled
    <3>2. /\ op' \in UicFilling /\ op'.dir = IF f = "TX" THEN TX ELSE RX
          /\ op'.mode = op.mode /\ op'.local_peer = op.local_peer /\ op'.data = op.data
          /\ op'.attr_id = op.attr_id /\ op'.lane = op.lane
      BY <1>4, <3>1 DEF UicSoFar, UicFilling
    <3> QED
      BY <1>4, <1>5, <2>3, <3>2 DEF UicSoFar, GivenOr, TX, RX
  <2> QED
    BY <2>1, <2>2, <2>3 DEF UicFlags
<1> QED
  BY <1>1, <1>3, <1>6, Taken

LEMMA CliUicNumber ==
    ASSUME CliInv, phase = "parsing", command = "uic", NEW o \in UicNumbers,
           NEW a \in Arguments, UicNumber(o, a)
    PROVE  CliInv'
<1>1. CASE ~ReadsNatural(a)
  BY <1>1, CliReturns DEF UicNumber, Refuse
<1>2. CASE ReadsNatural(a)
  <2>1. o \in OptionNames /\ o \in OptionsOf(command)
    BY DEF OptionNames, OptionsOf
  <2>2. {"set", "id", "lane"} \subseteq OptionNames
    BY DEF OptionNames, UicNumbers
  <2>3. a.num \in Nat
    BY <1>2, ArgumentNumber DEF ReadsNatural
  <2>4. PICK pieces : Take(o, a.num, UicFilled(o, a.num), pieces)
    BY <1>2 DEF UicNumber
  <2>5. UicSoFar
    BY DEF CliInv, ParsedSoFar
  <2>6. /\ last'[o] = {a.num}
        /\ \A n \in {"set", "id", "lane"} \ {o} : last'[n] = last[n]
        /\ chosen'["mode"] = IF o = "set" THEN {"set"} ELSE chosen["mode"]
        /\ chosen'["local_peer"] = chosen["local_peer"]
        /\ chosen'["dir"] = chosen["dir"]
        /\ op' = UicFilled(o, a.num)
    BY <2>1, <2>2, <2>4, TakeOther DEF CliInv, UicNumbers
  <2>7. UicSoFar'
    <3>1. CASE o = "set"
      <4>1. op' = [op EXCEPT !.mode = SET, !.data = a.num]
        BY <2>6, <3>1 DEF UicFilled
      <4>2. /\ op' \in UicFilling /\ op'.mode = SET /\ op'.data = a.num
            /\ op'.local_peer = op.local_peer /\ op'.dir = op.dir
            /\ op'.attr_id = op.attr_id /\ op'.lane = op.lane
        BY <2>3, <2>5, <4>1 DEF UicSoFar, UicFilling
      <4> QED
        BY <2>5, <2>6, <3>1, <4>2 DEF UicSoFar, GivenOr, SET, INIT
    <3>2. CASE o = "id"
      <4>1. op' = [op EXCEPT !.attr_id = a.num]
        BY <2>6, <3>2 DEF UicFilled
      <4>2. /\ op' \in UicFilling /\ op'.attr_id = a.num
            /\ op'.mode = op.mode /\ op'.data = op.data
            /\ op'.local_peer = op.local_peer /\ op'.dir = op.dir /\ op'.lane = op.lane
        BY <2>3, <2>5, <4>1 DEF UicSoFar, UicFilling
      <4> QED
        BY <2>5, <2>6, <3>2, <4>2 DEF UicSoFar, GivenOr
    <3>3. CASE o = "lane"
      <4>1. op' = [op EXCEPT !.lane = a.num]
        BY <2>6, <3>3 DEF UicFilled
      <4>2. /\ op' \in UicFilling /\ op'.lane = a.num
            /\ op'.mode = op.mode /\ op'.data = op.data
            /\ op'.local_peer = op.local_peer /\ op'.dir = op.dir
            /\ op'.attr_id = op.attr_id
        BY <2>3, <2>5, <4>1 DEF UicSoFar, UicFilling
      <4> QED
        BY <2>5, <2>6, <3>3, <4>2 DEF UicSoFar, GivenOr
    <3> QED
      BY <3>1, <3>2, <3>3 DEF UicNumbers
  <2> QED
    BY <2>1, <2>3, <2>4, <2>7, Taken
<1> QED
  BY <1>1, <1>2

-----------------------------------------------------------------------------
(***************************************************************************)
(* The options of a query operation, and the device.                       *)
(***************************************************************************)
LEMMA CliQueryNumber ==
    ASSUME CliInv, phase = "parsing", command = "query", NEW o \in QueryNumbers,
           NEW a \in Arguments, QueryNumber(o, a)
    PROVE  CliInv'
<1>1. CASE ~QueryTakes(o, a)
  BY <1>1, CliReturns DEF QueryNumber, Refuse
<1>2. CASE QueryTakes(o, a)
  <2>1. o \in OptionNames /\ o \in OptionsOf(command) /\ o \notin {"set", "id", "lane"}
    BY DEF OptionNames, OptionsOf, QueryNumbers
  <2>2. QueryNumbers \subseteq OptionNames
    BY DEF OptionNames
  <2>3. /\ a.num \in Int
        /\ o # "value" => a.num \in Nat
        /\ o = "opcode" => a.num \in 0 .. QUERY_REQ_OP_MAX - 1
    BY <1>2, ArgumentNumber DEF QueryTakes, ReadsNatural, QUERY_REQ_OP_MAX
  <2>4. PICK pieces : Take(o, a.num, QueryFilled(o, a.num), pieces)
    BY <1>2 DEF QueryNumber
  <2>5. QuerySoFar
    BY DEF CliInv, ParsedSoFar
  <2>6. /\ last'[o] = {a.num}
        /\ \A n \in QueryNumbers \ {o} : last'[n] = last[n]
        /\ op' = QueryFilled(o, a.num)
    BY <2>1, <2>2, <2>4, TakeOther DEF CliInv
  <2>7. QuerySoFar'
    <3>1. CASE o = "opcode"
      <4>1. op' = [op EXCEPT !.opcode = a.num]
        BY <2>6, <3>1 DEF QueryFilled
      <4>2. /\ op' \in QueryFilling /\ op'.opcode = a.num
            /\ op'.idn = op.idn /\ op'.index = op.index
            /\ op'.selector = op.selector /\ op'.attr_value = op.attr_value
        BY <2>3, <2>5, <3>1, <4>1 DEF QuerySoFar, QueryFilling
      <4> QED
        BY <2>5, <2>6, <3>1, <4>2 DEF QuerySoFar, GivenOr, QueryNumbers
    <3>2. CASE o = "idn"
      <4>1. op' = [op EXCEPT !.idn = a.num]
        BY <2>6, <3>2 DEF QueryFilled
      <4>2. /\ op' \in QueryFilling /\ op'.idn = a.num
            /\ op'.opcode = op.opcode /\ op'.index = op.index
            /\ op'.selector = op.selector /\ op'.attr_value = op.attr_value
        BY <2>3, <2>5, <3>2, <4>1 DEF QuerySoFar, QueryFilling
      <4> QED
        BY <2>5, <2>6, <3>2, <4>2 DEF QuerySoFar, GivenOr, QueryNumbers
    <3>3. CASE o = "index"
      <4>1. op' = [op EXCEPT !.index = a.num]
        BY <2>6, <3>3 DEF QueryFilled
      <4>2. /\ op' \in QueryFilling /\ op'.index = a.num
            /\ op'.opcode = op.opcode /\ op'.idn = op.idn
            /\ op'.selector = op.selector /\ op'.attr_value = op.attr_value
        BY <2>3, <2>5, <3>3, <4>1 DEF QuerySoFar, QueryFilling
      <4> QED
        BY <2>5, <2>6, <3>3, <4>2 DEF QuerySoFar, GivenOr, QueryNumbers
    <3>4. CASE o = "selector"
      <4>1. op' = [op EXCEPT !.selector = a.num]
        BY <2>6, <3>4 DEF QueryFilled
      <4>2. /\ op' \in QueryFilling /\ op'.selector = a.num
            /\ op'.opcode = op.opcode /\ op'.idn = op.idn
            /\ op'.index = op.index /\ op'.attr_value = op.attr_value
        BY <2>3, <2>5, <3>4, <4>1 DEF QuerySoFar, QueryFilling
      <4> QED
        BY <2>5, <2>6, <3>4, <4>2 DEF QuerySoFar, GivenOr, QueryNumbers
    <3>5. CASE o = "value"
      <4>1. op' = [op EXCEPT !.attr_value = a.num]
        BY <2>6, <3>5 DEF QueryFilled
      <4>2. /\ op' \in QueryFilling /\ op'.attr_value = a.num
            /\ op'.opcode = op.opcode /\ op'.idn = op.idn
            /\ op'.index = op.index /\ op'.selector = op.selector
        BY <2>3, <2>5, <3>5, <4>1 DEF QuerySoFar, QueryFilling
      <4> QED
        BY <2>5, <2>6, <3>5, <4>2 DEF QuerySoFar, GivenOr, QueryNumbers
    <3> QED
      BY <3>1, <3>2, <3>3, <3>4, <3>5 DEF QueryNumbers
  <2> QED
    BY <2>1, <2>4, <2>7, Taken
<1> QED
  BY <1>1, <1>2

LEMMA CliDevice ==
    ASSUME CliInv, phase = "parsing", NEW p \in Paths, DeviceOption(p)
    PROVE  CliInv'
<1>1. CASE ~PathOK(p)
  BY <1>1, CliReturns DEF DeviceOption, Refuse
<1>2. CASE PathOK(p)
  <2>1. /\ "device" \in OptionNames
        /\ {"set", "id", "lane"} \cup QueryNumbers \subseteq OptionNames \ {"device"}
    BY DEF OptionNames, UicNumbers, QueryNumbers
  <2>2. /\ path' = p /\ phase' = phase /\ command' = command /\ op' = op
        /\ chosen' = chosen /\ last' = [last EXCEPT !["device"] = {p}]
    BY <1>2 DEF DeviceOption
  <2>3. /\ last' = [o \in OptionNames |-> last'[o]]
        /\ \A o \in OptionNames \ {"device"} : last'[o] = last[o]
    BY <2>2 DEF CliInv, CliTypeOK
  <2>4. CliTypeOK'
    BY <2>1, <2>2, <2>3 DEF CliInv, CliTypeOK
  <2>5. command \in {"uic", "query"} /\ "device" \in OptionsOf(command)
    BY DEF CliInv, ParsedSoFar, OptionsOf
  <2>6. command = "uic" => UicSoFar'
    BY <2>1, <2>2, <2>3 DEF CliInv, ParsedSoFar, UicSoFar, GivenOr
  <2>7. command = "query" => QuerySoFar'
    BY <2>1, <2>2, <2>3 DEF CliInv, ParsedSoFar, QuerySoFar, GivenOr, QueryNumbers
  <2>8. ParsedSoFar'
    BY <1>2, <2>2, <2>5, <2>6, <2>7 DEF ParsedSoFar
  <2>9. Given' \subseteq OptionsOf(command)
    BY <2>3, <2>5 DEF CliInv, OwnOptions, Given
  <2> QED
    BY <2>2, <2>4, <2>8, <2>9 DEF CliInv, OwnOptions, OptionsOf, Accepted
<1> QED
  BY <1>1, <1>2

-----------------------------------------------------------------------------
(***************************************************************************)
(* Before the options and after them.                                      *)
(***************************************************************************)
LEMMA CliStart ==
    ASSUME CliInv, Start
    PROVE  CliInv'
<1>1. /\ phase = "start" /\ path' = "empty" /\ UNCHANGED <<path, last, chosen>>
      /\ \A o \in OptionNames : last'[o] = {}
      /\ \A q \in DOMAIN Groups : chosen'[q] = {}
  BY DEF Start, CliInv, OwnOptions
<1>2. Given' = {}
  BY <1>1 DEF Given
<1>3. CASE phase' = "parsing"
  <2>1. /\ command' \in {"uic", "query"}
        /\ op' = IF command' = "uic" THEN NoUic ELSE NoQuery
    BY <1>1, <1>3 DEF Start, Return
  <2>2. command' = "uic" => UicSoFar'
    <3>1. NoUic \in UicFilling
      BY DEF NoUic, UicFilling
    <3>2. /\ last'["id"] = {} /\ last'["lane"] = {}
          /\ chosen'["mode"] = {} /\ chosen'["local_peer"] = {} /\ chosen'["dir"] = {}
      BY <1>1, GroupsAre DEF OptionNames, UicNumbers
    <3> QED
      BY <2>1, <3>1, <3>2
      DEF UicSoFar, GivenOr, NoUic, INIT, GET, SET, PeerSide, RX
  <2>3. command' = "query" => QuerySoFar'
    <3>1. NoQuery \in QueryFilling
      BY DEF NoQuery, QueryFilling, INIT
    <3>2. \A o \in QueryNumbers : last'[o] = {}
      BY <1>1 DEF OptionNames
    <3> QED
      BY <2>1, <3>1, <3>2 DEF QuerySoFar, GivenOr, NoQuery, QueryNumbers
  <2> QED
    BY <1>1, <1>2, <1>3, <2>1, <2>2, <2>3
    DEF CliInv, CliTypeOK, ParsedSoFar, Accepted, OwnOptions
<1>4. CASE phase' = "shell"
  <2>1. command' \in {"-h", "-v"}
    BY <1>4 DEF Start, Return
  <2> QED
    BY <1>1, <1>2, <1>4, <2>1 DEF CliInv, CliTypeOK, ParsedSoFar, Accepted, OwnOptions
<1>5. CASE phase' \in {"help", "returned"}
  BY <1>1, <1>5 DEF CliInv, CliTypeOK, ParsedSoFar, Accepted, OwnOptions
<1> QED
  BY <1>3, <1>4, <1>5 DEF Start, Return

LEMMA UicDefaultsSet ==
    ASSUME op \in UicFilling
    PROVE  /\ UicDefaults \in UicFilling
           /\ UicDefaults.mode = op.mode /\ UicDefaults.attr_id = op.attr_id
           /\ UicDefaults.data = op.data
           /\ UicDefaults.local_peer = Or(op.local_peer, LocalSide)
           /\ UicDefaults.dir = Or(op.dir, TX)
           /\ UicDefaults.lane = Or(op.lane, 0)
<1> DEFINE side == Or(op.local_peer, LocalSide)
           dir == Or(op.dir, TX)
           lane == Or(op.lane, 0)
<1>1. UicDefaults = [op EXCEPT !.local_peer = side, !.dir = dir, !.lane = lane]
  BY DEF UicDefaults, UicFilling
<1>2. side \in {INIT} \cup Sides /\ dir \in {INIT, TX, RX} /\ lane \in {INIT} \cup Nat
  BY DEF UicFilling, Or, Sides
<1> HIDE DEF side, dir, lane
<1>3. UicDefaults \in UicFilling
  BY <1>1, <1>2 DEF UicFilling
<1>4. /\ UicDefaults.mode = op.mode /\ UicDefaults.attr_id = op.attr_id
      /\ UicDefaults.data = op.data
      /\ UicDefaults.local_peer = side /\ UicDefaults.dir = dir /\ UicDefaults.lane = lane
  BY <1>1 DEF UicFilling
<1> QED
  BY <1>3, <1>4 DEF side, dir, lane

LEMMA CliUicAccepted ==
    ASSUME UicSoFar, CliTypeOK, UicSane, op' = UicDefaults, UNCHANGED <<last, chosen>>
    PROVE  WellFormed(op') /\ op'.type = "uic" /\ UicMeant'
<1>1. /\ op' \in UicFilling
      /\ op'.mode = op.mode /\ op'.attr_id = op.attr_id /\ op'.data = op.data
      /\ op'.local_peer = Or(op.local_peer, LocalSide)
      /\ op'.dir = Or(op.dir, TX)
      /\ op'.lane = Or(op.lane, 0)
  BY UicDefaultsSet DEF UicSoFar
<1>2. /\ op.mode \in {GET, SET} /\ op.attr_id \in Nat
      /\ op.local_peer \in {INIT} \cup Sides /\ op.dir \in {INIT, TX, RX}
      /\ op.lane \in {INIT} \cup Nat /\ op.data \in {INIT} \cup Nat
  BY DEF UicSoFar, UicFilling, UicSane
<1>3. op'.local_peer \in Sides /\ op'.dir \in {TX, RX} /\ op'.lane \in Nat
  BY <1>1, <1>2 DEF Or, Sides
<1>4. op.mode = SET => op.data \in Nat
  BY DEF UicSoFar, CliTypeOK
<1>5. op' \in UicOperations
  BY <1>1, <1>2, <1>3 DEF UicFilling, UicOperations, INIT
<1>6. WellFormed(op') /\ op'.type = "uic"
  BY <1>1, <1>4, <1>5 DEF WellFormed, UicOperations
<1>7. UicMeant'
  <2>1. chosen["mode"] = {IF op.mode = SET THEN "set" ELSE "get"}
    BY <1>2 DEF UicSoFar, INIT, GET, SET
  <2>2. chosen["local_peer"] = {"peer"} <=> op'.local_peer = PeerSide
    BY <1>1, <1>2 DEF UicSoFar, Or, INIT, PeerSide, LocalSide
  <2>3. chosen["dir"] = {"RX"} <=> op'.dir = RX
    BY <1>1, <1>2 DEF UicSoFar, Or, INIT, RX, TX
  <2>4. {op.attr_id} = last["id"]
    BY DEF UicSoFar, UicSane, GivenOr
  <2>5. {op'.lane} = IF last["lane"] = {} THEN {0} ELSE last["lane"]
    <3>1. {op.lane} = IF last["lane"] = {} THEN {INIT} ELSE last["lane"]
      BY DEF UicSoFar, GivenOr
    <3>2. last["lane"] # {} => op.lane # INIT
      BY <3>1 DEF CliTypeOK, INIT
    <3> QED
      BY <1>1, <3>1, <3>2 DEF Or
  <2> QED
    BY <1>1, <2>1, <2>2, <2>3, <2>4, <2>5 DEF UicMeant, UicSoFar, GivenOr
<1> QED
  BY <1>6, <1>7

LEMMA CliQueryAccepted ==
    ASSUME QuerySoFar, QuerySane, UNCHANGED <<op, last, chosen>>
    PROVE  WellFormed(op') /\ op'.type = "query" /\ QueryMeant'
<1>1. op \in QueryOperations
  BY DEF QuerySoFar, QuerySane, QueryFilling, QueryOperations
<1>2. WellFormed(op') /\ op'.type = "query"
  BY <1>1 DEF WellFormed, QueryOperations, QuerySane
<1>3. QueryMeant'
  BY DEF QueryMeant, QuerySoFar, QuerySane, GivenOr
<1> QED
  BY <1>2, <1>3

LEMMA CliEnd ==
    ASSUME CliInv, EndOfOptions
    PROVE  CliInv'
<1> DEFINE Good == /\ ret = SUCCESS /\ path # "empty"
                   /\ IF command = "uic" THEN UicSane ELSE QuerySane
<1>1. CASE ~Good
  <2>1. Return(ERROR) /\ UNCHANGED <<path, last, chosen>>
    BY <1>1 DEF EndOfOptions
  <2> QED
    BY <2>1, CliReturns
<1>2. CASE Good
  <2>1. /\ phase = "parsing" /\ phase' = "shell" /\ UNCHANGED <<command, path, last, chosen>>
        /\ op' = IF command = "uic" THEN UicDefaults ELSE op
    BY <1>2 DEF EndOfOptions
  <2>2. /\ command \in {"uic", "query"} /\ PathOK(path)
        /\ command = "uic" => UicSoFar
        /\ command = "query" => QuerySoFar
    BY <1>2, <2>1 DEF CliInv, ParsedSoFar
  <2>3. command = "uic" => WellFormed(op') /\ op'.type = "uic" /\ UicMeant'
    BY <1>2, <2>1, <2>2, CliUicAccepted DEF CliInv
  <2>4. command = "query" => WellFormed(op') /\ op'.type = "query" /\ QueryMeant'
    BY <1>2, <2>1, <2>2, CliQueryAccepted
  <2>5. Accepted'
    BY <2>1, <2>2, <2>3, <2>4 DEF Accepted
  <2> QED
    BY <2>1, <2>5 DEF CliInv, CliTypeOK, ParsedSoFar, OwnOptions, Given
<1> QED
  BY <1>1, <1>2

LEMMA CliShell ==
    ASSUME CliInv, Shell
    PROVE  CliInv'
<1>1. phase \in {"shell", "help"} /\ UNCHANGED <<command, op, path, words, last, chosen>>
  BY DEF Shell
<1>2. CASE \E r : Return(r)
  BY <1>1, <1>2, CliReturns
<1>3. CASE phase' = "run"
  <2>1. phase = "shell" /\ command \in {"uic", "query"}
    BY <1>1, <1>3 DEF Shell, Return, CliInv, Accepted
  <2> QED
    BY <1>1, <1>3, <2>1
    DEF CliInv, CliTypeOK, ParsedSoFar, Accepted, OwnOptions, UicMeant, QueryMeant, GivenOr
<1> QED
  BY <1>2, <1>3 DEF Shell

LEMMA CliUnchanged ==
    ASSUME CliInv, UNCHANGED <<phase, command, op, path, last, chosen>>
    PROVE  CliInv'
BY DEF CliInv, CliTypeOK, ParsedSoFar, UicSoFar, QuerySoFar, Accepted, OwnOptions,
   UicMeant, QueryMeant, GivenOr, Given

LEMMA CliStep ==
    ASSUME CliInv, [Next]_vars
    PROVE  CliInv'
<1>1. CASE Start
  BY <1>1, CliStart
<1>2. CASE ParseOption
  <2>1. phase = "parsing"
    BY <1>2 DEF ParseOption
  <2>2. CASE command = "uic" /\ \E f \in UicFlags : UicFlag(f)
    BY <2>1, <2>2, CliUicFlag
  <2>3. CASE command = "uic" /\ \E o \in UicNumbers, a \in Arguments : UicNumber(o, a)
    BY <2>1, <2>3, CliUicNumber
  <2>4. CASE command = "query" /\ \E o \in QueryNumbers, a \in Arguments : QueryNumber(o, a)
    BY <2>1, <2>4, CliQueryNumber
  <2>5. CASE \E p \in Paths : DeviceOption(p)
    BY <2>1, <2>5, CliDevice
  <2>6. CASE UnknownOption
    BY <2>6, CliReturns DEF UnknownOption, Refuse
  <2>7. CASE OtherWord
    <3>1. UNCHANGED <<phase, command, op, path, last, chosen>>
      BY <2>7 DEF OtherWord
    <3> QED
      BY <3>1, CliUnchanged
  <2> QED
    BY <1>2, <2>2, <2>3, <2>4, <2>5, <2>6, <2>7 DEF ParseOption
<1>3. CASE EndOfOptions
  BY <1>3, CliEnd
<1>4. CASE Shell
  BY <1>4, CliShell
<1>5. CASE Over \/ UNCHANGED vars
  <2>1. UNCHANGED <<phase, command, op, path, last, chosen>>
    BY <1>5 DEF Over, vars
  <2> QED
    BY <2>1, CliUnchanged
<1> QED
  BY <1>1, <1>2, <1>3, <1>4, <1>5 DEF Next

LEMMA CliInvariance == Spec => []CliInv
<1>1. CliInv /\ [Next]_vars => CliInv'
  BY CliStep
<1> QED
  BY CliInit, <1>1, PTL DEF Spec

-----------------------------------------------------------------------------
(***************************************************************************)
(* How many words a command line without repetitions has.                  *)
(***************************************************************************)
AtMost(n, S) == IsFiniteSet(S) /\ Cardinality(S) \in Nat /\ Cardinality(S) <= n

LEMMA AtMostNone == AtMost(0, {})
BY FS_EmptySet DEF AtMost

With(S, x) == S \cup {x}

LEMMA OneMore ==
    ASSUME NEW S, IsFiniteSet(S), NEW x
    PROVE  /\ IsFiniteSet(With(S, x))
           /\ Cardinality(S) \in Nat /\ Cardinality(With(S, x)) \in Nat
           /\ Cardinality(With(S, x)) <= Cardinality(S) + 1
<1>1. IsFiniteSet(S \cup {x}) /\ Cardinality(S) \in Nat /\ Cardinality(S \cup {x}) \in Nat
  BY FS_AddElement, FS_CardinalityType
<1>2. Cardinality(S \cup {x}) <= Cardinality(S) + 1
  BY <1>1, FS_AddElement
<1> QED
  BY <1>1, <1>2 DEF With

LEMMA AtMostSubset ==
    ASSUME NEW n \in Nat, NEW S, AtMost(n, S), NEW T, T \subseteq S
    PROVE  AtMost(n, T)
<1>1. IsFiniteSet(T) /\ Cardinality(T) <= Cardinality(S)
  BY FS_Subset DEF AtMost
<1>2. Cardinality(T) \in Nat
  BY <1>1, FS_CardinalityType
<1> QED
  BY <1>1, <1>2 DEF AtMost

\* The options that a command has, and those of uic that take an argument.
LEMMA FourWithArguments == AtMost(4, (UicNumbers \cup {"device"}))
<1> DEFINE S1 == {"set"}
           S2 == With(S1, "id")
           S3 == With(S2, "lane")
           S4 == With(S3, "device")
<1>1. IsFiniteSet(S1) /\ Cardinality(S1) = 1
  BY FS_Singleton
<1> HIDE DEF S1
<1>2. IsFiniteSet(S2) /\ Cardinality(S2) \in Nat /\ Cardinality(S2) <= 2
  BY <1>1, OneMore
<1> HIDE DEF S2
<1>3. IsFiniteSet(S3) /\ Cardinality(S3) \in Nat /\ Cardinality(S3) <= 3
  BY <1>2, OneMore
<1> HIDE DEF S3
<1>4. IsFiniteSet(S4) /\ Cardinality(S4) \in Nat /\ Cardinality(S4) <= 4
  BY <1>3, OneMore
<1> HIDE DEF S4
<1>5. S4 = (UicNumbers \cup {"device"})
  BY DEF UicNumbers, With, S1, S2, S3, S4
<1> QED
  BY <1>4, <1>5 DEF AtMost

LEMMA NineOfUic == AtMost(9, OptionsOf("uic"))
<1> DEFINE S1 == {"set"}
           S2 == With(S1, "id")
           S3 == With(S2, "lane")
           S4 == With(S3, "device")
           S5 == With(S4, "get")
           S6 == With(S5, "peer")
           S7 == With(S6, "local")
           S8 == With(S7, "TX")
           S9 == With(S8, "RX")
<1>1. IsFiniteSet(S1) /\ Cardinality(S1) = 1
  BY FS_Singleton
<1> HIDE DEF S1
<1>2. IsFiniteSet(S2) /\ Cardinality(S2) \in Nat /\ Cardinality(S2) <= 2
  BY <1>1, OneMore
<1> HIDE DEF S2
<1>3. IsFiniteSet(S3) /\ Cardinality(S3) \in Nat /\ Cardinality(S3) <= 3
  BY <1>2, OneMore
<1> HIDE DEF S3
<1>4. IsFiniteSet(S4) /\ Cardinality(S4) \in Nat /\ Cardinality(S4) <= 4
  BY <1>3, OneMore
<1> HIDE DEF S4
<1>5. IsFiniteSet(S5) /\ Cardinality(S5) \in Nat /\ Cardinality(S5) <= 5
  BY <1>4, OneMore
<1> HIDE DEF S5
<1>6. IsFiniteSet(S6) /\ Cardinality(S6) \in Nat /\ Cardinality(S6) <= 6
  BY <1>5, OneMore
<1> HIDE DEF S6
<1>7. IsFiniteSet(S7) /\ Cardinality(S7) \in Nat /\ Cardinality(S7) <= 7
  BY <1>6, OneMore
<1> HIDE DEF S7
<1>8. IsFiniteSet(S8) /\ Cardinality(S8) \in Nat /\ Cardinality(S8) <= 8
  BY <1>7, OneMore
<1> HIDE DEF S8
<1>9. IsFiniteSet(S9) /\ Cardinality(S9) \in Nat /\ Cardinality(S9) <= 9
  BY <1>8, OneMore
<1> HIDE DEF S9
<1>10. S9 = OptionsOf("uic")
  BY DEF OptionsOf, UicFlags, UicNumbers, With, S1, S2, S3, S4, S5, S6, S7, S8, S9
<1> QED
  BY <1>9, <1>10 DEF AtMost

LEMMA SixOfQuery == AtMost(6, OptionsOf("query"))
<1> DEFINE S1 == {"opcode"}
           S2 == With(S1, "idn")
           S3 == With(S2, "index")
           S4 == With(S3, "selector")
           S5 == With(S4, "value")
           S6 == With(S5, "device")
<1>1. IsFiniteSet(S1) /\ Cardinality(S1) = 1
  BY FS_Singleton
<1> HIDE DEF S1
<1>2. IsFiniteSet(S2) /\ Cardinality(S2) \in Nat /\ Cardinality(S2) <= 2
  BY <1>1, OneMore
<1> HIDE DEF S2
<1>3. IsFiniteSet(S3) /\ Cardinality(S3) \in Nat /\ Cardinality(S3) <= 3
  BY <1>2, OneMore
<1> HIDE DEF S3
<1>4. IsFiniteSet(S4) /\ Cardinality(S4) \in Nat /\ Cardinality(S4) <= 4
  BY <1>3, OneMore
<1> HIDE DEF S4
<1>5. IsFiniteSet(S5) /\ Cardinality(S5) \in Nat /\ Cardinality(S5) <= 5
  BY <1>4, OneMore
<1> HIDE DEF S5
<1>6. IsFiniteSet(S6) /\ Cardinality(S6) \in Nat /\ Cardinality(S6) <= 6
  BY <1>5, OneMore
<1> HIDE DEF S6
<1>7. S6 = OptionsOf("query")
  BY DEF OptionsOf, QueryNumbers, With, S1, S2, S3, S4, S5, S6
<1> QED
  BY <1>6, <1>7 DEF AtMost

\* What the options of a command take when each is given once leaves room for one
\* word more.
LEMMA FewWords ==
    ASSUME Given \subseteq OptionsOf(command)
    PROVE  OptionWords \in Nat /\ OptionWords + 2 <= SHELL_MAX_ARGS
<1> DEFINE flagless == Given \ UicFlags
<1>1. CASE command = "uic"
  <2>1. AtMost(9, Given)
    BY <1>1, NineOfUic, AtMostSubset
  <2>2. flagless \subseteq UicNumbers \cup {"device"}
    BY <1>1 DEF OptionsOf
  <2>3. AtMost(4, flagless)
    BY <2>2, FourWithArguments, AtMostSubset
  <2> QED
    BY <2>1, <2>3 DEF OptionWords, AtMost, SHELL_MAX_ARGS
<1>2. CASE command = "query"
  <2>1. AtMost(6, Given)
    BY <1>2, SixOfQuery, AtMostSubset
  <2>2. AtMost(6, flagless)
    BY <2>1, AtMostSubset
  <2> QED
    BY <2>1, <2>2 DEF OptionWords, AtMost, SHELL_MAX_ARGS
<1>3. CASE command \notin {"uic", "query"}
  <2>1. AtMost(0, Given) /\ AtMost(0, flagless)
    BY <1>3, AtMostNone, AtMostSubset DEF OptionsOf
  <2> QED
    BY <2>1 DEF OptionWords, AtMost, SHELL_MAX_ARGS
<1> QED
  BY <1>1, <1>2, <1>3

LEMMA WordsAdded ==
    ASSUME words \in Nat, NEW n \in Int, AddWords(n)
    PROVE  words' \in Nat
BY DEF AddWords

LEMMA WordsStep ==
    ASSUME words \in Nat, [Next]_vars
    PROVE  words' \in Nat
<1>1. CASE Start
  BY <1>1, CliAssumption DEF Start, Return
<1>2. CASE ParseOption
  <2>1. ASSUME NEW f \in UicFlags, UicFlag(f) PROVE words' \in Nat
    BY <2>1, WordsAdded DEF UicFlag, Take
  <2>2. ASSUME NEW a \in Arguments, NEW n \in PiecesOf(a), AddWords(n)
        PROVE  words' \in Nat
    <3>1. n \in Int
      BY CliAssumption DEF PiecesOf
    <3> QED
      BY <2>2, <3>1, WordsAdded
  <2>3. ASSUME NEW o, NEW a \in Arguments, UicNumber(o, a) \/ QueryNumber(o, a)
        PROVE  words' \in Nat
    <3>1. CASE Refuse
      BY <3>1 DEF Refuse
    <3>2. CASE \E n \in PiecesOf(a) : AddWords(n)
      BY <2>2, <3>2
    <3> QED
      BY <2>3, <3>1, <3>2 DEF UicNumber, QueryNumber, Take
  <2>4. ASSUME NEW p \in Paths, DeviceOption(p) PROVE words' \in Nat
    <3>1. CASE Refuse
      BY <3>1 DEF Refuse
    <3>2. CASE \E n \in PiecesOfPath(p) : AddWords(n)
      <4>1. PiecesOfPath(p) \subseteq Int
        BY CliAssumption DEF PiecesOfPath
      <4> QED
        BY <3>2, <4>1, WordsAdded
    <3> QED
      BY <2>4, <3>1, <3>2 DEF DeviceOption
  <2>5. CASE UnknownOption \/ OtherWord
    BY <2>5 DEF UnknownOption, Refuse, OtherWord
  <2> QED
    BY <1>2, <2>1, <2>3, <2>4, <2>5 DEF ParseOption
<1>3. CASE EndOfOptions \/ Shell \/ Over \/ UNCHANGED vars
  BY <1>3 DEF EndOfOptions, Shell, Over, vars
<1> QED
  BY <1>1, <1>2, <1>3 DEF Next

LEMMA WordsCounted == Spec => [](words \in Nat)
<1>1. Init => words \in Nat
  BY DEF Init
<1>2. words \in Nat /\ [Next]_vars => (words \in Nat)'
  BY WordsStep
<1> QED
  BY <1>1, <1>2, PTL DEF Spec

-----------------------------------------------------------------------------
\* Whatever the command line, what the shell runs is an operation that parse_args
\* has filled in and found complete, and the one of the command that is run:
\* LsufsIo assumes no more of its operations.
THEOREM OperationComplete == Spec => []RunsOnlyComplete
<1>1. CliInv => RunsOnlyComplete
  BY DEF CliInv, Accepted, RunsOnlyComplete
<1> QED
  BY <1>1, CliInvariance, PTL

\* Of options that exclude each other and of those repeated the last one counts,
\* in every order and however many there are.
THEOREM LastOptionRuns == Spec => []RunsWhatWasGiven
<1>1. CliInv => RunsWhatWasGiven
  BY DEF CliInv, Accepted, RunsWhatWasGiven
<1> QED
  BY <1>1, CliInvariance, PTL

\* A command line that parse_args accepts and the shell drops for its length
\* (shell.c:233) has two words or more to spare, however its words come about: with
\* every option given once and one word more it still runs.
THEOREM ShellDropsOnlySpareWords == Spec => []OnlySpareWordsDropped
<1>1. CliInv /\ words \in Nat => OnlySpareWordsDropped
  BY FewWords DEF CliInv, OwnOptions, OnlySpareWordsDropped, Fits, SHELL_MAX_ARGS
<1> QED
  BY <1>1, CliInvariance, WordsCounted, PTL
=============================================================================
