--------------------------- MODULE UfseomCli_proofs ---------------------------
(***************************************************************************)
(* Theorems about the command line of ufseom, for every sequence of        *)
(* options and every argument they may be given.                           *)
(***************************************************************************)
EXTENDS UfseomCli, TLAPS

Globals ==
    [local_peer : Sides, lane : {INIT} \cup LaneNumbers, num_lanes : {0, 1, 2},
     target_test_count : {INIT} \cup 1 .. EOM_TARGET_TEST_COUNT_MAX, do_io : BOOLEAN,
     voltage_low : Int, voltage_high : Int, timing_left : Int, timing_right : Int,
     output_path : Paths, device_path : Paths]

CliTypeOK ==
    /\ phase \in {"parsing", "accepted", "rejected"}
    /\ ret \in {SUCCESS, ERROR}
    /\ g \in Globals
    /\ given = [o \in OptionNames |-> given[o]]
    /\ given["lane"] \subseteq LaneNumbers
    /\ given["target"] \subseteq 1 .. EOM_TARGET_TEST_COUNT_MAX
    /\ \A o \in {"device", "output"} : given[o] \subseteq {p \in Paths : PathOK(p)}

\* The parameters are those of the options so far, the ones not given at what
\* init_eom_operation sets.
ParsedSoFar ==
    phase = "parsing" =>
        /\ {g.lane} = GivenOr("lane", INIT)
        /\ g.num_lanes = IF given["lane"] = {} THEN 0 ELSE 1
        /\ {g.target_test_count} = GivenOr("target", INIT)
        /\ {g.do_io} = GivenOr("data", FALSE)
        /\ given["side"] # {} => {g.local_peer} = given["side"]
        /\ \A b \in BoundOptions : {g[b]} = GivenOr(b, EOM_TIMING_VOLTAGE_INIT)
        /\ {g.device_path} = GivenOr("device", "empty")
        /\ {g.output_path} = GivenOr("output", "empty")

\* What is accepted has passed the checks and has its defaults.
AcceptedChecked ==
    phase = "accepted" =>
        /\ ret = SUCCESS
        /\ g.lane # INIT /\ g.num_lanes # 0 /\ g.target_test_count # INIT
        /\ g.num_lanes = 2 => g.lane = 0
        /\ given["device"] # {} /\ given["output"] = {"folder/"}

CliInv == CliTypeOK /\ ParsedSoFar /\ AcceptedChecked /\ LastGivenWins

-----------------------------------------------------------------------------
\* Arguments are numbers once they are read.
LEMMA ArgumentNumber ==
    ASSUME NEW a \in Arguments
    PROVE  a.num \in Int
BY CliAssumption DEF ArgumentRecords

LEMMA PathsAccepted ==
    ASSUME NEW p \in Paths, PathOK(p)
    PROVE  p \in {"spaced", "no_slash", "folder/"}
BY DEF Paths, PathOK

\* The loop of getopt: the parameter of the option and nothing else is set.
LEMMA TakeOther ==
    ASSUME CliTypeOK, NEW name \in OptionNames, NEW x, NEW globals, Take(name, x, globals)
    PROVE  /\ given' = [o \in OptionNames |-> given'[o]]
           /\ given'[name] = {x}
           /\ \A o \in OptionNames \ {name} : given'[o] = given[o]
           /\ ret' = SUCCESS /\ phase' = phase /\ g' = globals
BY DEF CliTypeOK, Take

LEMMA CliInit == Init => CliInv
<1> SUFFICES ASSUME Init PROVE CliInv
  OBVIOUS
<1>1. \A o \in OptionNames : given[o] = {}
  BY DEF Init
<1>2. {"lane", "target", "data", "side", "device", "output"} \cup BoundOptions = OptionNames
  BY DEF OptionNames
<1>3. g \in Globals
  BY DEF Init, Globals, Sides, LocalSide, PeerSide, Paths, EOM_TIMING_VOLTAGE_INIT
<1>4. CliTypeOK
  BY <1>1, <1>2, <1>3 DEF Init, CliTypeOK
<1>5. /\ g.lane = INIT /\ g.num_lanes = 0 /\ g.target_test_count = INIT /\ g.do_io = FALSE
      /\ \A b \in BoundOptions : g[b] = EOM_TIMING_VOLTAGE_INIT
      /\ g.device_path = "empty" /\ g.output_path = "empty"
  BY DEF Init, BoundOptions
<1>6. ParsedSoFar
  BY <1>1, <1>2, <1>5 DEF ParsedSoFar, GivenOr
<1>7. phase # "accepted"
  BY DEF Init
<1> QED
  BY <1>4, <1>6, <1>7 DEF CliInv, AcceptedChecked, LastGivenWins

\* A command line that is refused leaves nothing to show.
LEMMA CliRefuse ==
    ASSUME CliInv, Refuse
    PROVE  CliInv'
BY DEF CliInv, Refuse, CliTypeOK, ParsedSoFar, AcceptedChecked, LastGivenWins

-----------------------------------------------------------------------------
(***************************************************************************)
(* The options that are taken.                                             *)
(***************************************************************************)
LEMMA CliSide ==
    ASSUME CliInv, phase = "parsing", NEW s \in Sides, SideOption(s)
    PROVE  CliInv'
<1>1. /\ "side" \in OptionNames
      /\ OptionNames \ {"side"} = {"lane", "target", "data", "device", "output"} \cup BoundOptions
      /\ BoundOptions \subseteq OptionNames \ {"side"}
  BY DEF OptionNames, BoundOptions
<1>2. /\ given' = [o \in OptionNames |-> given'[o]]
      /\ given'["side"] = {s}
      /\ \A o \in OptionNames \ {"side"} : given'[o] = given[o]
      /\ ret' = SUCCESS /\ phase' = phase /\ g' = [g EXCEPT !.local_peer = s]
  BY <1>1, TakeOther DEF CliInv, SideOption
<1>3. /\ g' \in Globals /\ g'.local_peer = s
      /\ g'.lane = g.lane /\ g'.num_lanes = g.num_lanes
      /\ g'.target_test_count = g.target_test_count /\ g'.do_io = g.do_io
      /\ \A b \in BoundOptions : g'[b] = g[b]
      /\ g'.device_path = g.device_path /\ g'.output_path = g.output_path
  BY <1>2 DEF CliInv, CliTypeOK, Globals, BoundOptions
<1>4. CliTypeOK'
  BY <1>1, <1>2, <1>3 DEF CliInv, CliTypeOK
<1>5. ParsedSoFar'
  BY <1>1, <1>2, <1>3 DEF CliInv, ParsedSoFar, GivenOr
<1> QED
  BY <1>2, <1>4, <1>5 DEF CliInv, AcceptedChecked, LastGivenWins

\* -D.
LEMMA CliData ==
    ASSUME CliInv, phase = "parsing", DataOption
    PROVE  CliInv'
<1>1. /\ "data" \in OptionNames
      /\ OptionNames \ {"data"} = {"side", "lane", "target", "device", "output"} \cup BoundOptions
      /\ BoundOptions \subseteq OptionNames \ {"data"}
  BY DEF OptionNames, BoundOptions
<1>2. /\ given' = [o \in OptionNames |-> given'[o]]
      /\ given'["data"] = {TRUE}
      /\ \A o \in OptionNames \ {"data"} : given'[o] = given[o]
      /\ ret' = SUCCESS /\ phase' = phase /\ g' = [g EXCEPT !.do_io = TRUE]
  BY <1>1, TakeOther DEF CliInv, DataOption
<1>3. /\ g' \in Globals /\ g'.do_io = TRUE
      /\ g'.local_peer = g.local_peer
      /\ g'.lane = g.lane
      /\ g'.num_lanes = g.num_lanes
      /\ g'.target_test_count = g.target_test_count
      /\ g'.device_path = g.device_path
      /\ g'.output_path = g.output_path
      /\ \A b \in BoundOptions : g'[b] = g[b]
  BY <1>2 DEF CliInv, CliTypeOK, Globals, BoundOptions
<1>4. CliTypeOK'
  BY <1>1, <1>2, <1>3 DEF CliInv, CliTypeOK
<1>5. ParsedSoFar'
  <2>1. ({g.lane} = GivenOr("lane", INIT))'
    BY <1>1, <1>2, <1>3 DEF CliInv, ParsedSoFar, GivenOr
  <2>2. (g.num_lanes = IF given["lane"] = {} THEN 0 ELSE 1)'
    BY <1>1, <1>2, <1>3 DEF CliInv, ParsedSoFar, GivenOr
  <2>3. ({g.target_test_count} = GivenOr("target", INIT))'
    BY <1>1, <1>2, <1>3 DEF CliInv, ParsedSoFar, GivenOr
  <2>4. ({g.do_io} = GivenOr("data", FALSE))'
    BY <1>1, <1>2, <1>3 DEF CliInv, ParsedSoFar, GivenOr
  <2>5. (given["side"] # {} => {g.local_peer} = given["side"])'
    BY <1>1, <1>2, <1>3 DEF CliInv, ParsedSoFar, GivenOr
  <2>6. (\A b \in BoundOptions : {g[b]} = GivenOr(b, EOM_TIMING_VOLTAGE_INIT))'
    BY <1>1, <1>2, <1>3 DEF CliInv, ParsedSoFar, GivenOr
  <2>7. ({g.device_path} = GivenOr("device", "empty"))'
    BY <1>1, <1>2, <1>3 DEF CliInv, ParsedSoFar, GivenOr
  <2>8. ({g.output_path} = GivenOr("output", "empty"))'
    BY <1>1, <1>2, <1>3 DEF CliInv, ParsedSoFar, GivenOr
  <2> QED
    BY <2>1, <2>2, <2>3, <2>4, <2>5, <2>6, <2>7, <2>8 DEF ParsedSoFar
<1> QED
  BY <1>2, <1>4, <1>5 DEF CliInv, AcceptedChecked, LastGivenWins

\* -L: one lane, the one given.
LEMMA CliLane ==
    ASSUME CliInv, phase = "parsing", NEW a \in Arguments, LaneOption(a)
    PROVE  CliInv'
<1>1. /\ "lane" \in OptionNames
      /\ OptionNames \ {"lane"} = {"side", "target", "data", "device", "output"} \cup BoundOptions
      /\ BoundOptions \subseteq OptionNames \ {"lane"}
  BY DEF OptionNames, BoundOptions
<1>2. CASE ~(LaneOK(a))
  BY <1>2, CliRefuse DEF LaneOption
<1>3. CASE LaneOK(a)
  <2>0. a.num \in LaneNumbers
    BY <1>3 DEF LaneOK
  <2>1. /\ given' = [o \in OptionNames |-> given'[o]]
        /\ given'["lane"] = {a.num}
        /\ \A o \in OptionNames \ {"lane"} : given'[o] = given[o]
        /\ ret' = SUCCESS /\ phase' = phase /\ g' = [g EXCEPT !.lane = a.num, !.num_lanes = 1]
    BY <1>3, <1>1, TakeOther DEF CliInv, LaneOption
  <2>2. /\ g' \in Globals /\ g'.lane = a.num /\ g'.num_lanes = 1
        /\ g'.local_peer = g.local_peer
        /\ g'.target_test_count = g.target_test_count
        /\ g'.do_io = g.do_io
        /\ g'.device_path = g.device_path
        /\ g'.output_path = g.output_path
        /\ \A b \in BoundOptions : g'[b] = g[b]
    BY <2>1, <2>0 DEF CliInv, CliTypeOK, Globals, BoundOptions
  <2>3. CliTypeOK'
    BY <1>1, <2>1, <2>2, <1>3, <2>0 DEF CliInv, CliTypeOK
  <2>4. ParsedSoFar'
    <3>1. ({g.lane} = GivenOr("lane", INIT))'
      BY <1>1, <2>1, <2>2 DEF CliInv, ParsedSoFar, GivenOr
    <3>2. (g.num_lanes = IF given["lane"] = {} THEN 0 ELSE 1)'
      BY <1>1, <2>1, <2>2 DEF CliInv, ParsedSoFar, GivenOr
    <3>3. ({g.target_test_count} = GivenOr("target", INIT))'
      BY <1>1, <2>1, <2>2 DEF CliInv, ParsedSoFar, GivenOr
    <3>4. ({g.do_io} = GivenOr("data", FALSE))'
      BY <1>1, <2>1, <2>2 DEF CliInv, ParsedSoFar, GivenOr
    <3>5. (given["side"] # {} => {g.local_peer} = given["side"])'
      BY <1>1, <2>1, <2>2 DEF CliInv, ParsedSoFar, GivenOr
    <3>6. (\A b \in BoundOptions : {g[b]} = GivenOr(b, EOM_TIMING_VOLTAGE_INIT))'
      BY <1>1, <2>1, <2>2 DEF CliInv, ParsedSoFar, GivenOr
    <3>7. ({g.device_path} = GivenOr("device", "empty"))'
      BY <1>1, <2>1, <2>2 DEF CliInv, ParsedSoFar, GivenOr
    <3>8. ({g.output_path} = GivenOr("output", "empty"))'
      BY <1>1, <2>1, <2>2 DEF CliInv, ParsedSoFar, GivenOr
    <3> QED
      BY <3>1, <3>2, <3>3, <3>4, <3>5, <3>6, <3>7, <3>8 DEF ParsedSoFar
  <2> QED
    BY <2>1, <2>3, <2>4 DEF CliInv, AcceptedChecked, LastGivenWins
<1> QED
  BY <1>2, <1>3

\* -T.
LEMMA CliTarget ==
    ASSUME CliInv, phase = "parsing", NEW a \in Arguments, TargetOption(a)
    PROVE  CliInv'
<1>1. /\ "target" \in OptionNames
      /\ OptionNames \ {"target"} = {"side", "lane", "data", "device", "output"} \cup BoundOptions
      /\ BoundOptions \subseteq OptionNames \ {"target"}
  BY DEF OptionNames, BoundOptions
<1>2. CASE ~(TargetOK(a))
  BY <1>2, CliRefuse DEF TargetOption
<1>3. CASE TargetOK(a)
  <2>0. a.num \in 1 .. EOM_TARGET_TEST_COUNT_MAX
    BY <1>3, ArgumentNumber DEF TargetOK, EOM_TARGET_TEST_COUNT_MAX
  <2>1. /\ given' = [o \in OptionNames |-> given'[o]]
        /\ given'["target"] = {a.num}
        /\ \A o \in OptionNames \ {"target"} : given'[o] = given[o]
        /\ ret' = SUCCESS /\ phase' = phase /\ g' = [g EXCEPT !.target_test_count = a.num]
    BY <1>3, <1>1, TakeOther DEF CliInv, TargetOption
  <2>2. /\ g' \in Globals /\ g'.target_test_count = a.num
        /\ g'.local_peer = g.local_peer
        /\ g'.lane = g.lane
        /\ g'.num_lanes = g.num_lanes
        /\ g'.do_io = g.do_io
        /\ g'.device_path = g.device_path
        /\ g'.output_path = g.output_path
        /\ \A b \in BoundOptions : g'[b] = g[b]
    BY <2>1, <2>0 DEF CliInv, CliTypeOK, Globals, BoundOptions
  <2>3. CliTypeOK'
    BY <1>1, <2>1, <2>2, <1>3, <2>0 DEF CliInv, CliTypeOK
  <2>4. ParsedSoFar'
    <3>1. ({g.lane} = GivenOr("lane", INIT))'
      BY <1>1, <2>1, <2>2 DEF CliInv, ParsedSoFar, GivenOr
    <3>2. (g.num_lanes = IF given["lane"] = {} THEN 0 ELSE 1)'
      BY <1>1, <2>1, <2>2 DEF CliInv, ParsedSoFar, GivenOr
    <3>3. ({g.target_test_count} = GivenOr("target", INIT))'
      BY <1>1, <2>1, <2>2 DEF CliInv, ParsedSoFar, GivenOr
    <3>4. ({g.do_io} = GivenOr("data", FALSE))'
      BY <1>1, <2>1, <2>2 DEF CliInv, ParsedSoFar, GivenOr
    <3>5. (given["side"] # {} => {g.local_peer} = given["side"])'
      BY <1>1, <2>1, <2>2 DEF CliInv, ParsedSoFar, GivenOr
    <3>6. (\A b \in BoundOptions : {g[b]} = GivenOr(b, EOM_TIMING_VOLTAGE_INIT))'
      BY <1>1, <2>1, <2>2 DEF CliInv, ParsedSoFar, GivenOr
    <3>7. ({g.device_path} = GivenOr("device", "empty"))'
      BY <1>1, <2>1, <2>2 DEF CliInv, ParsedSoFar, GivenOr
    <3>8. ({g.output_path} = GivenOr("output", "empty"))'
      BY <1>1, <2>1, <2>2 DEF CliInv, ParsedSoFar, GivenOr
    <3> QED
      BY <3>1, <3>2, <3>3, <3>4, <3>5, <3>6, <3>7, <3>8 DEF ParsedSoFar
  <2> QED
    BY <2>1, <2>3, <2>4 DEF CliInv, AcceptedChecked, LastGivenWins
<1> QED
  BY <1>2, <1>3

\* -o.
LEMMA CliOutput ==
    ASSUME CliInv, phase = "parsing", NEW p \in Paths, OutputOption(p)
    PROVE  CliInv'
<1>1. /\ "output" \in OptionNames
      /\ OptionNames \ {"output"} = {"side", "lane", "target", "data", "device"} \cup BoundOptions
      /\ BoundOptions \subseteq OptionNames \ {"output"}
  BY DEF OptionNames, BoundOptions
<1>2. CASE ~(PathOK(p))
  BY <1>2, CliRefuse DEF OutputOption
<1>3. CASE PathOK(p)
  <2>0. p \in Paths
    OBVIOUS
  <2>1. /\ given' = [o \in OptionNames |-> given'[o]]
        /\ given'["output"] = {p}
        /\ \A o \in OptionNames \ {"output"} : given'[o] = given[o]
        /\ ret' = SUCCESS /\ phase' = phase /\ g' = [g EXCEPT !.output_path = p]
    BY <1>3, <1>1, TakeOther DEF CliInv, OutputOption
  <2>2. /\ g' \in Globals /\ g'.output_path = p
        /\ g'.local_peer = g.local_peer
        /\ g'.lane = g.lane
        /\ g'.num_lanes = g.num_lanes
        /\ g'.target_test_count = g.target_test_count
        /\ g'.do_io = g.do_io
        /\ g'.device_path = g.device_path
        /\ \A b \in BoundOptions : g'[b] = g[b]
    BY <2>1, <2>0 DEF CliInv, CliTypeOK, Globals, BoundOptions
  <2>3. CliTypeOK'
    BY <1>1, <2>1, <2>2, <1>3, <2>0 DEF CliInv, CliTypeOK
  <2>4. ParsedSoFar'
    <3>1. ({g.lane} = GivenOr("lane", INIT))'
      BY <1>1, <2>1, <2>2 DEF CliInv, ParsedSoFar, GivenOr
    <3>2. (g.num_lanes = IF given["lane"] = {} THEN 0 ELSE 1)'
      BY <1>1, <2>1, <2>2 DEF CliInv, ParsedSoFar, GivenOr
    <3>3. ({g.target_test_count} = GivenOr("target", INIT))'
      BY <1>1, <2>1, <2>2 DEF CliInv, ParsedSoFar, GivenOr
    <3>4. ({g.do_io} = GivenOr("data", FALSE))'
      BY <1>1, <2>1, <2>2 DEF CliInv, ParsedSoFar, GivenOr
    <3>5. (given["side"] # {} => {g.local_peer} = given["side"])'
      BY <1>1, <2>1, <2>2 DEF CliInv, ParsedSoFar, GivenOr
    <3>6. (\A b \in BoundOptions : {g[b]} = GivenOr(b, EOM_TIMING_VOLTAGE_INIT))'
      BY <1>1, <2>1, <2>2 DEF CliInv, ParsedSoFar, GivenOr
    <3>7. ({g.device_path} = GivenOr("device", "empty"))'
      BY <1>1, <2>1, <2>2 DEF CliInv, ParsedSoFar, GivenOr
    <3>8. ({g.output_path} = GivenOr("output", "empty"))'
      BY <1>1, <2>1, <2>2 DEF CliInv, ParsedSoFar, GivenOr
    <3> QED
      BY <3>1, <3>2, <3>3, <3>4, <3>5, <3>6, <3>7, <3>8 DEF ParsedSoFar
  <2> QED
    BY <2>1, <2>3, <2>4 DEF CliInv, AcceptedChecked, LastGivenWins
<1> QED
  BY <1>2, <1>3

\* -d.
LEMMA CliDevice ==
    ASSUME CliInv, phase = "parsing", NEW p \in Paths, DeviceOption(p)
    PROVE  CliInv'
<1>1. /\ "device" \in OptionNames
      /\ OptionNames \ {"device"} = {"side", "lane", "target", "data", "output"} \cup BoundOptions
      /\ BoundOptions \subseteq OptionNames \ {"device"}
  BY DEF OptionNames, BoundOptions
<1>2. CASE ~(PathOK(p))
  BY <1>2, CliRefuse DEF DeviceOption
<1>3. CASE PathOK(p)
  <2>0. p \in Paths
    OBVIOUS
  <2>1. /\ given' = [o \in OptionNames |-> given'[o]]
        /\ given'["device"] = {p}
        /\ \A o \in OptionNames \ {"device"} : given'[o] = given[o]
        /\ ret' = SUCCESS /\ phase' = phase /\ g' = [g EXCEPT !.device_path = p]
    BY <1>3, <1>1, TakeOther DEF CliInv, DeviceOption
  <2>2. /\ g' \in Globals /\ g'.device_path = p
        /\ g'.local_peer = g.local_peer
        /\ g'.lane = g.lane
        /\ g'.num_lanes = g.num_lanes
        /\ g'.target_test_count = g.target_test_count
        /\ g'.do_io = g.do_io
        /\ g'.output_path = g.output_path
        /\ \A b \in BoundOptions : g'[b] = g[b]
    BY <2>1, <2>0 DEF CliInv, CliTypeOK, Globals, BoundOptions
  <2>3. CliTypeOK'
    BY <1>1, <2>1, <2>2, <1>3, <2>0 DEF CliInv, CliTypeOK
  <2>4. ParsedSoFar'
    <3>1. ({g.lane} = GivenOr("lane", INIT))'
      BY <1>1, <2>1, <2>2 DEF CliInv, ParsedSoFar, GivenOr
    <3>2. (g.num_lanes = IF given["lane"] = {} THEN 0 ELSE 1)'
      BY <1>1, <2>1, <2>2 DEF CliInv, ParsedSoFar, GivenOr
    <3>3. ({g.target_test_count} = GivenOr("target", INIT))'
      BY <1>1, <2>1, <2>2 DEF CliInv, ParsedSoFar, GivenOr
    <3>4. ({g.do_io} = GivenOr("data", FALSE))'
      BY <1>1, <2>1, <2>2 DEF CliInv, ParsedSoFar, GivenOr
    <3>5. (given["side"] # {} => {g.local_peer} = given["side"])'
      BY <1>1, <2>1, <2>2 DEF CliInv, ParsedSoFar, GivenOr
    <3>6. (\A b \in BoundOptions : {g[b]} = GivenOr(b, EOM_TIMING_VOLTAGE_INIT))'
      BY <1>1, <2>1, <2>2 DEF CliInv, ParsedSoFar, GivenOr
    <3>7. ({g.device_path} = GivenOr("device", "empty"))'
      BY <1>1, <2>1, <2>2 DEF CliInv, ParsedSoFar, GivenOr
    <3>8. ({g.output_path} = GivenOr("output", "empty"))'
      BY <1>1, <2>1, <2>2 DEF CliInv, ParsedSoFar, GivenOr
    <3> QED
      BY <3>1, <3>2, <3>3, <3>4, <3>5, <3>6, <3>7, <3>8 DEF ParsedSoFar
  <2> QED
    BY <2>1, <2>3, <2>4 DEF CliInv, AcceptedChecked, LastGivenWins
<1> QED
  BY <1>2, <1>3

\* The four bounds: any number is taken.
LEMMA CliBound ==
    ASSUME CliInv, phase = "parsing", NEW a \in Arguments, NEW b \in BoundOptions,
           BoundOption(b, a)
    PROVE  CliInv'
<1>1. /\ b \in OptionNames
      /\ {"side", "lane", "target", "data", "device", "output"} \subseteq OptionNames \ {b}
      /\ BoundOptions \subseteq OptionNames
  BY DEF OptionNames, BoundOptions
<1>2. CASE ~ReadsSigned(a)
  BY <1>2, CliRefuse DEF BoundOption
<1>3. CASE ReadsSigned(a)
  <2>0. a.num \in Int
    BY ArgumentNumber
  <2>1. /\ given' = [o \in OptionNames |-> given'[o]]
        /\ given'[b] = {a.num}
        /\ \A o \in OptionNames \ {b} : given'[o] = given[o]
        /\ ret' = SUCCESS /\ phase' = phase /\ g' = [g EXCEPT ![b] = a.num]
    BY <1>1, <1>3, TakeOther DEF CliInv, BoundOption
  <2>2. /\ g' \in Globals /\ g'[b] = a.num
        /\ g'.local_peer = g.local_peer
        /\ g'.lane = g.lane
        /\ g'.num_lanes = g.num_lanes
        /\ g'.target_test_count = g.target_test_count
        /\ g'.do_io = g.do_io
        /\ g'.device_path = g.device_path
        /\ g'.output_path = g.output_path
        /\ \A c \in BoundOptions \ {b} : g'[c] = g[c]
    <3>1. CASE b = "voltage_low"
      BY <2>0, <2>1, <3>1 DEF CliInv, CliTypeOK, Globals, BoundOptions
    <3>2. CASE b = "voltage_high"
      BY <2>0, <2>1, <3>2 DEF CliInv, CliTypeOK, Globals, BoundOptions
    <3>3. CASE b = "timing_left"
      BY <2>0, <2>1, <3>3 DEF CliInv, CliTypeOK, Globals, BoundOptions
    <3>4. CASE b = "timing_right"
      BY <2>0, <2>1, <3>4 DEF CliInv, CliTypeOK, Globals, BoundOptions
    <3> QED
      BY <3>1, <3>2, <3>3, <3>4 DEF BoundOptions
  <2>3. CliTypeOK'
    BY <1>1, <2>1, <2>2 DEF CliInv, CliTypeOK
  <2>4. ParsedSoFar'
    <3>1. ({g.lane} = GivenOr("lane", INIT))'
      BY <1>1, <2>1, <2>2 DEF CliInv, ParsedSoFar, GivenOr
    <3>2. (g.num_lanes = IF given["lane"] = {} THEN 0 ELSE 1)'
      BY <1>1, <2>1, <2>2 DEF CliInv, ParsedSoFar, GivenOr
    <3>3. ({g.target_test_count} = GivenOr("target", INIT))'
      BY <1>1, <2>1, <2>2 DEF CliInv, ParsedSoFar, GivenOr
    <3>4. ({g.do_io} = GivenOr("data", FALSE))'
      BY <1>1, <2>1, <2>2 DEF CliInv, ParsedSoFar, GivenOr
    <3>5. (given["side"] # {} => {g.local_peer} = given["side"])'
      BY <1>1, <2>1, <2>2 DEF CliInv, ParsedSoFar, GivenOr
    <3>6. (\A c \in BoundOptions : {g[c]} = GivenOr(c, EOM_TIMING_VOLTAGE_INIT))'
      BY <1>1, <2>1, <2>2 DEF CliInv, ParsedSoFar, GivenOr
    <3>7. ({g.device_path} = GivenOr("device", "empty"))'
      BY <1>1, <2>1, <2>2 DEF CliInv, ParsedSoFar, GivenOr
    <3>8. ({g.output_path} = GivenOr("output", "empty"))'
      BY <1>1, <2>1, <2>2 DEF CliInv, ParsedSoFar, GivenOr
    <3> QED
      BY <3>1, <3>2, <3>3, <3>4, <3>5, <3>6, <3>7, <3>8 DEF ParsedSoFar
  <2> QED
    BY <2>1, <2>3, <2>4 DEF CliInv, AcceptedChecked, LastGivenWins
<1> QED
  BY <1>2, <1>3

LEMMA CliVerbose ==
    ASSUME CliInv, VerboseOption
    PROVE  CliInv'
BY DEF CliInv, VerboseOption, CliTypeOK, ParsedSoFar, AcceptedChecked, LastGivenWins, GivenOr

-----------------------------------------------------------------------------
(***************************************************************************)
(* The end of the options.                                                 *)
(***************************************************************************)
LEMMA DefaultsSet ==
    ASSUME g \in Globals
    PROVE  /\ Defaults \in Globals
           /\ Defaults.lane = IF g.lane = INIT THEN 0 ELSE g.lane
           /\ Defaults.num_lanes = IF g.lane = INIT THEN 2 ELSE g.num_lanes
           /\ Defaults.target_test_count = IF g.target_test_count = INIT
                                           THEN EOM_TARGET_TEST_COUNT_DEFAULT
                                           ELSE g.target_test_count
           /\ Defaults.local_peer = g.local_peer
           /\ {Defaults.do_io} = {g.do_io}
           /\ \A b \in BoundOptions : Defaults[b] = g[b]
<1> DEFINE lane == IF g.lane = INIT THEN 0 ELSE g.lane
           lanes == IF g.lane = INIT THEN 2 ELSE g.num_lanes
           target == IF g.target_test_count = INIT THEN EOM_TARGET_TEST_COUNT_DEFAULT
                     ELSE g.target_test_count
<1>1. Defaults = [g EXCEPT !.lane = lane, !.num_lanes = lanes, !.target_test_count = target]
  BY DEF Defaults, Globals
<1>2. /\ lane \in {INIT} \cup LaneNumbers /\ lanes \in {0, 1, 2}
      /\ target \in {INIT} \cup 1 .. EOM_TARGET_TEST_COUNT_MAX
  BY DEF Globals, LaneNumbers, EOM_TARGET_TEST_COUNT_DEFAULT, EOM_TARGET_TEST_COUNT_MAX
<1> HIDE DEF lane, lanes, target
<1>3. Defaults \in Globals
  BY <1>1, <1>2 DEF Globals
<1>4. Defaults.lane = lane /\ Defaults.num_lanes = lanes /\ Defaults.target_test_count = target
  BY <1>1 DEF Globals
<1>5. Defaults.local_peer = g.local_peer /\ {Defaults.do_io} = {g.do_io}
  BY <1>1 DEF Globals
<1>6. \A b \in BoundOptions : Defaults[b] = g[b]
  BY <1>1 DEF Globals, BoundOptions
<1> QED
  BY <1>3, <1>4, <1>5, <1>6 DEF lane, lanes, target

LEMMA CliEnd ==
    ASSUME CliInv, EndOfOptions
    PROVE  CliInv'
<1>1. CASE ~(ret = SUCCESS /\ ChecksPass)
  <2>1. phase' = "rejected" /\ ret' = ERROR /\ g' = g /\ given' = given
    BY <1>1 DEF EndOfOptions
  <2> QED
    BY <2>1 DEF CliInv, CliTypeOK, ParsedSoFar, AcceptedChecked, LastGivenWins
<1>2. CASE ret = SUCCESS /\ ChecksPass
  <2>1. /\ phase = "parsing" /\ phase' = "accepted" /\ ret' = SUCCESS
        /\ g' = Defaults /\ given' = given
    BY <1>2 DEF EndOfOptions
  <2>2. CliTypeOK'
    BY <2>1, <1>2, DefaultsSet DEF CliInv, CliTypeOK
  <2>3. /\ {g.lane} = GivenOr("lane", INIT)
        /\ g.num_lanes = IF given["lane"] = {} THEN 0 ELSE 1
        /\ {g.target_test_count} = GivenOr("target", INIT)
        /\ {g.do_io} = GivenOr("data", FALSE)
        /\ given["side"] # {} => {g.local_peer} = given["side"]
        /\ \A b \in BoundOptions : {g[b]} = GivenOr(b, EOM_TIMING_VOLTAGE_INIT)
        /\ {g.device_path} = GivenOr("device", "empty")
        /\ {g.output_path} = GivenOr("output", "empty")
    BY <2>1 DEF CliInv, ParsedSoFar
  <2>4. g.lane = INIT <=> given["lane"] = {}
    BY <2>3 DEF CliInv, CliTypeOK, GivenOr, LaneNumbers, INIT
  <2>5. g.target_test_count = INIT <=> given["target"] = {}
    BY <2>3 DEF CliInv, CliTypeOK, GivenOr, INIT, EOM_TARGET_TEST_COUNT_MAX
  <2>6. given["device"] # {}
    BY <1>2, <2>3 DEF ChecksPass, GivenOr
  <2>7. given["output"] = {"folder/"}
    <3>1. given["output"] = {g.output_path} /\ g.output_path \in Paths /\ PathOK(g.output_path)
      BY <1>2, <2>3 DEF ChecksPass, GivenOr, CliInv, CliTypeOK
    <3>2. g.output_path = "folder/"
      BY <3>1, <1>2, PathsAccepted DEF ChecksPass
    <3> QED
      BY <3>1, <3>2
  <2>8. AcceptedChecked'
    <3>1. g.lane \in {INIT} \cup LaneNumbers /\ g.num_lanes \in {0, 1}
      BY <2>3 DEF CliInv, CliTypeOK, Globals
    <3>2. g'.lane # INIT /\ g'.num_lanes # 0 /\ (g'.num_lanes = 2 => g'.lane = 0)
      BY <2>1, <2>3, <2>4, <3>1, DefaultsSet DEF CliInv, CliTypeOK, INIT, LaneNumbers
    <3>3. g'.target_test_count # INIT
      BY <2>1, DefaultsSet DEF CliInv, CliTypeOK, INIT, EOM_TARGET_TEST_COUNT_DEFAULT
    <3> QED
      BY <2>1, <2>6, <2>7, <3>2, <3>3 DEF AcceptedChecked
  <2>9. LastGivenWins'
    <3>1. ({g.lane} = GivenOr("lane", 0))'
      BY <2>1, <2>3, <2>4, DefaultsSet DEF CliInv, CliTypeOK, GivenOr
    <3>2. (g.num_lanes = IF given["lane"] = {} THEN 2 ELSE 1)'
      BY <2>1, <2>3, <2>4, DefaultsSet DEF CliInv, CliTypeOK
    <3>3. ({g.target_test_count} = GivenOr("target", EOM_TARGET_TEST_COUNT_DEFAULT))'
      BY <2>1, <2>3, <2>5, DefaultsSet DEF CliInv, CliTypeOK, GivenOr
    <3>4. ({g.do_io} = GivenOr("data", FALSE))'
      BY <2>1, <2>3, DefaultsSet DEF CliInv, CliTypeOK, GivenOr
    <3>5. (given["side"] # {} => {g.local_peer} = given["side"])'
      BY <2>1, <2>3, DefaultsSet DEF CliInv, CliTypeOK
    <3>6. (\A b \in BoundOptions : {g[b]} = GivenOr(b, EOM_TIMING_VOLTAGE_INIT))'
      BY <2>1, <2>3, DefaultsSet DEF CliInv, CliTypeOK, GivenOr
    <3> QED
      BY <3>1, <3>2, <3>3, <3>4, <3>5, <3>6 DEF LastGivenWins
  <2> QED
    BY <2>1, <2>2, <2>8, <2>9 DEF CliInv, ParsedSoFar
<1> QED
  BY <1>1, <1>2

LEMMA CliStep ==
    ASSUME CliInv, [Next]_vars
    PROVE  CliInv'
<1>1. CASE ParseOption
  <2>1. phase = "parsing"
    BY <1>1 DEF ParseOption
  <2>2. CASE \E s \in Sides : SideOption(s)
    BY <2>1, <2>2, CliSide
  <2>3. CASE DataOption
    BY <2>1, <2>3, CliData
  <2>4. CASE VerboseOption
    BY <2>4, CliVerbose
  <2>5. CASE \E a \in Arguments : LaneOption(a)
    BY <2>1, <2>5, CliLane
  <2>6. CASE \E a \in Arguments : TargetOption(a)
    BY <2>1, <2>6, CliTarget
  <2>7. CASE \E a \in Arguments, b \in BoundOptions : BoundOption(b, a)
    BY <2>1, <2>7, CliBound
  <2>8. CASE \E p \in Paths : OutputOption(p)
    BY <2>1, <2>8, CliOutput
  <2>9. CASE \E p \in Paths : DeviceOption(p)
    BY <2>1, <2>9, CliDevice
  <2>10. CASE UnknownOption
    BY <2>10, CliRefuse DEF UnknownOption
  <2> QED
    BY <1>1, <2>2, <2>3, <2>4, <2>5, <2>6, <2>7, <2>8, <2>9, <2>10 DEF ParseOption
<1>2. CASE EndOfOptions
  BY <1>2, CliEnd
<1>3. CASE Returned \/ UNCHANGED vars
  <2>1. UNCHANGED <<phase, ret, g, given>>
    BY <1>3 DEF Returned, vars
  <2> QED
    BY <2>1 DEF CliInv, CliTypeOK, ParsedSoFar, AcceptedChecked, LastGivenWins, GivenOr
<1> QED
  BY <1>1, <1>2, <1>3 DEF Next

LEMMA CliInvariance == Spec => []CliInv
<1>1. CliInv /\ [Next]_vars => CliInv'
  BY CliStep
<1> QED
  BY CliInit, <1>1, PTL DEF Spec

-----------------------------------------------------------------------------
\* Whatever options parse_args is given, in any order and number, with any
\* arguments, what it accepts is what main can run: the module Ufseom assumes no
\* more of its options.
THEOREM OptionsWellFormed == Spec => []AcceptedWellFormed
<1>1. CliInv => AcceptedWellFormed
  <2> SUFFICES ASSUME CliInv, phase = "accepted"
               PROVE  /\ ret = SUCCESS
                      /\ Accepted \in AcceptedOptions
                      /\ given["device"] # {} /\ given["output"] = {"folder/"}
    BY DEF AcceptedWellFormed
  <2>1. /\ ret = SUCCESS
        /\ given["device"] # {} /\ given["output"] = {"folder/"}
        /\ g.lane # INIT /\ g.num_lanes # 0 /\ g.target_test_count # INIT
        /\ g.num_lanes = 2 => g.lane = 0
    BY DEF CliInv, AcceptedChecked
  <2>2. Accepted \in AcceptedOptions
    BY <2>1 DEF CliInv, CliTypeOK, Globals, Accepted, AcceptedOptions
  <2> QED
    BY <2>1, <2>2
<1> QED
  BY <1>1, CliInvariance, PTL

\* The last value given to an option is the one that counts, and one not given
\* has its default, in every order of the options.
THEOREM LastOptionWins == Spec => []LastGivenWins
<1>1. CliInv => LastGivenWins
  BY DEF CliInv
<1> QED
  BY <1>1, CliInvariance, PTL
=============================================================================
