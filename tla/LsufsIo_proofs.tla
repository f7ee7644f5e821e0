--------------------------- MODULE LsufsIo_proofs ---------------------------
(***************************************************************************)
(* What lsufs says and returns of an operation, for every operation, every *)
(* answer of the device and every failure of the kernel.                   *)
(***************************************************************************)
EXTENDS LsufsIo, TLAPS

\* Once the ioctl is over: the request was carried out exactly when the device
\* accepted it, unless the kernel reports a failure.
Went ==
    reply.ioctl = 0 /\ reply.result = 0 =>
        executed = IF reply.code = 0 THEN <<RequestOf(op)>> ELSE <<>>

Outcome ==
    /\ ret = SUCCESS <=> printed # Failed
    /\ ret = SUCCESS => reply.ioctl = 0 /\ reply.result = 0
    /\ op.type = "uic" /\ ret = SUCCESS =>
         /\ executed = <<RequestOf(op)>>
         /\ op.mode = GET => printed = Answer(reply.value)
    /\ op.type = "uic" /\ ret # SUCCESS =>
         \/ executed = <<>>
         \/ reply.ioctl # 0 \/ reply.result # 0
         \/ reply.value = ERROR

\* The two properties speak of the end; this is what leads there.
IoInv ==
    /\ op.type \in {"uic", "query"}
    /\ reply \in Replies
    /\ executed \in {<<>>, <<RequestOf(op)>>}
    /\ pc \in {"open", "request"} => executed = <<>>
    /\ pc \in {"uic_reply", "query_reply", "print"} => Went
    /\ pc = "uic_reply" => op.type = "uic"
    /\ pc = "query_reply" => op.type = "query"
    /\ pc = "print" => ret = IF op.type = "uic" THEN UicResult ELSE QueryResult
    /\ pc \in {"close", "done"} => Outcome

\* What is printed of a failure is printed of nothing else.
LEMMA FailedStandsOut ==
    ASSUME NEW x, NEW idn, NEW d
    PROVE  /\ Failed # Answer(x) /\ Failed # Successfully /\ Failed # Nothing
           /\ Failed # DescriptorText(idn, d)
           /\ Successfully # Answer(x) /\ Successfully # DescriptorText(idn, d)
<1>1. Failed.said = "failed" /\ Answer(x).said = "value"
      /\ Successfully.said = "successfully" /\ Nothing.said = "nothing"
  BY DEF Failed, Answer, Successfully, Nothing
<1>2. DescriptorText(idn, d).said \in {"fields", "bytes"}
  BY DEF DescriptorText
<1> QED
  BY <1>1, <1>2

LEMMA NoDescriptorTyped == NoDescriptor \in Descriptors
<1>1. 0 \in 0 .. MASK_QUERY_DATA_SEG_LEN
  BY DEF MASK_QUERY_DATA_SEG_LEN
<1> QED
  BY <1>1 DEF NoDescriptor, Descriptors

LEMMA IoInit == Init => IoInv
<1> SUFFICES ASSUME Init PROVE IoInv
  OBVIOUS
<1>1. WellFormed(op)
  BY IoAssumption DEF Init
<1>2. op.type \in {"uic", "query"}
  BY <1>1 DEF WellFormed, UicOperations, QueryOperations
<1>3. reply \in Replies
  BY NoDescriptorTyped DEF Init, NoReply, Replies
<1> QED
  BY <1>2, <1>3 DEF Init, IoInv

LEMMA IoOpen == IoInv /\ (Open \/ RefuseOpcode) => IoInv'
<1> SUFFICES ASSUME IoInv, Open \/ RefuseOpcode PROVE IoInv'
  OBVIOUS
<1>1. UNCHANGED <<op, reply, executed>> /\ executed = <<>>
  BY DEF Open, RefuseOpcode, IoInv
<1>2. RequestOf(op)' = RequestOf(op)
  BY <1>1 DEF RequestOf, UicRequest, QueryRequest, SentAsRead, Select
<1>3. \/ pc' = "request"
      \/ pc' \in {"close", "done"} /\ ret' = ERROR /\ printed' = Failed
  BY DEF Open, RefuseOpcode
<1>4. pc' \in {"close", "done"} => Outcome'
  BY <1>1, <1>2, <1>3 DEF Outcome, SUCCESS, ERROR
<1> QED
  BY <1>1, <1>2, <1>3, <1>4 DEF IoInv

LEMMA IoSend == IoInv /\ Ioctl => IoInv'
<1> SUFFICES ASSUME IoInv, Ioctl PROVE IoInv'
  OBVIOUS
<1> DEFINE r == RequestOf(op)
<1>1. op' = op /\ executed = <<>> /\ op.type \in {"uic", "query"}
  BY DEF Ioctl, IoInv
<1>2. r' = r
  BY <1>1 DEF RequestOf, UicRequest, QueryRequest, SentAsRead, Select
<1>3. pc' = IF op.type = "uic" THEN "uic_reply" ELSE "query_reply"
  BY DEF Ioctl
<1>4. Append(<<>>, r) = <<r>>
  OBVIOUS
<1>5. reply' \in Replies /\ executed' \in {<<>>, <<r>>} /\ Went'
  <2>1. CASE DeviceAnswers
    <3>1. PICK code \in Responses, x \in Values, d \in DescriptorData \cup {NoDescriptor} :
             /\ reply' = [NoReply EXCEPT !.code = code, !.value = x, !.desc = d]
             /\ executed' = IF code = 0 THEN Append(executed, r) ELSE executed
      BY <2>1 DEF DeviceAnswers
    <3>2. code \in 0 .. 255 /\ x \in Int /\ d \in Descriptors
      BY IoAssumption, NoDescriptorTyped
    <3>3. reply' = [ioctl |-> 0, result |-> 0, code |-> code, value |-> x, desc |-> d]
      BY <3>1 DEF NoReply
    <3>4. reply' \in Replies
      BY <3>2, <3>3 DEF Replies
    <3>5. executed' = IF code = 0 THEN <<r>> ELSE <<>>
      BY <1>1, <1>4, <3>1
    <3>6. Went'
      BY <1>2, <3>3, <3>5 DEF Went
    <3> QED
      BY <3>4, <3>5, <3>6
  <2>2. CASE KernelRefuses
    <3>1. executed' \in {<<>>, <<r>>}
      BY <1>1, <1>4, <2>2 DEF KernelRefuses
    <3>2. \/ reply' = [ioctl |-> -1, result |-> 0, code |-> 0, value |-> 0,
                       desc |-> NoDescriptor]
          \/ reply' = [ioctl |-> 0, result |-> EIO, code |-> 0, value |-> 0,
                       desc |-> NoDescriptor]
      BY <2>2 DEF KernelRefuses, NoReply
    <3>3. reply' \in Replies /\ (reply.ioctl # 0 \/ reply.result # 0)'
      BY <3>2, NoDescriptorTyped DEF Replies, EIO
    <3> QED
      BY <3>1, <3>3 DEF Went
  <2> QED
    BY <2>1, <2>2 DEF Ioctl
<1> QED
  BY <1>1, <1>2, <1>3, <1>5 DEF IoInv

LEMMA IoReply == IoInv /\ (UicReply \/ QueryReply) => IoInv'
<1> SUFFICES ASSUME IoInv, UicReply \/ QueryReply PROVE IoInv'
  OBVIOUS
<1>1. UNCHANGED <<op, reply, executed>> /\ pc' = "print" /\ Went
  BY DEF UicReply, QueryReply, IoInv
<1>2. RequestOf(op)' = RequestOf(op)
  BY <1>1 DEF RequestOf, UicRequest, QueryRequest, SentAsRead, Select
<1>3. Went'
  BY <1>1, <1>2 DEF Went
<1>4. ret' = (IF op.type = "uic" THEN UicResult ELSE QueryResult)
  BY DEF UicReply, QueryReply, IoInv
<1>5. UicResult' = UicResult /\ QueryResult' = QueryResult
  BY <1>1 DEF UicResult, QueryResult, IoResult, QueryResponse
<1> QED
  BY <1>1, <1>2, <1>3, <1>4, <1>5 DEF IoInv

\* The only leaf of the argument that looks at values: a uic operation fails when
\* the kernel or the device says so, or when the value has the bits of ERROR.
LEMMA IoPrintUic == IoInv /\ PrintUic => IoInv'
<1> SUFFICES ASSUME IoInv, PrintUic PROVE IoInv'
  OBVIOUS
<1>1. UNCHANGED <<op, reply, executed>> /\ pc' = "close" /\ op.type = "uic" /\ Went
  BY DEF PrintUic, IoInv
<1>2. RequestOf(op)' = RequestOf(op)
  BY <1>1 DEF RequestOf, UicRequest, QueryRequest, SentAsRead, Select
<1>3. ret = UicResult
  BY DEF PrintUic, IoInv
<1>4. /\ reply.ioctl \in {0, -1} /\ reply.result \in {0, EIO}
      /\ reply.value \in Int
  BY DEF IoInv, Replies
<1>5. CASE UicFailed
  <2>1. ret' = ERROR /\ printed' = Failed
    BY <1>5 DEF PrintUic, UicFailed
  <2>2. \/ reply.ioctl # 0 \/ reply.result # 0
        \/ executed = <<>> \/ reply.value = ERROR
    BY <1>1, <1>3, <1>4, <1>5 DEF UicFailed, UicResult, IoResult, Went, EIO, ERROR
  <2>3. Outcome'
    BY <1>1, <2>1, <2>2 DEF Outcome, SUCCESS, ERROR
  <2> QED
    BY <1>1, <1>2, <2>3 DEF IoInv
<1>6. CASE ~UicFailed
  <2>1. ret' = SUCCESS /\ printed' = (IF op.mode = GET THEN Answer(ret) ELSE Successfully)
    BY <1>6 DEF PrintUic
  <2>2. reply.ioctl = 0 /\ reply.result = 0 /\ reply.code = 0 /\ ret = reply.value
    BY <1>3, <1>4, <1>6 DEF UicFailed, UicResult, IoResult, EIO
  <2>3. executed = <<RequestOf(op)>>
    BY <1>1, <2>2 DEF Went
  <2>4. printed' # Failed
    BY <2>1, FailedStandsOut
  <2>5. Outcome'
    BY <1>1, <1>2, <2>1, <2>2, <2>3, <2>4 DEF Outcome
  <2> QED
    BY <1>1, <1>2, <2>5 DEF IoInv
<1> QED
  BY <1>5, <1>6

LEMMA IoPrintQuery == IoInv /\ PrintQuery => IoInv'
<1> SUFFICES ASSUME IoInv, PrintQuery PROVE IoInv'
  OBVIOUS
<1>1. UNCHANGED <<op, reply, ret, executed>> /\ pc' = "close" /\ op.type = "query"
  BY DEF PrintQuery
<1>2. RequestOf(op)' = RequestOf(op)
  BY <1>1 DEF RequestOf, UicRequest, QueryRequest, SentAsRead, Select
<1>3. reply.ioctl \in {0, -1} /\ reply.result \in {0, EIO}
  BY DEF IoInv, Replies
<1>4. ret = QueryResult
  BY <1>1 DEF PrintQuery, IoInv
<1>5. ret = 0 => reply.ioctl = 0 /\ reply.result = 0
  BY <1>3, <1>4 DEF QueryResult, IoResult, EIO
<1>6. ret = 0 <=> printed' # Failed
  BY FailedStandsOut DEF PrintQuery, QueryText
<1>7. Outcome'
  BY <1>1, <1>5, <1>6 DEF Outcome, SUCCESS
<1> QED
  BY <1>1, <1>2, <1>7 DEF IoInv

LEMMA IoStep == IoInv /\ [Next]_vars => IoInv'
<1> SUFFICES ASSUME IoInv, [Next]_vars PROVE IoInv'
  OBVIOUS
<1>1. CASE Crash \/ Close \/ Terminated \/ UNCHANGED vars
  <2>1. UNCHANGED <<op, reply, ret, printed, executed>>
    BY <1>1 DEF Crash, Close, Terminated, vars
  <2>2. pc' = pc \/ (pc = "close" /\ pc' = "done") \/ pc' = "crashed"
    BY <1>1 DEF Crash, Close, Terminated, vars
  <2>3. /\ RequestOf(op)' = RequestOf(op)
        /\ UicResult' = UicResult /\ QueryResult' = QueryResult
    BY <2>1 DEF RequestOf, UicRequest, QueryRequest, SentAsRead, Select,
       UicResult, QueryResult, IoResult, QueryResponse
  <2>4. Went => Went'
    BY <2>1, <2>3 DEF Went
  <2>5. Outcome => Outcome'
    BY <2>1, <2>3 DEF Outcome
  <2> QED
    BY <2>1, <2>2, <2>3, <2>4, <2>5 DEF IoInv
<1> QED
  BY <1>1, IoOpen, IoSend, IoReply, IoPrintUic, IoPrintQuery DEF Next

LEMMA IoInvariance == Spec => []IoInv
  BY IoInit, IoStep, PTL DEF Spec

\* The exit status and what is printed agree, and success is only said of a
\* request that went through the kernel (uic.c:228-296, query.c:266-413), once.
THEOREM SuccessIsReal == Spec => []SuccessWentThrough
<1>1. IoInv => SuccessWentThrough
  <2> SUFFICES ASSUME IoInv, Over PROVE SuccessWentThrough
    BY DEF SuccessWentThrough
  <2>1. Outcome
    BY DEF IoInv, Over
  <2>2. Len(executed) <= 1
    BY DEF IoInv
  <2> QED
    BY <2>1, <2>2 DEF Outcome, SuccessWentThrough
<1> QED
  BY <1>1, IoInvariance, PTL

\* Success and failure of a uic operation are what happened at the device, but
\* for the value that cannot be told from ERROR (uic.c:188-209).
THEOREM UicHonest == Spec => []UicOutcomeHonest
<1>1. IoInv => UicOutcomeHonest
  <2> SUFFICES ASSUME IoInv, Over, op.type = "uic" PROVE UicOutcomeHonest
    BY DEF UicOutcomeHonest
  <2>1. Outcome
    BY DEF IoInv, Over
  <2>2. RequestOf(op) = UicRequest(op)
    BY DEF RequestOf
  <2> QED
    BY <2>1, <2>2 DEF Outcome, UicOutcomeHonest
<1> QED
  BY <1>1, IoInvariance, PTL

-----------------------------------------------------------------------------
\* Where the descriptor of the bsg device is open, and how.
OpenInv ==
    /\ pc \in {"open", "request", "uic_reply", "query_reply", "print", "close", "done",
              "crashed"}
    /\ WellFormed(op)
    /\ ret \in Int
    /\ fd = IF pc \in {"open", "done", "crashed"} THEN "closed" ELSE OpenFlag
    /\ pc \in {"uic_reply", "query_reply", "print"} => Supported

LEMMA OpenStep == IoInv /\ OpenInv /\ [Next]_vars => OpenInv'
<1> SUFFICES ASSUME IoInv, OpenInv, [Next]_vars PROVE OpenInv'
  OBVIOUS
<1>1. op' = op
  BY DEF Next, Open, RefuseOpcode, Ioctl, UicReply, QueryReply, PrintUic, PrintQuery,
     Crash, Close, Terminated, vars
<1>2. WellFormed(op)' /\ OpenFlag' = OpenFlag /\ Supported' = Supported
  BY <1>1 DEF OpenInv, WellFormed, OpenFlag, OpenedToRead, Supported, Handler
<1>3. /\ SUCCESS \in Int /\ ERROR \in Int
      /\ UicResult \in Int /\ QueryResult \in Int
  BY DEF SUCCESS, ERROR, IoInv, Replies, UicResult, QueryResult, IoResult, EIO
<1>4. ret' \in Int
  BY <1>3 DEF OpenInv, Next, Open, RefuseOpcode, Ioctl, UicReply, QueryReply, PrintUic,
     PrintQuery, Crash, Close, Terminated, vars
<1>5. /\ pc' \in {"open", "request", "uic_reply", "query_reply", "print", "close", "done",
                 "crashed"}
      /\ fd' = IF pc' \in {"open", "done", "crashed"} THEN "closed" ELSE OpenFlag
      /\ pc' \in {"uic_reply", "query_reply", "print"} => Supported
  BY DEF OpenInv, Next, Open, RefuseOpcode, Ioctl, UicReply, QueryReply, PrintUic,
     PrintQuery, Crash, Close, Terminated, vars
<1> QED
  BY <1>2, <1>4, <1>5 DEF OpenInv

LEMMA OpenInvariance == Spec => [](IoInv /\ OpenInv)
<1>1. Init => OpenInv
  BY IoAssumption DEF Init, OpenInv
<1> QED
  BY <1>1, OpenStep, IoInvariance, PTL DEF Spec

\* The requests are those of the operation, and nothing else changes its type.
THEOREM IoTypeCorrect == Spec => []TypeOK
<1>1. IoInv /\ OpenInv => TypeOK
  <2> SUFFICES ASSUME IoInv, OpenInv PROVE TypeOK
    OBVIOUS
  <2>1. fd \in {"closed", "O_RDONLY", "O_RDWR"}
    BY DEF OpenInv, OpenFlag
  <2>2. executed \in Seq({RequestOf(op)})
    <3>1. \A x : <<>> \in Seq({x}) /\ <<x>> \in Seq({x})
      OBVIOUS
    <3> QED
      BY <3>1 DEF IoInv
  <2> QED
    BY <2>1, <2>2 DEF IoInv, OpenInv, TypeOK
<1> QED
  BY <1>1, OpenInvariance, PTL

\* What an operation that the program carries out is, by each of the switches on
\* its opcode.
LEMMA SwitchesAgree ==
    ASSUME op.type \in {"uic", "query"}, WellFormed(op), Supported
    PROVE  LET r == RequestOf(op)
           IN  /\ OpenFlag = "O_RDWR" <=> Changes(r)
               /\ r.cmd[1] = "QUERY" => /\ r.func = "STD_WRITE" <=> Changes(r)
                                        /\ r.dir = "TO_DEV" <=> Changes(r)
               /\ op.type = "uic" => (op.mode = GET <=> ~Changes(r))
               /\ op.type = "query" => (QueryText = Successfully <=> Changes(r))
<1>1. CASE op.type = "uic"
  <2>1. op.mode \in {GET, SET}
    BY <1>1 DEF WellFormed, UicOperations, QueryOperations
  <2>2. RequestOf(op).cmd = <<"DME", op.local_peer, op.mode>>
    BY <1>1 DEF RequestOf, UicRequest
  <2>3. Changes(RequestOf(op)) <=> op.mode = SET
    BY <2>2 DEF Changes
  <2>4. OpenFlag = "O_RDWR" <=> op.mode # GET
    BY <1>1 DEF OpenFlag, OpenedToRead
  <2> QED
    BY <1>1, <2>1, <2>2, <2>3, <2>4 DEF GET, SET
<1>2. CASE op.type = "query"
  <2> DEFINE o == op.opcode
  <2>1. o \in {READ_DESC, READ_ATTR, WRITE_ATTR, READ_FLAG, SET_FLAG, CLEAR_FLAG,
               TOGGLE_FLAG}
    BY <1>2 DEF Supported, Handler
  <2>2. /\ RequestOf(op).cmd = <<"QUERY", o>>
        /\ RequestOf(op).func = IF SentAsRead(o) THEN "STD_READ" ELSE "STD_WRITE"
        /\ RequestOf(op).dir = IF SentAsRead(o) THEN "FROM_DEV" ELSE "TO_DEV"
    BY <1>2 DEF RequestOf, QueryRequest
  <2>3. Changes(RequestOf(op)) <=>
          o \in {WRITE_DESC, WRITE_ATTR, SET_FLAG, CLEAR_FLAG, TOGGLE_FLAG}
    BY <2>2 DEF Changes
  <2>4. OpenFlag = "O_RDWR" <=> o \notin {READ_DESC, READ_ATTR, READ_FLAG}
    BY <1>2 DEF OpenFlag, OpenedToRead
  <2>5. SentAsRead(o) <=> o \in {READ_DESC, READ_ATTR, READ_FLAG}
    BY DEF SentAsRead
  <2>6. QueryText = Successfully <=>
          Handler(o) \notin {"read_descriptor", "read_attribute", "read_flag"}
    BY FailedStandsOut DEF QueryText
  <2>7. Handler(o) \in {"read_descriptor", "read_attribute", "read_flag"}
          <=> o \in {READ_DESC, READ_ATTR, READ_FLAG}
    BY <2>1 DEF Handler, READ_DESC, READ_ATTR, WRITE_ATTR, READ_FLAG, SET_FLAG,
       CLEAR_FLAG, TOGGLE_FLAG
  <2>8. o \in {READ_DESC, READ_ATTR, READ_FLAG} <=>
          o \notin {WRITE_DESC, WRITE_ATTR, SET_FLAG, CLEAR_FLAG, TOGGLE_FLAG}
    BY <2>1 DEF READ_DESC, WRITE_DESC, READ_ATTR, WRITE_ATTR, READ_FLAG, SET_FLAG,
       CLEAR_FLAG, TOGGLE_FLAG
  <2> QED
    BY <1>2, <2>2, <2>3, <2>4, <2>5, <2>6, <2>7, <2>8
<1> QED
  BY <1>1, <1>2

\* Every request that changes something, and no other, is sent through a device
\* open for writing, as a write, and is said to be done rather than answered; the
\* three switches of query.c (222-233, 421-430, 440-462) agree on every opcode.
THEOREM WritesMeant == Spec => WritesAreMeant
<1>1. IoInv /\ OpenInv /\ Next => SentAsMeant
  <2> SUFFICES ASSUME IoInv, OpenInv, Next, executed' # executed PROVE SentAsMeant
    BY DEF SentAsMeant
  <2> DEFINE r == RequestOf(op)
  <2>1. Ioctl
    BY DEF Next, Open, RefuseOpcode, UicReply, QueryReply, PrintUic, PrintQuery, Crash,
       Close, Terminated, vars
  <2>2. executed = <<>> /\ fd = OpenFlag /\ Supported /\ WellFormed(op)
        /\ op.type \in {"uic", "query"}
    BY <2>1 DEF Ioctl, IoInv, OpenInv
  <2>3. executed' = Append(executed, r)
    BY <2>1 DEF Ioctl, DeviceAnswers, KernelRefuses
  <2>4. executed'[Len(executed')] = r
    <3> HIDE DEF r
    <3> QED
      BY <2>2, <2>3
  <2> QED
    BY <2>2, <2>4, SwitchesAgree DEF SentAsMeant
<1>2. IoInv /\ OpenInv /\ Next => SaidAsMeant
  <2> SUFFICES ASSUME IoInv, OpenInv, Next, printed' # printed, ret' = SUCCESS
               PROVE  printed' = Successfully <=> Changes(RequestOf(op))
    BY DEF SaidAsMeant
  <2>1. PrintUic \/ PrintQuery
    BY DEF Next, Open, RefuseOpcode, Ioctl, UicReply, QueryReply, Crash, Close,
       Terminated, vars, SUCCESS, ERROR
  <2>2. Supported /\ WellFormed(op) /\ op.type \in {"uic", "query"}
    BY <2>1 DEF PrintUic, PrintQuery, IoInv, OpenInv
  <2>3. CASE PrintUic
    <3>1. op.type = "uic" /\ printed' = IF op.mode = GET THEN Answer(ret) ELSE Successfully
      BY <2>3 DEF PrintUic, UicFailed, SUCCESS, ERROR
    <3>2. printed' = Successfully <=> op.mode # GET
      BY <3>1, FailedStandsOut
    <3> QED
      BY <2>2, <3>1, <3>2, SwitchesAgree
  <2>4. CASE PrintQuery
    <3>1. op.type = "query" /\ printed' = QueryText
      BY <2>4 DEF PrintQuery, SUCCESS
    <3> QED
      BY <2>2, <3>1, SwitchesAgree
  <2> QED
    BY <2>1, <2>3, <2>4
<1> QED
  BY <1>1, <1>2, OpenInvariance, PTL DEF Spec, WritesAreMeant

-----------------------------------------------------------------------------
(***************************************************************************)
(* Descriptors.  The table of fields is in two parts, as it is written.    *)
(***************************************************************************)
FirstFields == [i \in 1 .. 16 |-> <<i - 1, "b">>]
OtherFields ==
    << <<16, "w">>, <<18, "w">>, <<20, "i">>, <<21, "i">>, <<22, "i">>, <<23, "i">>,
       <<24, "w">>, <<26, "b">>, <<27, "b">>, <<28, "b">>, <<29, "w">>, <<31, "b">>,
       <<32, "b">>, <<33, "b">>, <<34, "w">>, <<36, "b">>, <<37, "d">>, <<41, "b">>,
       <<42, "i">>, <<43, "R">>, <<48, "R">>, <<64, "R">>, <<67, "R">>, <<77, "w">>,
       <<79, "d">>, <<83, "b">>, <<84, "b">>, <<85, "d">> >>

LEMMA Concatenation ==
    ASSUME NEW S, NEW T, NEW s \in Seq(S), NEW t \in Seq(T)
    PROVE  /\ Len(s \o t) = Len(s) + Len(t)
           /\ \A i \in 1 .. Len(s) : (s \o t)[i] = s[i]
           /\ \A i \in 1 .. Len(t) : (s \o t)[Len(s) + i] = t[i]
OBVIOUS

LEMMA TheTable ==
    /\ Len(ufs_dev_desc) = 44
    /\ \A i \in 1 .. 16 : ufs_dev_desc[i] = FirstFields[i]
    /\ \A i \in 1 .. 28 : ufs_dev_desc[16 + i] = OtherFields[i]
<1> DEFINE S == {FirstFields[i] : i \in 1 .. 16}
           T == {OtherFields[i] : i \in 1 .. 28}
<1>1. ufs_dev_desc = FirstFields \o OtherFields
  BY DEF ufs_dev_desc, FirstFields, OtherFields
<1>2. FirstFields \in Seq(S) /\ Len(FirstFields) = 16
  BY DEF FirstFields
<1>3. OtherFields = [i \in 1 .. 28 |-> OtherFields[i]] /\ Len(OtherFields) = 28
  BY DEF OtherFields
<1>4. OtherFields \in Seq(T)
  BY <1>3
<1> HIDE DEF S, T
<1>5. FirstFields \in Seq(S) /\ OtherFields \in Seq(T)
  BY <1>2, <1>4
<1>6. /\ Len(FirstFields \o OtherFields) = Len(FirstFields) + Len(OtherFields)
      /\ \A i \in 1 .. Len(FirstFields) :
           (FirstFields \o OtherFields)[i] = FirstFields[i]
      /\ \A i \in 1 .. Len(OtherFields) :
           (FirstFields \o OtherFields)[Len(FirstFields) + i] = OtherFields[i]
  BY <1>5, Concatenation
<1>7. 16 + 28 = 44
  OBVIOUS
<1>8. Len(ufs_dev_desc) = 44
  BY <1>1, <1>2, <1>3, <1>6, <1>7
<1>9. \A i \in 1 .. 16 : ufs_dev_desc[i] = FirstFields[i]
  BY <1>1, <1>2, <1>6
<1>10. \A i \in 1 .. 28 : ufs_dev_desc[16 + i] = OtherFields[i]
  BY <1>1, <1>2, <1>3, <1>6
<1> QED
  BY <1>8, <1>9, <1>10

\* The fields of the table are in the order of the bytes and do not overlap.
LEMMA FieldsOrdered ==
    /\ \A i \in 1 .. 44 : ufs_dev_desc[i][1] \in Nat /\ EndOf(ufs_dev_desc[i]) \in Nat
    /\ \A i, j \in 1 .. 44 : i < j => EndOf(ufs_dev_desc[i]) <= ufs_dev_desc[j][1]
<1>1. \A i \in 1 .. 16 : FirstFields[i][1] = i - 1 /\ EndOf(FirstFields[i]) = i
  BY DEF FirstFields, EndOf, field_name_to_size
<1>2. \A i \in 1 .. 28 : OtherFields[i][1] \in Nat /\ OtherFields[i][1] >= 16
  BY DEF OtherFields
<1>3. \A i \in 1 .. 28 : EndOf(OtherFields[i]) \in Nat
  BY DEF OtherFields, EndOf, field_name_to_size
<1>4. \A i, j \in 1 .. 28 : i < j => EndOf(OtherFields[i]) <= OtherFields[j][1]
  BY DEF OtherFields, EndOf, field_name_to_size
<1>5. ASSUME NEW i \in 1 .. 44
      PROVE  \/ i \in 1 .. 16 /\ ufs_dev_desc[i] = FirstFields[i]
             \/ i - 16 \in 1 .. 28 /\ ufs_dev_desc[i] = OtherFields[i - 16]
  <2>1. CASE i <= 16
    BY <2>1, TheTable
  <2>2. CASE i > 16
    <3>1. i - 16 \in 1 .. 28 /\ 16 + (i - 16) = i
      BY <2>2
    <3> QED
      BY <3>1, TheTable
  <2> QED
    BY <2>1, <2>2
<1>6. ASSUME NEW i \in 1 .. 44
      PROVE  ufs_dev_desc[i][1] \in Nat /\ EndOf(ufs_dev_desc[i]) \in Nat
  <2>1. CASE i \in 1 .. 16 /\ ufs_dev_desc[i] = FirstFields[i]
    BY <2>1, <1>1
  <2>2. CASE i - 16 \in 1 .. 28 /\ ufs_dev_desc[i] = OtherFields[i - 16]
    BY <2>2, <1>2, <1>3
  <2> QED
    BY <1>5, <2>1, <2>2
<1>7. ASSUME NEW i \in 1 .. 44, NEW j \in 1 .. 44, i < j
      PROVE  EndOf(ufs_dev_desc[i]) <= ufs_dev_desc[j][1]
  <2>1. CASE i <= 16 /\ j <= 16
    <3>1. /\ i \in 1 .. 16 /\ ufs_dev_desc[i] = FirstFields[i]
          /\ j \in 1 .. 16 /\ ufs_dev_desc[j] = FirstFields[j]
      BY <2>1, <1>5
    <3>2. EndOf(ufs_dev_desc[i]) = i /\ ufs_dev_desc[j][1] = j - 1
      BY <3>1, <1>1
    <3> QED
      BY <1>7, <3>1, <3>2
  <2>2. CASE i <= 16 /\ j > 16
    <3>1. i \in 1 .. 16 /\ ufs_dev_desc[i] = FirstFields[i]
      BY <2>2, <1>5
    <3>2. EndOf(ufs_dev_desc[i]) = i
      BY <3>1, <1>1
    <3>3. j - 16 \in 1 .. 28 /\ ufs_dev_desc[j] = OtherFields[j - 16]
      BY <2>2, <1>5
    <3>4. ufs_dev_desc[j][1] \in Nat /\ ufs_dev_desc[j][1] >= 16
      BY <3>3, <1>2
    <3> QED
      BY <2>2, <3>2, <3>4
  <2>3. CASE i > 16 /\ j > 16
    <3>1. /\ i - 16 \in 1 .. 28 /\ j - 16 \in 1 .. 28 /\ i - 16 < j - 16
          /\ ufs_dev_desc[i] = OtherFields[i - 16]
          /\ ufs_dev_desc[j] = OtherFields[j - 16]
      BY <2>3, <1>5, <1>7
    <3> QED
      BY <3>1, <1>4
  <2> QED
    BY <2>1, <2>2, <2>3, <1>7
<1> QED
  BY <1>6, <1>7

LEMMA DescriptorLengths ==
    ASSUME NEW d \in Descriptors
    PROVE  d.len \in Nat /\ d.blength \in 0 .. 255
<1>1. d.blength \in 0 .. 255
  BY DEF Descriptors
<1>2. d.len \in 0 .. MASK_QUERY_DATA_SEG_LEN
  BY DEF Descriptors
<1> QED
  BY <1>1, <1>2

\* The fields that are shown are those received, whatever the lengths.
LEMMA ShownRight ==
    ASSUME NEW d \in Descriptors
    PROVE  FieldsRight(FieldsShown(ufs_dev_desc, d), d)
<1> DEFINE fields == FieldsShown(ufs_dev_desc, d)
           Start(i) == ufs_dev_desc[i][1]
           End(i) == EndOf(ufs_dev_desc[i])
           lim == Limit(d)
<1>1. lim \in Nat /\ d.len \in Nat /\ lim <= d.len /\ lim <= 255
  <2>1. d.len \in Nat /\ d.blength \in 0 .. 255
    BY DescriptorLengths
  <2> QED
    BY <2>1 DEF Limit
<1>2. fields = {i \in 1 .. 44 : /\ d.len >= 1
                               /\ ~Reserved(ufs_dev_desc[i])
                               /\ \A j \in 1 .. i : Reserved(ufs_dev_desc[j]) \/ End(j) <= lim}
  BY TheTable DEF FieldsShown, Fits
<1>3. \A i \in 1 .. 44 : Start(i) \in Nat /\ End(i) \in Nat
  BY FieldsOrdered
<1>4. \A i, j \in 1 .. 44 : i < j => End(i) <= Start(j)
  BY FieldsOrdered
<1>5. \A i \in 1 .. 44, b \in Int : b \in BytesOf(i) <=> Start(i) <= b /\ b < End(i)
  BY <1>3 DEF BytesOf
<1>6. \A i \in 1 .. 44 : BytesOf(i) \subseteq Int
  BY DEF BytesOf
<1> HIDE DEF fields, Start, End, lim
<1>7. \A i \in fields : BytesOf(i) \subseteq 0 .. lim - 1
  <2> SUFFICES ASSUME NEW i \in fields, NEW b \in BytesOf(i)
               PROVE  b \in 0 .. lim - 1
    OBVIOUS
  <2>1. i \in 1 .. 44 /\ End(i) <= lim /\ i \in 1 .. i
    BY <1>2
  <2>2. b \in Int /\ Start(i) \in Nat /\ End(i) \in Nat
    BY <1>3, <1>6, <2>1
  <2>3. Start(i) <= b /\ b < End(i)
    BY <1>5, <2>1, <2>2
  <2> QED
    BY <1>1, <2>1, <2>2, <2>3
<1>8. \A i, j \in fields : i # j => BytesOf(i) \cap BytesOf(j) = {}
  <2>1. ASSUME NEW i \in 1 .. 44, NEW j \in 1 .. 44, i < j, NEW b \in BytesOf(i)
        PROVE  b \notin BytesOf(j)
    <3>1. b \in Int /\ Start(j) \in Nat /\ End(i) \in Nat
      BY <1>3, <1>6
    <3>2. b < End(i) /\ End(i) <= Start(j)
      BY <1>4, <1>5, <2>1, <3>1
    <3>3. ~(Start(j) <= b)
      BY <3>1, <3>2
    <3> QED
      BY <1>5, <3>1, <3>3
  <2>2. \A i, j \in fields : i # j => i \in 1 .. 44 /\ j \in 1 .. 44 /\ (i < j \/ j < i)
    BY <1>2
  <2> QED
    BY <2>1, <2>2
<1>9. ASSUME NEW b \in 0 .. lim - 1, b \notin NoField
      PROVE  \E i \in 1 .. 44 : b \in BytesOf(i) /\ (i \in fields \/ lim \in BytesOf(i))
  <2>1. b \in 0 .. 255
    BY <1>1
  <2>2. PICK i \in 1 .. 44 : ~Reserved(ufs_dev_desc[i]) /\ b \in BytesOf(i)
    BY <1>9, <2>1, TheTable DEF NoField
  <2>3. /\ b \in Int /\ Start(i) \in Nat /\ End(i) \in Nat
        /\ Start(i) <= b /\ b < End(i) /\ b < lim
    BY <1>1, <1>3, <1>5, <2>2
  <2>4. CASE i \notin fields
    <3>1. PICK j \in 1 .. i : End(j) > lim
      BY <1>1, <1>2, <1>3, <2>2, <2>4
    <3>2. j = i
      BY <1>1, <1>3, <1>4, <2>3, <3>1
    <3>3. Start(i) <= lim /\ lim < End(i)
      BY <1>1, <2>3, <3>1, <3>2
    <3> QED
      BY <1>1, <1>5, <2>2, <3>3
  <2> QED
    BY <2>2, <2>4
<1> QED
  BY <1>7, <1>8, <1>9, TheTable DEF FieldsRight, fields, lim

LEMMA TextRight ==
    ASSUME NEW idn, NEW d \in Descriptors
    PROVE  LET text == DescriptorText(idn, d)
           IN  /\ text.said = "fields" <=> idn = 0
               /\ text.said = "fields" => FieldsRight(text.fields, d)
<1>1. characteristics_look_up(ufs_descriptors, idn) = 0 <=> idn = 0
  <2> DEFINE named == \E i \in 1 .. 8 : ufs_descriptors[i] = idn
             place == CHOOSE i \in 1 .. 8 : /\ ufs_descriptors[i] = idn
                                           /\ \A j \in 1 .. i - 1 : ufs_descriptors[j] # idn
  <2>1. Len(ufs_descriptors) = 8 /\ ufs_descriptors[1] = 0
        /\ \A i \in 2 .. 8 : ufs_descriptors[i] # 0
    BY DEF ufs_descriptors
  <2>2. characteristics_look_up(ufs_descriptors, idn) = IF named THEN place - 1 ELSE INIT
    BY <2>1 DEF characteristics_look_up
  <2>3. CASE idn = 0
    <3>1. named
      BY <2>1, <2>3
    <3>2. /\ ufs_descriptors[1] = idn /\ \A j \in 1 .. 1 - 1 : ufs_descriptors[j] # idn
          /\ \A i \in 1 .. 8 : ufs_descriptors[i] = idn => i = 1
      BY <2>1, <2>3
    <3>3. place = 1
      BY <3>2
    <3> QED
      BY <2>2, <2>3, <3>1, <3>3
  <2>4. CASE idn # 0 /\ named
    <3>1. \E i \in 1 .. 8 : /\ ufs_descriptors[i] = idn
                            /\ \A j \in 1 .. i - 1 : ufs_descriptors[j] # idn
      BY <2>4, <2>1 DEF ufs_descriptors
    <3>2. place \in 1 .. 8 /\ ufs_descriptors[place] = idn
      BY <3>1
    <3>3. place # 1
      BY <2>1, <2>4, <3>2
    <3> QED
      BY <2>2, <2>4, <3>2, <3>3
  <2>5. CASE idn # 0 /\ ~named
    BY <2>2, <2>5 DEF INIT
  <2> QED
    BY <2>3, <2>4, <2>5
<1>2. DescriptorText(idn, d).said = "fields" <=> idn = 0
  BY <1>1 DEF DescriptorText
<1>3. DescriptorText(idn, d).said = "fields" =>
        DescriptorText(idn, d).fields = FieldsShown(ufs_dev_desc, d)
  BY DEF DescriptorText
<1> QED
  BY <1>2, <1>3, ShownRight

\* What is said of a descriptor is made of the reply.
TextInv ==
    pc \in {"close", "done"} /\ ReadsDescriptor(op) /\ ret = SUCCESS =>
        printed = DescriptorText(op.idn, reply.desc)

LEMMA TextStep == IoInv /\ TextInv /\ [Next]_vars => TextInv'
<1> SUFFICES ASSUME IoInv, TextInv, [Next]_vars PROVE TextInv'
  OBVIOUS
<1>1. op' = op
  BY DEF Next, Open, RefuseOpcode, Ioctl, UicReply, QueryReply, PrintUic, PrintQuery,
     Crash, Close, Terminated, vars
<1>2. CASE PrintQuery
  <2>1. reply' = reply /\ ret' = ret /\ (ret = 0 => printed' = QueryText)
    BY <1>2 DEF PrintQuery
  <2>2. ASSUME ReadsDescriptor(op)
        PROVE  QueryText = DescriptorText(op.idn, reply.desc)
    <3>1. Handler(op.opcode) = "read_descriptor"
      BY <2>2 DEF ReadsDescriptor, Handler, READ_DESC, READ_ATTR, WRITE_ATTR, READ_FLAG,
         SET_FLAG, CLEAR_FLAG, TOGGLE_FLAG
    <3> QED
      BY <3>1 DEF QueryText
  <2> QED
    BY <1>1, <2>1, <2>2 DEF TextInv, SUCCESS
<1>3. CASE PrintUic
  BY <1>1, <1>3 DEF PrintUic, TextInv, ReadsDescriptor
<1>4. CASE Open \/ RefuseOpcode
  <2>1. pc' = "request" \/ ret' = ERROR
    BY <1>4 DEF Open, RefuseOpcode
  <2> QED
    BY <2>1 DEF TextInv, ERROR, SUCCESS
<1>5. CASE Ioctl \/ UicReply \/ QueryReply
  <2>1. pc' \in {"uic_reply", "query_reply", "print"}
    BY <1>5 DEF Ioctl, UicReply, QueryReply
  <2> QED
    BY <2>1 DEF TextInv
<1>6. CASE Crash \/ Close \/ Terminated \/ UNCHANGED vars
  <2>1. /\ UNCHANGED <<op, reply, ret, printed>>
        /\ pc' \in {"close", "done"} => pc \in {"close", "done"}
    BY <1>6 DEF Crash, Close, Terminated, vars
  <2> QED
    BY <2>1 DEF TextInv, ReadsDescriptor
<1> QED
  BY <1>2, <1>3, <1>4, <1>5, <1>6 DEF Next

\* Whatever a device sends of a descriptor, whatever length it says it has and
\* whatever length the reply gives, one beyond the buffer included: the device
\* descriptor and no other one is shown by its fields, and these are the ones within
\* both lengths, all of them (query_trans.c:52-97, query.c:249, 282-288).
THEOREM DescriptorRight == Spec => []DescriptorShown
<1>1. Init => TextInv
  BY DEF Init, TextInv
<1>2. Spec => []TextInv
  BY <1>1, TextStep, IoInvariance, PTL DEF Spec
<1>3. IoInv /\ TextInv => DescriptorShown
  <2> SUFFICES ASSUME IoInv, TextInv, Over, ReadsDescriptor(op), ret = SUCCESS
               PROVE  DescriptorShown
    BY DEF DescriptorShown
  <2>1. printed = DescriptorText(op.idn, reply.desc)
    BY DEF TextInv, Over
  <2>2. reply.desc \in Descriptors
    BY DEF IoInv, Replies
  <2> QED
    BY <2>1, <2>2, TextRight DEF DescriptorShown
<1> QED
  BY <1>2, <1>3, IoInvariance, PTL
=============================================================================
