------------------------------- MODULE LsufsIo -------------------------------
(***************************************************************************)
(* What lsufs does with an operation: do_uic_operation (uic.c) and         *)
(* do_query_operation (query.c) down to the SG_IO ioctl of ufs_bsg_io, and *)
(* back up to what is printed and returned.  A definition whose name ends  *)
(* in Slip is the one after it with a slip in it; nothing uses it.         *)
(***************************************************************************)
EXTENDS LsufsTypes, DescTranslate

CONSTANTS
    Operations,     \* the operations the command line may have asked for
    Values,         \* what the device may answer with
    DescriptorData, \* what the device may send of a descriptor
    Responses,      \* result codes of the device, 0 among them
    KernelFails     \* the ioctl or the driver may fail

ASSUME IoAssumption ==
    /\ \A op \in Operations : WellFormed(op)
    /\ Values \subseteq Int
    /\ DescriptorData \subseteq Descriptors
    /\ Responses \subseteq 0 .. 255 /\ 0 \in Responses
    /\ KernelFails \in BOOLEAN

VARIABLES
    pc,         \* what the program does next
    op,         \* lsufs_op
    fd,         \* the bsg device: "closed", or open for reading or for both
    reply,      \* what the ioctl left behind
    ret,        \* ret of the function at hand
    printed,    \* what the program says of the operation
    executed    \* the requests the device has carried out

vars == <<pc, op, fd, reply, ret, printed, executed>>

EIO == 5

\* The ioctl's value, the driver's result, the code of the device (the config
\* result code or the query response), the value it answers with and the descriptor
\* in the buffer.
Replies == [ioctl : {0, -1}, result : {0, EIO}, code : 0 .. 255, value : Int,
            desc : Descriptors]
NoReply == [ioctl |-> 0, result |-> 0, code |-> 0, value |-> 0, desc |-> NoDescriptor]

Nothing == [said |-> "nothing"]
Failed == [said |-> "failed"]
Successfully == [said |-> "successfully"]
Answer(x) == [said |-> "value", value |-> x]

TypeOK ==
    /\ pc \in {"open", "request", "uic_reply", "query_reply", "print", "close", "done",
              "crashed"}
    /\ WellFormed(op)
    /\ fd \in {"closed", "O_RDONLY", "O_RDWR"}
    /\ reply \in Replies
    /\ ret \in Int
    /\ executed \in Seq({RequestOf(op)})

Init ==
    /\ pc = "open"
    /\ op \in Operations
    /\ fd = "closed"
    /\ reply = NoReply
    /\ ret = 0
    /\ printed = Nothing
    /\ executed = <<>>

-----------------------------------------------------------------------------
\* The first switch of do_query_operation, and the test of do_uic_operation.
OpenedToRead ==
    \/ op.type = "uic" /\ op.mode = GET
    \/ op.type = "query" /\ op.opcode \in {READ_DESC, READ_ATTR, READ_FLAG}

OpenFlagSlip == IF OpenedToRead THEN "O_RDONLY" ELSE "O_WRONLY"

OpenFlag == IF OpenedToRead THEN "O_RDONLY" ELSE "O_RDWR"

Open ==
    /\ pc = "open"
    /\ \/ fd' = OpenFlag /\ pc' = "request" /\ UNCHANGED <<ret, printed>>
       \/ KernelFails /\ ret' = ERROR /\ pc' = "done" /\ printed' = Failed /\ UNCHANGED fd
    /\ UNCHANGED <<op, reply, executed>>

\* The second switch of do_query_operation.  The device is open by then.
Handler(opcode) ==
    CASE opcode = READ_DESC -> "read_descriptor"
      [] opcode = READ_ATTR -> "read_attribute"
      [] opcode = WRITE_ATTR -> "write_attribute"
      [] opcode = READ_FLAG -> "read_flag"
      [] opcode \in {SET_FLAG, CLEAR_FLAG, TOGGLE_FLAG} -> "manipulate_flag"
      [] OTHER -> "unsupported"

Supported == op.type = "query" => Handler(op.opcode) # "unsupported"

RefuseOpcode ==
    /\ pc = "request"
    /\ ~Supported
    /\ ret' = ERROR
    /\ printed' = Failed
    /\ pc' = "close"
    /\ UNCHANGED <<op, fd, reply, executed>>

ReadsDescriptor(o) == o.type = "query" /\ o.opcode = READ_DESC

\* A request the device took is carried out, if its code is 0; a descriptor is sent
\* then, if data is to come from the device.  A request may have been carried out although the ioctl or the driver says
\* it failed.
DeviceAnswers ==
    \E code \in Responses, x \in Values, d \in DescriptorData \cup {NoDescriptor} :
        /\ \/ d = NoDescriptor
           \/ ReadsDescriptor(op) /\ RequestOf(op).dir = "FROM_DEV" /\ code = 0
        /\ reply' = [NoReply EXCEPT !.code = code, !.value = x, !.desc = d]
        /\ executed' = IF code = 0 THEN Append(executed, RequestOf(op)) ELSE executed

KernelRefuses ==
    /\ KernelFails
    /\ reply' \in {[NoReply EXCEPT !.ioctl = -1], [NoReply EXCEPT !.result = EIO]}
    /\ executed' \in {executed, Append(executed, RequestOf(op))}

\* The ioctl of ufs_bsg_io.
Ioctl ==
    /\ pc = "request"
    /\ Supported
    /\ DeviceAnswers \/ KernelRefuses
    /\ pc' = IF op.type = "uic" THEN "uic_reply" ELSE "query_reply"
    /\ UNCHANGED <<op, fd, ret, printed>>

IoResultSlip == reply.ioctl     \* the driver's result not looked at

\* What ufs_bsg_io returns: the driver's result before the ioctl's own.
IoResult == IF reply.result # 0 THEN -EIO ELSE reply.ioctl

\* send_uic_command: the value is returned in the place of a return code.
UicResult == IF IoResult # 0 \/ reply.code # 0 THEN ERROR ELSE reply.value

UicReply ==
    /\ pc = "uic_reply"
    /\ ret' = UicResult
    /\ pc' = "print"
    /\ UNCHANGED <<op, fd, reply, printed, executed>>

\* send_query_command: dword_1 of the response has the query response in its
\* second byte; query_resp has room for the first.
QueryResponse == ((reply.code * 256) % 256) \div 256

QueryResult == IF IoResult # 0 THEN IoResult ELSE IF QueryResponse # 0 THEN ERROR ELSE 0

QueryReply ==
    /\ pc = "query_reply"
    /\ ret' = QueryResult
    /\ pc' = "print"
    /\ UNCHANGED <<op, fd, reply, printed, executed>>

UicFailedSlip == ret < 0        \* every negative value taken for an error

\* A value that has the bits of ERROR is taken for it.
UicFailed == ret = ERROR

\* The end of do_uic_get and do_uic_set.
PrintUic ==
    /\ pc = "print" /\ op.type = "uic"
    /\ printed' = IF UicFailed THEN Failed
                  ELSE IF op.mode = GET THEN Answer(ret) ELSE Successfully
    /\ ret' = IF UicFailed THEN ret ELSE SUCCESS
    /\ pc' = "close"
    /\ UNCHANGED <<op, fd, reply, executed>>

\* What the do_query function of an opcode says at its end, when all went well.
\* A flag is the last bit of its value.
QueryText ==
    CASE Handler(op.opcode) = "read_descriptor" -> DescriptorText(op.idn, reply.desc)
      [] Handler(op.opcode) = "read_attribute" -> Answer(reply.value)
      [] Handler(op.opcode) = "read_flag" -> Answer(reply.value % 2)
      [] OTHER -> Successfully

PrintQuery ==
    /\ pc = "print" /\ op.type = "query"
    /\ printed' = IF ret # 0 THEN Failed ELSE QueryText
    /\ pc' = "close"
    /\ UNCHANGED <<op, fd, reply, ret, executed>>

\* A dump that leaves the buffer reads the memory behind it, and may run into the
\* end of that.
Crash ==
    /\ pc = "print" /\ ReadsDescriptor(op) /\ ret = 0
    /\ Overruns(reply.desc)
    /\ fd' = "closed"
    /\ pc' = "crashed"
    /\ UNCHANGED <<op, reply, ret, printed, executed>>

Close ==
    /\ pc = "close"
    /\ fd' = "closed"
    /\ pc' = "done"
    /\ UNCHANGED <<op, reply, ret, printed, executed>>

Terminated == pc \in {"done", "crashed"} /\ UNCHANGED vars

Next ==
    \/ Open \/ RefuseOpcode \/ Ioctl \/ UicReply \/ QueryReply
    \/ PrintUic \/ PrintQuery \/ Crash \/ Close \/ Terminated

Spec == Init /\ [][Next]_vars

-----------------------------------------------------------------------------
Over == pc = "done"

\* The exit status and what is printed agree, and neither hides a failure of the
\* ioctl or of the driver (ufs_bsg.c:36-48): success is only said of a request
\* that went through the kernel, once.
SuccessWentThrough ==
    Over =>
        /\ ret = SUCCESS <=> printed # Failed
        /\ ret = SUCCESS => /\ reply.ioctl = 0 /\ reply.result = 0
                            /\ Len(executed) <= 1

\* Of a uic operation (uic.c:188-296) success means that the device carried out
\* the request as it was given, and the value printed is the one it answered with.
\* A failure is said of no request that went through, but for the one value that
\* cannot be told from ERROR.
UicOutcomeHonest ==
    Over /\ op.type = "uic" =>
        /\ ret = SUCCESS =>
             /\ executed = <<UicRequest(op)>>
             /\ op.mode = GET => printed = Answer(reply.value)
        /\ ret # SUCCESS =>
             \/ executed = <<>>
             \/ reply.ioctl # 0 \/ reply.result # 0
             \/ reply.value = ERROR

\* What a request is for, by what the device is told to do.
Changes(r) ==
    \/ r.cmd[1] = "DME" /\ r.cmd[3] = SET
    \/ r.cmd[1] = "QUERY" /\ r.cmd[2] \in {WRITE_DESC, WRITE_ATTR, SET_FLAG, CLEAR_FLAG,
                                           TOGGLE_FLAG}

\* Of a request that the device carries out.
SentAsMeant ==
    executed' # executed =>
        LET r == executed'[Len(executed')]
        IN  /\ fd = "O_RDWR" <=> Changes(r)
            /\ r.cmd[1] = "QUERY" => /\ r.func = "STD_WRITE" <=> Changes(r)
                                     /\ r.dir = "TO_DEV" <=> Changes(r)

\* Of what is said of a success.
SaidAsMeant ==
    printed' # printed /\ ret' = SUCCESS =>
        (printed' = Successfully <=> Changes(RequestOf(op)))

\* The device is asked to change something through a descriptor open for writing,
\* with the function code and the direction of a write, and no value is made up for
\* it; it is asked for a value with those of a read, and the value is said.  The flag
\* of open, the function and direction, and the function that prints are chosen by
\* three switches on the opcode (query.c:222-233, 421-430, 440-462; uic.c:298-320).
WritesAreMeant == [][SentAsMeant /\ SaidAsMeant]_vars

\* query.c:246 says "query request failed with response code %d": a request
\* that the device refuses is not reported as done.
RefusalReported ==
    Over /\ op.type = "query" /\ reply.code # 0 => ret # SUCCESS

\* Of a descriptor (query.c:282-288) the device descriptor is shown by its fields and
\* no other one is (query.h has one table); whatever the length of the reply and the
\* descriptor's own, the fields shown are within both, and all that are.
DescriptorShown ==
    Over /\ ReadsDescriptor(op) /\ ret = SUCCESS =>
        /\ printed.said = "fields" <=> op.idn = 0
        /\ printed.said = "fields" => FieldsRight(printed.fields, reply.desc)
=============================================================================
