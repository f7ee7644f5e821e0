----------------------------- MODULE LsufsTypes -----------------------------
(***************************************************************************)
(* The operations of lsufs and the requests they become: what the command  *)
(* line fills in (struct uic_operation, struct query_operation) and what   *)
(* is sent to the device in a bsg request.                                 *)
(***************************************************************************)
EXTENDS Common, Sequences

\* enum uic_operation_mode and uic_operation_dir.
GET == 0
SET == 1
TX == 0
RX == 1

\* enum query_req_opcode; QUERY_REQ_OP_MAX is one past the last.
READ_DESC == 1
WRITE_DESC == 2
READ_ATTR == 3
WRITE_ATTR == 4
READ_FLAG == 5
SET_FLAG == 6
CLEAR_FLAG == 7
TOGGLE_FLAG == 8
QUERY_REQ_OP_MAX == 9

\* What the sanity checks let through.  Numbers of the command line are kept in
\* an int, the value of an attribute in 64 bits.
UicOperations ==
    [type : {"uic"}, mode : {GET, SET}, dir : {TX, RX}, local_peer : Sides,
     lane : Nat, attr_id : Nat, data : Int]

QueryOperations ==
    [type : {"query"}, opcode : 0 .. QUERY_REQ_OP_MAX - 1, idn : Nat, index : Nat,
     selector : Nat, attr_value : Int]

WellFormed(op) ==
    \/ op \in UicOperations /\ (op.mode = SET => op.data >= 0)
    \/ op \in QueryOperations /\ (op.opcode = WRITE_ATTR => op.attr_value # INIT)

-----------------------------------------------------------------------------
\* Receivers are selected by 4 and up.
Select(op) == IF op.dir = TX THEN op.lane ELSE op.lane + 4

\* The fields of UIC_ARG_MIB_SEL have 16 bits.  No data goes with it, either way.
UicRequest(op) ==
    [dir |-> "FROM_DEV",
     cmd |-> <<"DME", op.local_peer, op.mode>>,
     attr |-> op.attr_id % 65536,
     selector |-> Select(op) % 65536,
     mib_val |-> IF op.mode = SET THEN op.data ELSE 0]

\* The slip: a label of the switch is missing.
SentAsReadSlip(opcode) == opcode \in {READ_DESC, READ_ATTR}

\* The switch of send_query_command.
SentAsRead(opcode) == opcode \in {READ_DESC, READ_ATTR, READ_FLAG}

\* compose_ufs_bsg_req: the fields of the UPIU have 8 bits.
QueryRequest(op) ==
    [dir |-> IF SentAsRead(op.opcode) THEN "FROM_DEV" ELSE "TO_DEV",
     func |-> IF SentAsRead(op.opcode) THEN "STD_READ" ELSE "STD_WRITE",
     cmd |-> <<"QUERY", op.opcode>>,
     idn |-> op.idn % 256, index |-> op.index % 256, selector |-> op.selector % 256,
     value |-> IF op.opcode = WRITE_ATTR THEN op.attr_value ELSE 0]

RequestOf(op) == IF op.type = "uic" THEN UicRequest(op) ELSE QueryRequest(op)
=============================================================================
