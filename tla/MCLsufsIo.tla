------------------------------ MODULE MCLsufsIo ------------------------------
(***************************************************************************)
(* Small instances of the operations of lsufs.                             *)
(***************************************************************************)
EXTENDS LsufsIo

Uic(m, d, side, l) ==
    [type |-> "uic", mode |-> m, dir |-> d, local_peer |-> side, lane |-> l,
     attr_id |-> 246, data |-> IF m = SET THEN 1 ELSE INIT]

Query(opcode, idn) ==
    [type |-> "query", opcode |-> opcode, idn |-> idn, index |-> 0, selector |-> 0,
     attr_value |-> IF opcode = WRITE_ATTR THEN 2 ELSE INIT]

\* Every mode, side and direction, and every opcode the command line lets through.
AllOperations ==
    {Uic(m, d, side, l) : m \in {GET, SET}, d \in {TX, RX}, side \in Sides, l \in {0, 1}}
        \cup {Query(opcode, 2) : opcode \in 0 .. QUERY_REQ_OP_MAX - 1}
        \cup {Query(READ_DESC, idn) : idn \in {0, 3, 256}}

\* A plain value, and those whose bits are those of the return codes.
EdgeValues == {0, 1, INIT, ERROR}

\* A descriptor shorter or longer than it says, that ends in each byte of the table
\* and beyond it, that says it is empty, or whose reply is longer than the buffer.
EdgeDescriptors ==
    {[len |-> n, blength |-> b] : n \in {1, 20, 89, 256, 257, 65535}, b \in {0, 18, 89, 255}}
        \cup {[len |-> 89, blength |-> b] : b \in 0 .. 90}
NoDescriptors == {}
=============================================================================
