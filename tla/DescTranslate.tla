---------------------------- MODULE DescTranslate ----------------------------
(***************************************************************************)
(* How lsufs shows a descriptor (query_trans.c, the end of                 *)
(* do_query_read_descriptor, and the look-up of common.c): the device      *)
(* descriptor field by field from the table of query.h, any other one byte *)
(* by byte.  Of the data only the length the reply gives and the first     *)
(* byte, bLength, are looked at.                                           *)
(***************************************************************************)
EXTENDS Common, Sequences

DESCRIPTOR_BUFFER_SIZE == 256

MASK_QUERY_DATA_SEG_LEN == 65535

\* buf_len after the reply, all that the mask leaves of it whatever the room in buf;
\* and buf[0].
Descriptors == [len : 0 .. MASK_QUERY_DATA_SEG_LEN, blength : 0 .. 255]
NoDescriptor == [len |-> 0, blength |-> 0]

\* The first characters of the names of ufs_dev_desc, with their offsets; "R" is
\* for Reserved.
ufs_dev_desc ==
    [i \in 1 .. 16 |-> <<i - 1, "b">>] \o
    << <<16, "w">>, <<18, "w">>, <<20, "i">>, <<21, "i">>, <<22, "i">>, <<23, "i">>,
       <<24, "w">>, <<26, "b">>, <<27, "b">>, <<28, "b">>, <<29, "w">>, <<31, "b">>,
       <<32, "b">>, <<33, "b">>, <<34, "w">>, <<36, "b">>, <<37, "d">>, <<41, "b">>,
       <<42, "i">>, <<43, "R">>, <<48, "R">>, <<64, "R">>, <<67, "R">>, <<77, "w">>,
       <<79, "d">>, <<83, "b">>, <<84, "b">>, <<85, "d">> >>

\* The descriptors that have a name; the first one is translated.
ufs_descriptors == <<0, 1, 2, 4, 5, 7, 8, 9>>

\* characteristics_look_up: the place of the first entry with this id, from 0.
characteristics_look_up(c, id) ==
    IF \E i \in 1 .. Len(c) : c[i] = id
    THEN (CHOOSE i \in 1 .. Len(c) : c[i] = id /\ \A j \in 1 .. i - 1 : c[j] # id) - 1
    ELSE INIT

-----------------------------------------------------------------------------
field_name_to_size(prefix) ==
    CASE prefix = "w" -> 2 [] prefix = "d" -> 4 [] prefix = "q" -> 8 [] OTHER -> 1

EndOf(field) == field[1] + field_name_to_size(field[2])

\* Data ends where the transfer ends, or the descriptor by its own account.
Limit(d) == IF d.len < d.blength THEN d.len ELSE d.blength

FitsSlip(field, d) == field[1] < Limit(d)       \* the size of the field left out

Fits(field, d) == EndOf(field) <= Limit(d)

Reserved(field) == field[2] = "R"

\* The loop of ufs_desc_translate goes over the table and breaks at the first field
\* that does not fit.
FieldsShown(table, d) ==
    {i \in 1 .. Len(table) :
        /\ d.len >= 1
        /\ ~Reserved(table[i])
        /\ \A j \in 1 .. i : Reserved(table[j]) \/ Fits(table[j], d)}

\* What do_query_read_descriptor prints; dump_hex and dump_descriptor go on for as
\* many bytes as the reply says.
DescriptorText(idn, d) ==
    IF characteristics_look_up(ufs_descriptors, idn) = 0
    THEN [said |-> "fields", fields |-> FieldsShown(ufs_dev_desc, d), dumped |-> d.len]
    ELSE [said |-> "bytes", dumped |-> d.len]

\* A dump that leaves buf.
Overruns(d) == d.len > DESCRIPTOR_BUFFER_SIZE

-----------------------------------------------------------------------------
BytesOf(i) == ufs_dev_desc[i][1] .. EndOf(ufs_dev_desc[i]) - 1

\* The bytes the table has no field for.
NoField ==
    {b \in 0 .. 255 :
        \A i \in 1 .. Len(ufs_dev_desc) : Reserved(ufs_dev_desc[i]) \/ b \notin BytesOf(i)}

\* Shown fields are made of bytes within the data that belong to no other field, and
\* each byte of the data is in a field that is shown, but for those that are reserved and
\* those of a field cut off by the end of the data.
FieldsRight(fields, d) ==
    /\ \A i \in fields : BytesOf(i) \subseteq 0 .. Limit(d) - 1
    /\ \A i, j \in fields : i # j => BytesOf(i) \cap BytesOf(j) = {}
    /\ \A b \in 0 .. Limit(d) - 1 :
         \/ b \in NoField
         \/ \E i \in 1 .. Len(ufs_dev_desc) :
              b \in BytesOf(i) /\ (i \in fields \/ Limit(d) \in BytesOf(i))
=============================================================================
