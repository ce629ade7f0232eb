------------------------------ MODULE Messages ------------------------------
(* The messages a gatekeeper client sends: the field tables that the macros of  *)
(* src/src/protocol/protocol_fields_begin.inl make of common.inl and            *)
(* gatekeeper.inl, in the form MessageRead takes them.  The UUID is cut to two  *)
(* bytes and the seed to three.                                                 *)
EXTENDS Naturals, Sequences
LOCAL INSTANCE SequencesExt

I(n) == [type |-> "integer", sz |-> n]
Blob(n) == [type |-> "blob", sz |-> n]
BufferSize == [type |-> "buffer_size", sz |-> 4]
Buffer == [type |-> "buffer", sz |-> 0]
Redundant == [type |-> "redundant", sz |-> 0]

\* net_struct_calcsz: the bytes in memory of the first idx fields.
net_struct_calcsz(fields, idx) == FoldLeft(LAMBDA sum, f : sum + f.sz, 0, SubSeq(fields, 1, idx))

\* A message read from field first on: its size field says value, and payload
\* bytes of the variable field follow.
Msg(fields, first, value, payload) ==
    [fields |-> fields, first |-> first, value |-> value, payload |-> payload, start |-> 0,
     addr |-> [f \in 1..(Len(fields) + 1) |-> net_struct_calcsz(fields, f - 1)]]

connection_header(value, payload) ==
    Msg(<<I(1), I(2), I(4), I(4), I(4), Blob(2), BufferSize, Redundant>>, 0, value, payload)
encrypt_header == Msg(<<I(1), I(1)>>, 0, 0, 0)
msg_std_header == Msg(<<I(2)>>, 0, 0, 0)

\* The client's seed, which the handshake reads as a struct of its own.
encrypt_seed == Msg(<<Blob(3)>>, 0, 0, 0)

\* Requests, read from field 1 behind the header.
pingRequest(value, payload) == Msg(<<I(2), I(4), I(4), BufferSize, Buffer>>, 1, value, payload)
fileSrvRequest == Msg(<<I(2), I(4), I(1)>>, 1, 0, 0)
authSrvRequest == Msg(<<I(2), I(4)>>, 1, 0, 0)
=============================================================================
