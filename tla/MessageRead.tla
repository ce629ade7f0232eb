---------------------------- MODULE MessageRead -----------------------------
(* Reading one client's messages: client_base::resume_read and handle_read      *)
(* (src/src/io/client_base.cpp), called by pump_read, over the field tables of  *)
(* src/src/protocol/*.inl.  Bytes are named by their position in the stream the *)
(* client sends; memory maps the addresses of the message buffer to them, up to  *)
(* the size it was allocated with.  Decryption keeps positions and is left out.  *)
(* X_bug is a mutant of X.                                                      *)
EXTENDS Integers, Sequences, SequencesExt

CONSTANTS
    Scripts,            \* the streams clients may send, each a sequence of messages
    SplitInsideField,   \* may a segment end inside a field?
    SizeT,              \* bound: size_t is taken modulo this (2^64)
    kMaxBufCount,       \* "Die if the client tries to send more"
    WordSize,           \* sizeof(size_t), what alloc_buf rounds to
    SpareWords          \* the words alloc_buf adds (4)

ASSUME MessageReadAssumption ==
    /\ SplitInsideField \in BOOLEAN
    /\ kMaxBufCount \in Nat /\ SizeT \in Nat /\ SizeT > kMaxBufCount + 1
    /\ WordSize \in Nat \ {0} /\ SpareWords \in Nat \ {0}

VARIABLES
    script,     \* the stream sent
    arrived,    \* bytes of it the kernel has received
    pos,        \* bytes of it read
    item,       \* m_struct, as its place in the script
    field,      \* m_field
    offset,     \* m_offset
    buf,        \* m_buf: address |-> position of the byte that was put there
    bufsz,      \* m_bufsz, which handle_read leaves as it is
    nread,      \* resume_read: bytes read and not yet sorted into fields
    mempos,     \* resume_read: address of the field being sorted into
    at          \* "idle" (no event), "turn", "sort", "deliver", "closed" by the
                \* daemon, "lost" to the network, the client or with the daemon

streamVars == <<script, arrived>>
vars == <<script, arrived, pos, item, field, offset, buf, bufsz, nread, mempos, at>>

-----------------------------------------------------------------------------
\* A message of a script has the fields of its net_struct (type and bytes; a
\* variable field comes last and has elements of one byte), their addresses in
\* memory and the address behind the last, the field its read starts at (1 when
\* the handler keeps the header's buffer), the integer in its size field, the
\* bytes of payload that really follow, and where it starts in the stream.

Fields(s) == Len(s.fields)
Sz(s, f) == s.fields[f + 1].sz
Variable(s) == Last(s.fields).type \in {"buffer", "redundant"}
Before(s, f) == s.addr[f + 1]
End(s) == s.start + Before(s, Fields(s)) - Before(s, s.first) + s.payload

\* Where address 0 of a message is in the stream.
Origin(s) == s.start - Before(s, s.first)

\* What a redundant size counts of itself.
Self(s) == IF Last(s.fields).type = "redundant" THEN Sz(s, Fields(s) - 2) ELSE 0

\* A message is legal when its element count is within the limit; a redundant
\* size that does not even cover itself is not.
Legal(s) == Variable(s) => s.value >= Self(s) /\ s.value - Self(s) <= kMaxBufCount

\* The macros of protocol_fields_begin.inl lay the fields of a struct out one
\* behind the other; of a variable one, the size field before it at least is read
\* with it.  A client means what he says in the size field, if that is legal.
Laid(s) ==
    /\ s.fields \in Seq([type : STRING, sz : Nat]) /\ s.fields # <<>>
    /\ \A f \in 0..Fields(s) :
          /\ Before(s, f) \in Nat
          /\ Before(s, f) = IF f = 0 THEN 0 ELSE Before(s, f - 1) + Sz(s, f - 1)
    /\ \A f \in 0..(Fields(s) - 1) :
          (Sz(s, f) = 0) = (Variable(s) /\ f = Fields(s) - 1) /\ Sz(s, f) < SizeT - 1
    /\ s.first \in 0..(Fields(s) - (IF Variable(s) THEN 2 ELSE 1))
    /\ s.start \in Nat /\ s.payload \in Nat /\ s.value \in 0..(SizeT - 1)
    /\ IF Variable(s) THEN Self(s) + kMaxBufCount < SizeT /\ (Legal(s) => s.value = s.payload + Self(s))
       ELSE s.payload = 0

\* The messages follow each other; one that is read from a later field on
\* follows the header that is its first fields (read_msg's msg_std_header).
ASSUME LayoutAssumption ==
    \A x \in Scripts :
        /\ x \in Seq(Range(x)) /\ x # <<>>
        /\ \A k \in DOMAIN x :
              /\ Laid(x[k])
              /\ x[k].start = IF k = 1 THEN 0 ELSE End(x[k - 1])
              /\ x[k].first > 0 =>
                    /\ k > 1 /\ x[k - 1].first = 0 /\ ~Variable(x[k - 1])
                    /\ Before(x[k], x[k].first) = Before(x[k - 1], Fields(x[k - 1]))

\* Where segments may end: anywhere, or where a field does.
Cuts ==
    IF SplitInsideField THEN 1..End(Last(script))
    ELSE UNION {{Origin(s) + Before(s, f) : f \in (s.first + 1)..Fields(s)} \cup {End(s)} :
                s \in Range(script)}

-----------------------------------------------------------------------------
\* Sizes.

S == script[item]
Last0 == Fields(S) - 1

\* extract_integer on the size field in memory; make_unique zeroes what has not
\* been read.
extract_integer ==
    IF \A a \in Before(S, Last0 - 1)..(Before(S, Last0) - 1) :
            a \in DOMAIN buf /\ buf[a] = Origin(S) + a
    THEN S.value ELSE 0

\* The limit itself is refused.
extract_elementcount_bug ==
    LET result == IF S.fields[Fields(S)].type = "redundant"
                  THEN (extract_integer - Sz(S, Last0 - 1)) % SizeT
                  ELSE extract_integer
    IN IF result >= kMaxBufCount THEN SizeT - 1 ELSE result

\* A redundant size counts its own bytes; (size_t)-1 stands for too many.
extract_elementcount ==
    LET result == IF S.fields[Fields(S)].type = "redundant"
                  THEN (extract_integer - Sz(S, Last0 - 1)) % SizeT
                  ELSE extract_integer
    IN IF result > kMaxBufCount THEN SizeT - 1 ELSE result

\* calc_field_sz: the size on the wire of a field whose predecessors are read.
calc_field_sz(f) == IF Variable(S) /\ f = Last0 THEN extract_elementcount ELSE Sz(S, f)

Oversize == calc_field_sz(field) = SizeT - 1

\* readsz before the offset is taken off: the fields left, up to a variable one
\* whose size is not known yet.
Pending ==
    IF field = Last0 THEN calc_field_sz(field)
    ELSE Before(S, IF Variable(S) THEN Last0 ELSE Fields(S)) - Before(S, field)

\* A fixed minimum is read whatever is left.
readsz_bug == IF Pending < 3 THEN 3 ELSE Pending

readsz == Pending - (IF offset < Pending THEN offset ELSE Pending)

\* A short read is taken for a full one.
Taken_bug == readsz

\* What socket::read returns: as much of readsz as has arrived.
Taken == IF readsz < arrived - pos THEN readsz ELSE arrived - pos

-----------------------------------------------------------------------------
\* Memory.

\* memsz is left out: the fields that are read already are not counted.
Allocated_bug == ((Before(S, Fields(S)) - Before(S, field)) \div WordSize + SpareWords) * WordSize

\* The bufsz of alloc_buf for the memory calc_field_sz counts, m_count elements
\* of every field: a variable field has an m_count of 0.
Allocated == (Before(S, Fields(S)) \div WordSize + SpareWords) * WordSize

\* The old memory is not copied.
alloc_buf_bug ==
    /\ bufsz' = Allocated
    /\ buf' = <<>>

\* Every turn moves to new memory, zeroed, and copies what the old one held.
alloc_buf ==
    /\ bufsz' = Allocated
    /\ buf' = Restrict(buf, DOMAIN buf \cap 0..(bufsz - 1))

-----------------------------------------------------------------------------
\* Indices stay in range and no more is read than has arrived.
TypeOK ==
    /\ script \in Scripts
    /\ pos \in 0..arrived
    /\ item \in 1..(Len(script) + 1)
    /\ at \in {"idle", "turn", "sort", "deliver", "closed", "lost"}
    /\ item <= Len(script) => field \in 0..Fields(S)
    /\ offset \in Nat /\ bufsz \in Nat /\ nread \in Nat /\ mempos \in Nat

Init ==
    /\ script \in Scripts
    /\ arrived = 0 /\ pos = 0
    /\ item = 1 /\ field = 0 /\ offset = 0
    /\ buf = <<>> /\ bufsz = 0
    /\ nread = 0 /\ mempos = 0
    /\ at = "idle"

\* The network delivers another segment.
Arrive ==
    /\ \E n \in Cuts : n > arrived /\ arrived' = n
    /\ UNCHANGED <<script, pos, item, field, offset, buf, bufsz, nread, mempos, at>>

\* An input event: pump_read calls handle_read.
Dispatch ==
    /\ at = "idle" /\ pos < arrived /\ item <= Len(script)
    /\ at' = "turn"
    /\ UNCHANGED <<streamVars, pos, item, field, offset, buf, bufsz, nread, mempos>>

\* A turn of resume_read's outer loop: refuse, stop at EAGAIN, or read.
TurnRefuses ==
    /\ at = "turn" /\ Oversize
    /\ at' = "closed"
    /\ UNCHANGED <<streamVars, pos, item, field, offset, buf, bufsz, nread, mempos>>

TurnBlocks ==
    /\ at = "turn" /\ ~Oversize /\ readsz > 0 /\ pos = arrived
    /\ alloc_buf
    /\ at' = "idle"
    /\ UNCHANGED <<streamVars, pos, item, field, offset, nread, mempos>>

TurnReads ==
    /\ at = "turn" /\ ~Oversize /\ readsz > 0 /\ pos < arrived
    /\ alloc_buf
    /\ nread' = Taken
    /\ pos' = pos + nread'
    /\ mempos' = Before(S, field)
    /\ at' = "sort"
    /\ UNCHANGED <<streamVars, item, field, offset>>

\* read() fails: resume_read shuts down, and the hang-up follows.
TurnFails ==
    /\ at = "turn" /\ ~Oversize /\ readsz > 0
    /\ alloc_buf
    /\ at' = "lost"
    /\ UNCHANGED <<streamVars, pos, item, field, offset, nread, mempos>>

\* An empty field counts as unfinished.
LeftOff_bug(n, wiresz) == n < wiresz \/ n = 0

\* The bytes read ran out in the middle of the field.
LeftOff(n, wiresz) == n < wiresz

\* min(field_wiresz, nread)
field_nread == IF calc_field_sz(field) < nread THEN calc_field_sz(field) ELSE nread

\* The next n bytes of those just read, put at mem.  What is put behind the
\* allocation is not there to be read back: the memory is not m_buf's.
Copied(mem, n) ==
    LET put == mem..(mem + n - 1) \cap 0..(bufsz - 1)
    IN [a \in DOMAIN buf \cup put |-> IF a \in put THEN pos - nread + (a - mem) ELSE buf[a]]

\* A turn of the inner loop: the next bytes go to the current field.
Sort ==
    /\ at = "sort"
    /\ LET wiresz == calc_field_sz(field)
           n == field_nread
           mem == mempos + offset
       IN /\ buf' = Copied(mem, n)
          /\ nread' = nread - n
          /\ \/ /\ LeftOff(n, wiresz)
                /\ offset' = offset + n
                /\ at' = "turn"
                /\ UNCHANGED <<field, mempos>>
             \/ /\ ~LeftOff(n, wiresz) /\ field < Last0
                /\ field' = field + 1 /\ offset' = 0
                /\ mempos' = mem + Sz(S, field)
                /\ UNCHANGED at
             \/ /\ ~LeftOff(n, wiresz) /\ field = Last0
                /\ field' = field + 1
                /\ at' = "deliver"
                /\ UNCHANGED <<offset, mempos>>
    /\ UNCHANGED <<streamVars, pos, item, bufsz>>

\* EVP_DecryptUpdate writes behind the allocation: undefined behaviour, which the
\* daemon may survive (Sort) or not.
SortDies ==
    /\ at = "sort" /\ mempos + offset + field_nread > bufsz
    /\ at' = "lost"
    /\ UNCHANGED <<streamVars, pos, item, field, offset, buf, bufsz, nread, mempos>>

\* read(ns, 1, buf) keeps the buffer of the message just read.
Kept == IF item < Len(script) /\ script[item + 1].first > 0 THEN buf ELSE <<>>

\* handle_read gives the message to the handler, which asks for the next one;
\* pump_read goes on.
Deliver ==
    /\ at = "deliver"
    /\ item' = item + 1
    /\ field' = IF item < Len(script) THEN script[item + 1].first ELSE 0
    /\ offset' = 0
    /\ buf' = Kept
    /\ at' = IF item < Len(script) THEN "turn" ELSE "idle"
    /\ UNCHANGED <<streamVars, pos, bufsz, nread, mempos>>

\* The handler refuses the message or asks for no other: pump_read shuts down.
DeliverLast ==
    /\ at = "deliver"
    /\ item' = item + 1
    /\ field' = 0 /\ offset' = 0
    /\ buf' = <<>>
    /\ at' = "closed"
    /\ UNCHANGED <<streamVars, pos, bufsz, nread, mempos>>

\* A hang-up event: the client is erased.
Hup ==
    /\ at = "idle" /\ at' = "lost"
    /\ UNCHANGED <<streamVars, pos, item, field, offset, buf, bufsz, nread, mempos>>

Read == Dispatch \/ TurnRefuses \/ TurnBlocks \/ TurnReads \/ Sort \/ Deliver \/ DeliverLast

Next == Arrive \/ Read \/ TurnFails \/ SortDies \/ Hup

\* The network delivers what was sent, and the daemon runs.
Spec == Init /\ [][Next]_vars /\ WF_vars(Read)

-----------------------------------------------------------------------------
\* Safety.

\* What a handler is given: the fixed fields lie in the allocation, and every
\* byte that does is the one the client sent, at its place, the bytes of a header
\* that was kept included.  Of a payload that is only what alloc_buf's spare words
\* have room for (see MessageFits).
DeliveredIntact ==
    at = "deliver" =>
        /\ Before(S, Fields(S)) <= bufsz
        /\ \A a \in 0..(End(S) - Origin(S) - 1) :
              a < bufsz => a \in DOMAIN buf /\ buf[a] = Origin(S) + a

\* client_base.h:94 calls what calc_field_sz counts the "field size in memory (to
\* allocate)": the message lies in the memory allocated for it.
MessageFits == at = "deliver" => End(S) - Origin(S) <= bufsz

\* The memcpy of m_bufsz bytes fits the new memory, though m_bufsz is what the
\* last turn left in it, maybe for the header another handler has read.
CopyFits == at = "turn" /\ DOMAIN buf # {} => bufsz <= Allocated

\* m_field and m_offset name the place in the message up to which it was read:
\* this is what lets resume_read leave at EAGAIN and come back.
CursorMatchesStream ==
    at \in {"idle", "turn"} /\ item <= Len(script)
        => pos = Origin(S) + Before(S, field) + offset

\* Nothing is read beyond the message asked for: what follows may have to be
\* decrypted with another key (set_crypt_key), or refused.
ReadsOnlyCurrent ==
    /\ item <= Len(script) => pos <= End(S)
    /\ at = "deliver" => pos = End(S) /\ nread = 0

\* client_base.cpp:299-305: having "left off in the middle of a field", the loop
\* is to "request more data": a turn asks the socket for some.
RequestsMore == at = "turn" => Oversize \/ readsz > 0

\* Wherever segments end, only a field that was left off, some of its bytes read,
\* can keep a turn from asking: never an empty buffer, nor a field not begun.
AsksUnlessCut == at = "turn" => Oversize \/ readsz > 0 \/ offset > 0

-----------------------------------------------------------------------------
Plan == [k \in DOMAIN script |->
            LET s == script[k]
            IN [end |-> End(s), head |-> End(s) - s.payload, legal |-> Legal(s)]]

Stream == INSTANCE MessageStream
    WITH plan <- Plan, delivered <- item - 1, state <- CASE at = "closed" -> "refused" [] at = "lost" -> "lost" [] OTHER -> "open"

\* resume_read and handle_read implement the message stream: every message that
\* has arrived is delivered, once, in order, or the connection is refused.
ImplementsStream == Stream!Spec
=============================================================================
