---------------------------- MODULE GateSession -----------------------------
(* One client's session: the incoming handler, the key exchange and the         *)
(* gatekeeper's messages (src/src/daemon/client_common.cpp, gatekeeper.cpp), as *)
(* pump_read and pump_write run them.  The bytes a client sends parse as the    *)
(* struct the session asked for, whatever he meant (MessageRead), so the input  *)
(* is that struct's content.  X_bug is a mutant of X.                           *)
EXTENDS WriteQueue, FiniteSets

CONSTANTS
    Ids,                    \* transaction ids the client uses
    NoId,                   \* for messages that have none
    SessionKey,             \* what make_server_key yields
    Builds,                 \* values THEME_ALLOW_DECRYPTED_CONNECTIONS may have
    MaxRequests             \* bound: requests of one session

\* Structs that requests are read into, and the message each handler writes.
ReplyTo == [pingRequest |-> "pingReply", fileSrvRequest |-> "fileSrvReply",
            authSrvRequest |-> "fileSrvReply"]

Requests == DOMAIN ReplyTo
Kinds == {"encrypt_s2c", "pingReply", "fileSrvReply", "authSrvReply"}
Structs == {"connection_header", "encrypt_header", "encrypt_seed", "msg_std_header"} \cup Requests

ASSUME GateSessionAssumption ==
    /\ DOMAIN Size = Kinds
    /\ Builds \subseteq BOOLEAN /\ MaxRequests \in Nat
    /\ SessionKey # NoKey /\ NoId \notin Ids

VARIABLES
    decrypted,  \* the build's THEME_ALLOW_DECRYPTED_CONNECTIONS, never changed
    handler,    \* m_handler: "incoming" or "gate"
    flags,      \* m_flags, e_polling left out
    struct,     \* m_read's m_struct, "none" when no read is registered
    type,       \* the type in the buffer kept from the header, "none" without one
    at,         \* "idle", "write", "read", "handled" (a handler returned), "gone" (erased)
    input,      \* the event has e_read too
    ok,         \* what the handler returned
    asked       \* history: the requests dispatched, as <<type, id>>

sessionVars == <<decrypted, handler, flags, struct, type, at, input, ok, asked>>
vars == <<writeVars, sessionVars>>

TypeOK ==
    /\ key \in {NoKey, SessionKey} /\ base \in Nat /\ shut \in BOOLEAN
    /\ wire \in Seq([msg : [kind : Kinds, id : Ids \cup {NoId}], nth : Nat \ {0},
                      key : {NoKey, SessionKey}, ks : Nat])
    /\ writes \in Seq([from : Nat, to : Nat, offs : Nat])
    /\ \A i \in DOMAIN writes : Left(writes[i]) \in Nat \ {0}
    /\ sent \in Seq(Nat)
    /\ decrypted \in Builds
    /\ handler \in {"incoming", "gate"}
    /\ flags \in SUBSET {"encrypted", "wantClientSeed", "wantMsgHeader"}
    /\ struct \in Structs \cup {"none"} /\ type \in Requests \cup {"none"}
    /\ at \in {"idle", "write", "read", "handled", "gone"}
    /\ input \in BOOLEAN /\ ok \in BOOLEAN
    /\ asked \in Seq(Requests \X Ids)

\* client::client
Init ==
    /\ WriteInit
    /\ decrypted \in Builds
    /\ handler = "incoming" /\ flags = {}
    /\ struct = "connection_header" /\ type = "none"
    /\ at = "idle" /\ input = FALSE /\ ok = TRUE
    /\ asked = <<>>

-----------------------------------------------------------------------------
\* handle_dispatch: output first, then input.
Dispatch ==
    /\ at = "idle" /\ ~shut
    /\ \/ at' = "write" /\ input' \in BOOLEAN
       \/ at' = "read" /\ UNCHANGED input
    /\ UNCHANGED <<writeVars, decrypted, handler, flags, struct, type, ok, asked>>

\* A hang-up, which every shutdown brings about: the handler deletes itself and
\* the client is erased.
Hup ==
    /\ at = "idle"
    /\ at' = "gone"
    /\ UNCHANGED <<writeVars, decrypted, handler, flags, struct, type, input, ok, asked>>

AfterWrite == IF input THEN "read" ELSE "idle"

\* pump_write goes on while handle_write completes a buffer.
PumpWrite ==
    /\ at = "write"
    /\ handle_write
    /\ at' = IF Len(writes') < Len(writes) THEN "write" ELSE AfterWrite
    /\ UNCHANGED <<decrypted, handler, flags, struct, type, input, ok, asked>>

PumpWriteDone ==
    /\ at = "write" /\ writes = <<>>
    /\ at' = AfterWrite
    /\ UNCHANGED <<writeVars, decrypted, handler, flags, struct, type, input, ok, asked>>

\* handle_read has no complete message (EAGAIN), or gives up and shuts down.
ReadPauses ==
    /\ at = "read"
    /\ at' = "idle"
    /\ shut' \in {shut, TRUE}
    /\ UNCHANGED <<key, base, wire, writes, sent, decrypted, handler, flags, struct, type, input, ok, asked>>

-----------------------------------------------------------------------------
\* A complete message goes to the handler; handle_read has reset m_struct, so
\* only what the handler registers is read next.  A handler that keeps the
\* buffer keeps the type in it.

Handler(h) == at = "read" /\ handler = h /\ at' = "handled" /\ input' = input

Registers(ns) == struct' = ns /\ type' = "none" /\ ok' = TRUE

Refuses == struct' = "none" /\ type' = "none" /\ ok' = FALSE

Clear == flags \cap {"encrypted"} = {}

\* incoming_client::read; create_gate's encrypted_handler registers the read.
IncomingGate ==
    /\ Handler("incoming")
    /\ handler' = "gate"
    /\ Registers("encrypt_header")
    /\ UNCHANGED <<writeVars, decrypted, flags, asked>>

IncomingRefused ==
    /\ Handler("incoming")
    /\ Refuses
    /\ UNCHANGED <<writeVars, decrypted, handler, flags, asked>>

\* handle_handshake
Handshake == Handler("gate") /\ Clear /\ "wantClientSeed" \notin flags

HandshakeRefused ==
    /\ Handshake
    /\ Refuses
    /\ UNCHANGED <<writeVars, decrypted, handler, flags, asked>>

\* The build option is not looked at.
EmptyAllowed_bug == TRUE

EmptyAllowed == decrypted

\* "lies!": nothing is registered to be read next.
HandshakeEmpty ==
    /\ Handshake /\ EmptyAllowed
    /\ flags' = flags \cup {"encrypted"}
    /\ struct' = "none" /\ type' = "none" /\ ok' = TRUE
    /\ UNCHANGED <<writeVars, decrypted, handler, asked>>

HandshakeSeed ==
    /\ Handshake
    /\ Registers("encrypt_seed")
    /\ flags' = flags \cup {"wantClientSeed"}
    /\ UNCHANGED <<writeVars, decrypted, handler, asked>>

\* handle_ydata
Ydata == Handler("gate") /\ Clear /\ "wantClientSeed" \in flags

YdataFails ==
    /\ Ydata
    /\ Refuses
    /\ flags' = flags \ {"wantClientSeed"}
    /\ UNCHANGED <<writeVars, decrypted, handler, asked>>

ServerSeed == [kind |-> "encrypt_s2c", id |-> NoId]

\* The key is in place before the reply is encrypted.
ReplyInClear_bug ==
    /\ wire' = wire \o [i \in 1..Size["encrypt_s2c"] |->
                            [msg |-> ServerSeed, nth |-> i, key |-> SessionKey, ks |-> i]]
    /\ writes' = writes \o <<State(Len(wire), Len(wire'), 0)>>
    /\ key' = SessionKey /\ base' = Len(wire)
    /\ UNCHANGED <<sent, shut>>

\* The reply goes out in the clear, then the key is set.
ReplyInClear == enqueue_write(ServerSeed) /\ set_crypt_key(SessionKey)

\* handle_encryption's flag.
HeaderNext_bug == {"encrypted"}

HeaderNext == {"encrypted", "wantMsgHeader"}

YdataKeyed ==
    /\ Ydata
    /\ ReplyInClear
    /\ flags' = (flags \ {"wantClientSeed"}) \cup HeaderNext
    /\ Registers("msg_std_header")
    /\ UNCHANGED <<decrypted, handler, asked>>

\* gatekeeper_server::read: a header, then its message into the same buffer.
Keyed == Handler("gate") /\ ~Clear

ReadMsg ==
    /\ Keyed /\ "wantMsgHeader" \in flags
    /\ flags' = flags \ {"wantMsgHeader"}
    /\ \E t \in Requests : struct' = t /\ type' = t
    /\ ok' = TRUE
    /\ UNCHANGED <<writeVars, decrypted, handler, asked>>

ReadMsgRefused ==
    /\ Keyed /\ "wantMsgHeader" \in flags
    /\ flags' = flags \ {"wantMsgHeader"}
    /\ Refuses
    /\ UNCHANGED <<writeVars, decrypted, handler, asked>>

\* The reply carries no transaction id of the request.
Reply_bug(t, id) == [kind |-> ReplyTo[t], id |-> CHOOSE i \in Ids : TRUE]

\* A ping is copied; the others take the transaction id over.
Reply(t, id) == [kind |-> ReplyTo[t], id |-> id]

\* dispatch_msg; its default branch is for types read_msg has refused.
DispatchMsg ==
    /\ Keyed /\ "wantMsgHeader" \notin flags
    /\ Len(asked) < MaxRequests
    /\ flags' = flags \cup {"wantMsgHeader"}
    /\ Registers("msg_std_header")
    /\ \E id \in Ids :
          /\ enqueue_write(Reply(type, id))
          /\ asked' = Append(asked, <<type, id>>)
    /\ UNCHANGED <<key, base, decrypted, handler>>

-----------------------------------------------------------------------------
\* pump_read after the handler: shut down, or read on.
PumpReadEnds ==
    /\ at = "handled" /\ ~ok
    /\ shut' = TRUE
    /\ at' = "idle"
    /\ UNCHANGED <<key, base, wire, writes, sent, decrypted, handler, flags, struct, type, input, ok, asked>>

\* "no queued reads. Bug?"
PumpReadUnregistered ==
    /\ at = "handled" /\ ok /\ struct = "none"
    /\ shut' = TRUE
    /\ at' = "idle"
    /\ UNCHANGED <<key, base, wire, writes, sent, decrypted, handler, flags, struct, type, input, ok, asked>>

PumpReadGoesOn ==
    /\ at = "handled" /\ ok /\ struct # "none"
    /\ at' = "read"
    /\ UNCHANGED <<writeVars, decrypted, handler, flags, struct, type, input, ok, asked>>

Events == Dispatch \/ Hup
Pumps == PumpWrite \/ PumpWriteDone \/ ReadPauses \/ PumpReadEnds \/ PumpReadUnregistered \/ PumpReadGoesOn
Handlers ==
    \/ IncomingGate \/ IncomingRefused
    \/ HandshakeRefused \/ HandshakeEmpty \/ HandshakeSeed \/ YdataFails \/ YdataKeyed
    \/ ReadMsg \/ ReadMsgRefused \/ DispatchMsg

Next == Events \/ Pumps \/ Handlers

Spec == Init /\ [][Next]_vars

-----------------------------------------------------------------------------
\* Safety.

\* What is read next is what the flags make the handler take it for: a handler
\* casts the buffer to the struct its flags say (client_common.cpp:208-213,
\* gatekeeper.cpp:182-192), dispatch_msg to the one its type says.
StructMatchesFlags ==
    at = "read" \/ (at \in {"idle", "write"} /\ ~shut) =>
        \/ handler = "incoming" /\ flags = {} /\ struct = "connection_header"
        \/ handler = "gate" /\ flags = {} /\ struct = "encrypt_header"
        \/ handler = "gate" /\ flags = {"wantClientSeed"} /\ struct = "encrypt_seed"
        \/ handler = "gate" /\ flags = {"encrypted", "wantMsgHeader"} /\ struct = "msg_std_header"
        \/ handler = "gate" /\ flags = {"encrypted"} /\ struct \in Requests /\ struct = type

\* The connection passes for encrypted, but has no key.
Pretends == "encrypted" \in flags /\ key = NoKey

\* Nobody is served in the clear, not even where the build allows "decrypted
\* communications" (client_common.cpp:151-156): only the empty handshake of that
\* build is accepted without registering a read, and then pump_read shuts the client
\* down before a request of his is taken or a byte is queued for him.
NoServiceInClear ==
    /\ at = "handled" /\ ok /\ struct = "none" => Pretends
    /\ Pretends =>
          /\ decrypted /\ struct = "none" /\ asked = <<>> /\ wire = <<>>
          /\ at = "handled" \/ (at \in {"idle", "gone"} /\ shut)

SeedSize == Size["encrypt_s2c"]

\* The client can decrypt what it is sent: the server's seed in the clear, and
\* from the byte behind it an unbroken stream under the session key, whatever was
\* still queued when the key was set (client_common.cpp:189-191).
PeerDecrypts ==
    \A i \in DOMAIN wire :
        IF i <= SeedSize THEN wire[i].key = NoKey /\ wire[i].msg = ServerSeed
        ELSE wire[i].key = SessionKey /\ wire[i].ks = i - SeedSize /\ wire[i].msg # ServerSeed

\* The states in q carry on from each other, from byte a to byte b.
Chain(q, a, b) ==
    /\ q = <<>> => a = b
    /\ q # <<>> => q[1].from + q[1].offs = a /\ q[Len(q)].to = b
    /\ \A i \in 2..Len(q) : q[i].from = q[i - 1].to /\ q[i].offs = 0

\* Bytes are sent in the order of their encryption, none twice and none left
\* out: what is queued carries on where the sent bytes end, up to the last byte
\* (enqueue_write and handle_write).
Contiguous ==
    /\ \A i \in DOMAIN sent : sent[i] = i
    /\ Chain(writes, Len(sent), Len(wire))

\* A socket shut down by a failed write is not written to again in that event,
\* which would raise SIGPIPE: the buffer that failed holds up all later ones.
NeverWritesAfterShutdown ==
    shut /\ at \in {"write", "read", "handled"} => at # "write" /\ writes # <<>>

\* The places of the wire at which a reply begins, and at which one ends.
Firsts == {i \in DOMAIN wire : wire[i].msg # ServerSeed /\ wire[i].nth = 1}
Lasts == {i \in DOMAIN wire : wire[i].msg # ServerSeed /\ wire[i].nth = Size[wire[i].msg.kind]}

\* Where the kth reply begins.
Nth(k) == CHOOSE i \in Firsts : Cardinality({j \in Firsts : j <= i}) = k

\* Every reply is of the type its request calls for (gatekeeper.h:30-41 lists the
\* replies in the order of the requests).
ReplyTypes ==
    \A k \in 1..Cardinality(Firsts) :
        wire[Nth(k)].msg.kind = [pingRequest |-> "pingReply", fileSrvRequest |-> "fileSrvReply",
                                 authSrvRequest |-> "authSrvReply"][asked[k][1]]

-----------------------------------------------------------------------------
\* The session seen as a service.

Ended == at = "gone" \/ ~ok \/ (at = "idle" /\ shut)

Phase ==
    IF Ended THEN "ended"
    ELSE IF handler = "incoming" THEN "greeting"
    ELSE IF key # NoKey THEN "serving"
    ELSE IF "wantClientSeed" \in flags THEN "seed" ELSE "handshake"

Service == INSTANCE GateService WITH
    phase <- Phase,
    requests <- [k \in DOMAIN asked |-> asked[k][2]],
    replies <- [k \in 1..Cardinality(Firsts) |-> wire[Nth(k)].msg.id],
    received <- Cardinality({i \in DOMAIN sent : sent[i] \in Lasts})

\* The session goes through the handshake in order, serves only under the session
\* key, and answers every request once, in order, with its transaction id; the
\* client receives the replies whole and in that order.
ImplementsService == Service!Spec
=============================================================================
