------------------------------ MODULE Session -------------------------------
(* A client's connection as a whole: resume_read over the bytes he sends        *)
(* (MessageRead), the handlers that consume the messages and choose the struct  *)
(* the next bytes are read into (GateSession) and the replies they queue        *)
(* (WriteQueue), run by handle_dispatch, pump_read and pump_write.  The client  *)
(* may be slow, hang up, or be lost to a failed write.  X_bug is a mutant of X.  *)
EXTENDS MessageRead, FiniteSets

CONSTANTS Size, NoKey, Ids, NoId, SessionKey, Builds, MaxRequests   \* GateSession's

VARIABLES
    key, base, wire, writes, sent, shut,                            \* WriteQueue's
    decrypted, handler, flags, struct, type, input, ok, asked,      \* GateSession's
    place,      \* GateSession's "at": where handle_dispatch is
    dec,        \* bytes m_decrypt has decrypted
    decBase     \* bytes it had decrypted when its key was set

G == INSTANCE GateSession WITH at <- place

gateVars == <<key, base, wire, writes, sent, shut,
              decrypted, handler, flags, struct, type, input, ok, asked, place>>
cursorVars == <<item, field, offset, buf, bufsz, at>>
readVars == <<streamVars, pos, nread, mempos, cursorVars>>
cryptVars == <<dec, decBase>>
sessionVars == <<readVars, gateVars, cryptVars>>

\* Messages of scripts also have the name of the struct they are, and what they
\* say that a handler looks at.
Names == {s.name : s \in UNION {Range(x) : x \in Scripts}}

\* The outcomes a handler can have: it refuses the message or serves it.
Says(s) ==
    \/ s.name = "connection_header" /\ s.says \in {"gate", "other"}
    \/ s.name = "encrypt_header" /\ s.says \in {"misfit", "empty", "sized"}
    \/ s.name = "encrypt_seed" /\ s.says \in {"weak", "seed"}
    \/ s.name = "msg_std_header" /\ s.says \in G!Requests \cup {"unknown"}
    \/ s.name \in G!Requests /\ s.says \in Ids

\* What a client sends behind s: the greeting, its seed unless it says there is
\* none, and then types, each with its request.
Follows(s, t) ==
    \/ s.name = "connection_header" /\ t.name = "encrypt_header"
    \/ s.name = "encrypt_header" /\ t.name = IF s.says = "empty" THEN "msg_std_header" ELSE "encrypt_seed"
    \/ s.name = "msg_std_header" /\ t.name = s.says
    \/ s.name \in {"encrypt_seed"} \cup G!Requests /\ t.name = "msg_std_header"

\* What GateSession assumes of its constants.
ASSUME GateAssumption == G!WriteQueueAssumption /\ G!GateSessionAssumption

\* A request that is announced is sent; only the requests share a header's buffer.
ASSUME SessionAssumption ==
    /\ Names \subseteq G!Structs
    /\ Ids \cap ({"gate", "other", "misfit", "empty", "sized", "weak", "seed", "unknown"} \cup G!Requests) = {}
    /\ \A x \in Scripts :
          /\ x[1].name = "connection_header"
          /\ \A k \in DOMAIN x :
                /\ Says(x[k])
                /\ x[k].first = IF x[k].name \in G!Requests THEN 1 ELSE 0
                /\ k > 1 => Follows(x[k - 1], x[k])
                /\ x[k].says \in G!Requests => k < Len(x)

SessionInit ==
    /\ Init
    /\ G!Init
    /\ dec = 0 /\ decBase = 0

-----------------------------------------------------------------------------
\* The network delivers more of what the client sends.
NetworkDelivers == Arrive /\ UNCHANGED <<gateVars, cryptVars>>

\* pump_read starts when handle_dispatch gets to it.
StartsReading == at' = IF place' = "read" /\ item <= Len(script) THEN "turn" ELSE at

\* An event reports input if there is some (level of readiness at an edge).
EventComes ==
    /\ G!Dispatch
    /\ place' = "read" => pos < arrived
    /\ place' = "write" => input' = (pos < arrived)
    /\ StartsReading
    /\ UNCHANGED <<streamVars, pos, nread, mempos, item, field, offset, buf, bufsz, cryptVars>>

\* Output: a failed write shuts down, and pump_read still follows.
Writes ==
    /\ G!PumpWrite \/ G!PumpWriteDone
    /\ StartsReading
    /\ UNCHANGED <<streamVars, pos, nread, mempos, item, field, offset, buf, bufsz, cryptVars>>

\* resume_read stops at EAGAIN, or, on a failed read or a message it refuses, shuts down.
ReadStops ==
    /\ place = "read"
    /\ \/ TurnBlocks /\ shut' = shut
       \/ (TurnRefuses \/ TurnFails) /\ shut' = TRUE
       \/ item > Len(script) /\ UNCHANGED readVars
    /\ G!ReadPauses
    /\ UNCHANGED cryptVars

\* EVP_DecryptUpdate goes with every sorted piece.
ReadGoesOn ==
    /\ place = "read"
    /\ TurnReads \/ Sort
    /\ dec' = dec + IF at = "sort" THEN nread - nread' ELSE 0
    /\ UNCHANGED <<gateVars, decBase>>

\* Decrypting behind the buffer ends the daemon.
ReadDies == place = "read" /\ SortDies /\ UNCHANGED <<gateVars, cryptVars>>

-----------------------------------------------------------------------------
\* read(ns) leaves the fields and the buffer reset by handle_read; read(ns, 1,
\* buf) goes on behind the header in its buffer.
Held == IF type' = "none" THEN <<>> ELSE buf

\* The message is read from its first field although the header was read.
FirstField_bug == 0

\* m_field: handle_read's 0, or the field behind the header.
FirstField == IF type' = "none" THEN 0 ELSE 1

\* What the handler makes of the message.
Handles ==
    \/ S.says = "gate" /\ G!IncomingGate
    \/ S.says = "other" /\ G!IncomingRefused
    \/ S.says = "misfit" /\ G!HandshakeRefused
    \/ S.says = "empty" /\ (G!HandshakeEmpty \/ (~decrypted /\ G!HandshakeRefused))
    \/ S.says = "sized" /\ G!HandshakeSeed
    \/ S.says = "weak" /\ G!YdataFails
    \/ S.says = "seed" /\ G!YdataKeyed
    \/ S.says \in G!Requests /\ G!ReadMsg /\ type' = S.says
    \/ S.says = "unknown" /\ G!ReadMsgRefused
    \/ S.says \in Ids /\ G!DispatchMsg /\ Last(asked')[2] = S.says

\* handle_read hands the message over, with m_field, m_offset and m_struct
\* reset; the handler registers the next read or none.
HandOver ==
    /\ at = "deliver" /\ place = "read"
    /\ Handles
    /\ item' = item + 1
    /\ field' = FirstField
    /\ offset' = 0
    /\ buf' = Held
    /\ at' = IF ~ok' \/ struct' = "none" THEN "closed"
             ELSE IF item < Len(script) THEN "turn" ELSE "idle"
    /\ decBase' = IF key' = key THEN decBase ELSE dec
    /\ UNCHANGED <<streamVars, pos, bufsz, nread, mempos, dec>>

\* pump_read after the handler.
PumpGoesOn ==
    /\ G!PumpReadEnds \/ G!PumpReadUnregistered \/ G!PumpReadGoesOn
    /\ UNCHANGED <<readVars, cryptVars>>

\* A hang-up event, which a shut-down socket is sure to get.
HangUp ==
    /\ G!Hup
    /\ at' = IF at = "idle" THEN "lost" ELSE at
    /\ UNCHANGED <<streamVars, pos, nread, mempos, item, field, offset, buf, bufsz, cryptVars>>

Daemon ==
    \/ EventComes \/ Writes \/ ReadStops \/ ReadGoesOn \/ HandOver \/ PumpGoesOn
    \/ (shut /\ HangUp)

SessionNext == NetworkDelivers \/ Daemon \/ HangUp \/ ReadDies

\* The client sends all he has to send and, however slowly, reads what he is sent, as
\* long as he is there.
Drains == Writes /\ sent' # sent

SessionSpec ==
    /\ SessionInit /\ [][SessionNext]_sessionVars
    /\ WF_sessionVars(NetworkDelivers) /\ WF_sessionVars(Daemon) /\ SF_sessionVars(Drains)

-----------------------------------------------------------------------------
\* Each message is read into the struct it is: what the handler registered for
\* the next read (pump_read, client_common.cpp:98-113) is what the client sends
\* next, with the buffer and the field it starts at.  So everything that holds of
\* MessageRead's specification holds of the connection.
ImplementsRead == Spec /\ [](at \in {"turn", "sort", "deliver"} => struct = S.name)

\* The bytes in the clear end where the client's seed does.
ClearEnd ==
    LET seed == {k \in DOMAIN script : script[k].name = "encrypt_seed"}
    IN IF seed = {} THEN End(Last(script)) ELSE End(script[CHOOSE k \in seed : TRUE])

\* Every byte is decrypted once, in order, and with the key it was encrypted
\* with: set_crypt_key finds m_decrypt exactly at the end of the client's seed,
\* and no byte behind it has been through the old key (client_base.cpp:261-298).
DecryptsInStep ==
    /\ dec = pos - nread
    /\ key # NoKey => decBase = ClearEnd
    /\ dec > ClearEnd => key # NoKey

\* A client whose session nothing refuses.
Welcome ==
    \A k \in DOMAIN script :
        Legal(script[k]) /\ script[k].says \in {"gate", "sized", "seed"} \cup G!Requests \cup Ids

\* Such a client is sent every reply to the last byte, unless he is lost, however his
\* requests are cut into segments and however little the socket takes at a time
\* (handle_dispatch, pump_read, pump_write).
AllAnswered ==
    Welcome => <>(\/ at = "lost"
                  \/ /\ Len(asked) = Cardinality({k \in DOMAIN script : script[k].says \in Ids})
                     /\ Len(sent) = Len(wire))
=============================================================================
