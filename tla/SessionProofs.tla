--------------------------- MODULE SessionProofs ----------------------------
(* Theorems about Session: a connection reads as MessageRead does, so all that  *)
(* ReadProofs shows of a stream holds of a session, and it decrypts in step; and *)
(* it runs as GateSession does, so it gives the service GateService promises.   *)
EXTENDS Session, ReadProofs, FiniteSetTheorems

\* The session's own part of the assumptions, about one message of a script.
LEMMA Spoken ==
    ASSUME NEW x \in Scripts, NEW k \in 1..Len(x)
    PROVE  /\ Says(x[k])
           /\ x[k].first = IF x[k].name \in G!Requests THEN 1 ELSE 0
           /\ k > 1 => Follows(x[k - 1], x[k])
           /\ x[k].says \in G!Requests => k < Len(x)
           /\ x[1].name = "connection_header"
BY ScriptTypes, SessionAssumption

\* What a message says tells what it is: the words of different structs differ.
LEMMA Told ==
    ASSUME NEW x \in Scripts, NEW k \in 1..Len(x)
    PROVE  /\ x[k].says \in {"gate", "other"} => x[k].name = "connection_header"
           /\ x[k].says \in {"misfit", "empty", "sized"} => x[k].name = "encrypt_header"
           /\ x[k].says \in {"weak", "seed"} => x[k].name = "encrypt_seed"
           /\ x[k].says \in G!Requests \cup {"unknown"} => x[k].name = "msg_std_header"
           /\ x[k].says \in Ids => x[k].name \in G!Requests
<1> DEFINE s == x[k]
<1>1. Says(s)
      BY Spoken
<1>2. /\ "gate" \notin G!Requests /\ "other" \notin G!Requests /\ "misfit" \notin G!Requests
      /\ "empty" \notin G!Requests /\ "sized" \notin G!Requests /\ "weak" \notin G!Requests
      /\ "seed" \notin G!Requests /\ "unknown" \notin G!Requests
      BY DEF G!Requests, G!ReplyTo
<1>3. Ids \cap ({"gate", "other", "misfit", "empty", "sized", "weak", "seed", "unknown"} \cup G!Requests) = {}
      BY SessionAssumption
<1> HIDE DEF s
<1>4. s.says \in Ids => s.name \in G!Requests
      BY ONLY <1>1, <1>3 DEF Says
<1>5. s.says \in {"gate", "other"} => s.name = "connection_header"
      BY ONLY <1>1, <1>2, <1>3 DEF Says
<1>6. s.says \in {"misfit", "empty", "sized"} => s.name = "encrypt_header"
      BY ONLY <1>1, <1>2, <1>3 DEF Says
<1>7. s.says \in {"weak", "seed"} => s.name = "encrypt_seed"
      BY ONLY <1>1, <1>2, <1>3 DEF Says
<1>8. s.says \in G!Requests \cup {"unknown"} => s.name = "msg_std_header"
      BY ONLY <1>1, <1>2, <1>3 DEF Says
<1> QED BY <1>4, <1>5, <1>6, <1>7, <1>8 DEF s

\* There is one seed, behind the greeting.
LEMMA SeedPlace ==
    ASSUME NEW x \in Scripts, NEW k \in 1..Len(x), x[k].name = "encrypt_seed"
    PROVE  k = 3
<1>1. Len(x) \in Nat
      BY ScriptTypes
<1>2. \A i \in 1..Len(x) : x[i].name = "connection_header" => i = 1
  <2> SUFFICES ASSUME NEW i \in 1..Len(x), x[i].name = "connection_header", i # 1 PROVE FALSE
      OBVIOUS
  <2>1. i - 1 \in 1..Len(x) /\ i > 1
        BY <1>1
  <2>2. Says(x[i - 1]) /\ Follows(x[i - 1], x[i])
        BY <2>1, Spoken
  <2> QED BY <2>2 DEF Says, Follows, G!Requests, G!ReplyTo
<1>3. \A i \in 1..Len(x) : x[i].name = "encrypt_header" => i = 2
  <2> SUFFICES ASSUME NEW i \in 1..Len(x), x[i].name = "encrypt_header" PROVE i = 2
      OBVIOUS
  <2>1. x[1].name = "connection_header"
        BY Spoken
  <2>2. i - 1 \in 1..Len(x) /\ i > 1
        BY <1>1, <2>1
  <2>3. Says(x[i - 1]) /\ Follows(x[i - 1], x[i])
        BY <2>2, Spoken
  <2>4. x[i - 1].name = "connection_header"
        BY <2>3 DEF Says, Follows, G!Requests, G!ReplyTo
  <2> QED BY <1>2, <2>2, <2>4
<1>4. x[1].name = "connection_header"
      BY Spoken
<1>5. k - 1 \in 1..Len(x) /\ k > 1
      BY <1>1, <1>4
<1>6. Says(x[k - 1]) /\ Follows(x[k - 1], x[k])
      BY <1>5, Spoken
<1>7. x[k - 1].name = "encrypt_header"
      BY <1>6 DEF Says, Follows, G!Requests, G!ReplyTo
<1> QED BY <1>3, <1>5, <1>7

\* So the clear ends behind it, or with the script.
LEMMA ClearEndIs ==
    ASSUME script \in Scripts
    PROVE  /\ \A k \in 1..Len(script) : script[k].name = "encrypt_seed" => ClearEnd = End(script[k])
           /\ (\A k \in 1..Len(script) : script[k].name # "encrypt_seed") => ClearEnd = End(script[Len(script)])
<1> DEFINE seed == {k \in DOMAIN script : script[k].name = "encrypt_seed"}
<1>1. DOMAIN script = 1..Len(script) /\ Last(script) = script[Len(script)]
      BY ScriptTypes
<1>2. ASSUME NEW k \in 1..Len(script), script[k].name = "encrypt_seed"
      PROVE  ClearEnd = End(script[k])
  <2>1. k \in seed /\ \A i \in seed : i = k
        BY <1>1, <1>2, SeedPlace
  <2>2. (CHOOSE i \in seed : TRUE) = k
        BY <2>1
  <2> QED BY <2>1, <2>2 DEF ClearEnd
<1>3. (\A k \in 1..Len(script) : script[k].name # "encrypt_seed") => seed = {}
      BY <1>1
<1> QED BY <1>1, <1>2, <1>3 DEF ClearEnd

-----------------------------------------------------------------------------
(* The invariant. *)

\* Where handle_dispatch is tells where resume_read can be; one that is through with
\* the client has shut the socket down, or is about to.
Paced ==
    /\ place = "idle" => at \in {"idle", "closed", "lost"} /\ (at # "idle" => shut = TRUE)
    /\ place = "write" => at = "idle" /\ (input = TRUE => pos < arrived)
    /\ place = "read" => at \in {"turn", "sort", "deliver"} \/ (at = "idle" /\ ~Open) \/ (at = "lost" /\ Open)
    /\ place = "handled" =>
          \/ at \in {"turn", "idle"} /\ ok = TRUE /\ struct # "none" /\ (at = "idle" => ~Open)
          \/ at = "closed" /\ (ok # TRUE \/ struct = "none")

HeaderType(s) == IF s.name \in G!Requests THEN s.name ELSE "none"

\* The struct registered for the next read is the one the client sends next, and the
\* buffer holds a header if that is its message.
Registered == Open /\ at \notin {"closed", "lost"} => struct = S.name /\ type = HeaderType(S)

\* The key is there before the first byte that needs it is read.
KeyedInTime ==
    /\ dec = pos - nread
    /\ key # NoKey => decBase = ClearEnd
    /\ key = NoKey => pos <= ClearEnd
    /\ key = NoKey /\ Open /\ at \notin {"closed", "lost"}
          => \A k \in 1..Len(script) : script[k].name = "encrypt_seed" => item <= k

SessionInv == Aligned /\ Paced /\ Registered /\ KeyedInTime

-----------------------------------------------------------------------------
(* The handlers. *)

\* A handler that goes on has registered the struct that comes next.
GoesOn ==
    /\ ok' = TRUE /\ struct' # "none"
    /\ type' # "none" => item < Len(script)
    /\ item < Len(script) => struct' = script[item + 1].name /\ type' = HeaderType(script[item + 1])

Stops == (ok' = FALSE \/ struct' = "none") /\ type' = "none"

\* What follows the message being handed over.
LEMMA NextItem ==
    ASSUME script \in Scripts, Open
    PROVE  /\ item \in 1..Len(script) /\ S = script[item] /\ Says(S) /\ item \in Nat
           /\ item < Len(script) => Follows(S, script[item + 1])
           /\ S.says \in G!Requests => item < Len(script)
<1>1. item \in 1..Len(script) /\ S = script[item] /\ Len(script) \in Nat
      BY ScriptTypes DEF Open, S
<1>2. ASSUME item < Len(script) PROVE Follows(S, script[item + 1])
  <2>1. item + 1 \in 1..Len(script) /\ item + 1 > 1 /\ (item + 1) - 1 = item
        BY <1>1, <1>2
  <2> QED BY <1>1, <2>1, Spoken
<1> QED BY <1>1, <1>2, Spoken

\* The handler the message goes to registers what Follows says, or stops; it sets the
\* key behind the seed and nowhere else.
LEMMA Outcome ==
    ASSUME script \in Scripts, Open, Handles
    PROVE  /\ place' = "handled"
           /\ GoesOn \/ Stops
           /\ key' = key \/ (key' = SessionKey /\ S.name = "encrypt_seed")
           /\ S.name = "encrypt_seed" => key' = SessionKey \/ ok' = FALSE
<1>1. /\ Says(S)
      /\ item < Len(script) => Follows(S, script[item + 1])
      /\ S.says \in G!Requests => item < Len(script)
      BY NextItem
<1>2. /\ S.says \in {"gate", "other"} => S.name = "connection_header"
      /\ S.says \in {"misfit", "empty", "sized"} => S.name = "encrypt_header"
      /\ S.says \in {"weak", "seed"} => S.name = "encrypt_seed"
      /\ S.says \in G!Requests \cup {"unknown"} => S.name = "msg_std_header"
      /\ S.says \in Ids => S.name \in G!Requests
      BY NextItem, Told
<1>3. CASE \/ S.says = "other" /\ G!IncomingRefused
           \/ S.says \in {"misfit", "empty"} /\ G!HandshakeRefused
           \/ S.says = "weak" /\ G!YdataFails
           \/ S.says = "unknown" /\ G!ReadMsgRefused
  <2>1. place' = "handled" /\ ok' = FALSE /\ type' = "none" /\ key' = key
        BY <1>3 DEF G!IncomingRefused, G!HandshakeRefused, G!YdataFails, G!ReadMsgRefused,
                    G!Handshake, G!Ydata, G!Keyed, G!Handler, G!Refuses, G!writeVars
  <2> QED BY <2>1 DEF Stops
<1>4. CASE S.says = "empty" /\ G!HandshakeEmpty
  <2>1. place' = "handled" /\ struct' = "none" /\ type' = "none" /\ key' = key
        BY <1>4 DEF G!HandshakeEmpty, G!Handshake, G!Handler, G!writeVars
  <2>2. S.name # "encrypt_seed"
        BY <1>2, <1>4
  <2> QED BY <2>1, <2>2 DEF Stops
<1>5. CASE S.says = "gate" /\ G!IncomingGate
  <2>1. place' = "handled" /\ ok' = TRUE /\ struct' = "encrypt_header" /\ type' = "none" /\ key' = key
        BY <1>5 DEF G!IncomingGate, G!Handler, G!Registers, G!writeVars
  <2>2. S.name = "connection_header"
        BY <1>2, <1>5
  <2>3. item < Len(script) => script[item + 1].name = "encrypt_header"
        BY <1>1, <2>2 DEF Follows, G!Requests, G!ReplyTo
  <2> QED BY <2>1, <2>2, <2>3 DEF GoesOn, HeaderType, G!Requests, G!ReplyTo
<1>6. CASE S.says = "sized" /\ G!HandshakeSeed
  <2>1. place' = "handled" /\ ok' = TRUE /\ struct' = "encrypt_seed" /\ type' = "none" /\ key' = key
        BY <1>6 DEF G!HandshakeSeed, G!Handshake, G!Handler, G!Registers, G!writeVars
  <2>2. S.name = "encrypt_header"
        BY <1>2, <1>6
  <2>3. item < Len(script) => script[item + 1].name = "encrypt_seed"
        BY <1>1, <1>6, <2>2 DEF Follows, G!Requests, G!ReplyTo
  <2> QED BY <2>1, <2>2, <2>3 DEF GoesOn, HeaderType, G!Requests, G!ReplyTo
<1>7. CASE S.says = "seed" /\ G!YdataKeyed
  <2>1. place' = "handled" /\ ok' = TRUE /\ struct' = "msg_std_header" /\ type' = "none" /\ key' = SessionKey
        BY <1>7 DEF G!YdataKeyed, G!Ydata, G!Handler, G!Registers, G!ReplyInClear, G!set_crypt_key
  <2>2. S.name = "encrypt_seed"
        BY <1>2, <1>7
  <2>3. item < Len(script) => script[item + 1].name = "msg_std_header"
        BY <1>1, <2>2 DEF Follows, G!Requests, G!ReplyTo
  <2> QED BY <2>1, <2>2, <2>3 DEF GoesOn, HeaderType, G!Requests, G!ReplyTo
<1>8. CASE S.says \in G!Requests /\ G!ReadMsg /\ type' = S.says
  <2>1. place' = "handled" /\ ok' = TRUE /\ struct' = S.says /\ type' = S.says /\ key' = key
        BY <1>8 DEF G!ReadMsg, G!Keyed, G!Handler, G!writeVars
  <2>2. S.name = "msg_std_header"
        BY <1>2, <1>8
  <2>3. item < Len(script) /\ script[item + 1].name = S.says
        BY <1>1, <1>8, <2>2 DEF Follows, G!Requests, G!ReplyTo
  <2>4. S.says # "none"
        BY <1>8 DEF G!Requests, G!ReplyTo
  <2> QED BY <1>8, <2>1, <2>2, <2>3, <2>4 DEF GoesOn, HeaderType
<1>9. CASE S.says \in Ids /\ G!DispatchMsg
  <2>1. place' = "handled" /\ ok' = TRUE /\ struct' = "msg_std_header" /\ type' = "none" /\ key' = key
        BY <1>9 DEF G!DispatchMsg, G!Keyed, G!Handler, G!Registers
  <2>2. S.name \in G!Requests
        BY <1>2, <1>9
  <2>3. item < Len(script) => script[item + 1].name = "msg_std_header"
        BY <1>1, <2>2 DEF Follows, G!Requests, G!ReplyTo
  <2> QED BY <2>1, <2>2, <2>3 DEF GoesOn, HeaderType, G!Requests, G!ReplyTo
<1> QED BY <1>3, <1>4, <1>5, <1>6, <1>7, <1>8, <1>9 DEF Handles

-----------------------------------------------------------------------------
(* Every step of the connection is a step of MessageRead or none. *)

\* What the step does to MessageRead's state.
LEMMA HandOverReads ==
    ASSUME Aligned, HandOver
    PROVE  /\ Open /\ script \in Scripts
           /\ (GoesOn /\ Deliver) \/ (Stops /\ DeliverLast)
<1>1. /\ at = "deliver" /\ Handles /\ item' = item + 1 /\ field' = FirstField /\ offset' = 0
      /\ buf' = Held /\ UNCHANGED <<streamVars, pos, bufsz, nread, mempos>>
      /\ at' = IF ~ok' \/ struct' = "none" THEN "closed"
               ELSE IF item < Len(script) THEN "turn" ELSE "idle"
      BY DEF HandOver
<1>2. script \in Scripts /\ Open
      BY <1>1, ScriptTypes DEF Aligned, TypeInv, TypeOK, Open
<1>3. GoesOn \/ Stops
      BY <1>1, <1>2, Outcome
<1>4. CASE Stops
  <2>1. at' = "closed" /\ field' = 0 /\ buf' = <<>>
        BY <1>1, <1>4 DEF Stops, FirstField, Held
  <2> QED BY <1>1, <1>2, <1>4, <2>1 DEF DeliverLast
<1>5. CASE GoesOn
  <2>1. at' = IF item < Len(script) THEN "turn" ELSE "idle"
        BY <1>1, <1>5 DEF GoesOn
  <2>2. CASE item < Len(script)
    <3>1. item + 1 \in 1..Len(script) /\ script[item + 1].name # "none"
      <4>1. item + 1 \in 1..Len(script)
            BY <1>2, <2>2, NextItem, ScriptTypes
      <4>2. Says(script[item + 1])
            BY <1>2, <4>1, Spoken
      <4> QED BY <4>1, <4>2 DEF Says, G!Requests, G!ReplyTo
    <3>2. script[item + 1].first = IF type' = "none" THEN 0 ELSE 1
          BY <1>2, <1>5, <2>2, <3>1, Spoken DEF GoesOn, HeaderType
    <3>3. field' = script[item + 1].first /\ buf' = Kept
          BY <1>1, <2>2, <3>2 DEF FirstField, Held, Kept
    <3> QED BY <1>1, <1>2, <1>5, <2>1, <2>2, <3>3 DEF Deliver
  <2>3. CASE ~(item < Len(script))
    <3>1. type' = "none"
          BY <1>5, <2>3 DEF GoesOn
    <3>2. field' = 0 /\ buf' = Kept
          BY <1>1, <2>3, <3>1 DEF FirstField, Held, Kept
    <3> QED BY <1>1, <1>2, <1>5, <2>1, <2>3, <3>2 DEF Deliver
  <2> QED BY <2>2, <2>3
<1> QED BY <1>3, <1>4, <1>5

\* pump_read starts on a connection that rests.
LEMMA StartReads ==
    ASSUME TypeInv, at = "idle", StartsReading, place' = "read" => pos < arrived,
           UNCHANGED <<streamVars, pos, nread, mempos, item, field, offset, buf, bufsz>>
    PROVE  Dispatch \/ UNCHANGED vars
<1>1. CASE place' = "read" /\ item <= Len(script)
      BY <1>1 DEF Dispatch, StartsReading
<1>2. CASE ~(place' = "read" /\ item <= Len(script))
      BY <1>2 DEF StartsReading, vars, streamVars
<1> QED BY <1>1, <1>2

\* pump_write leaves the reading alone until it is through.
LEMMA WriteTurn ==
    ASSUME Writes
    PROVE  /\ place = "write" /\ place' \in {"write", "idle", "read"} /\ (place' = "read" => input = TRUE)
           /\ StartsReading
           /\ UNCHANGED <<streamVars, pos, nread, mempos, item, field, offset, buf, bufsz, cryptVars>>
           /\ UNCHANGED <<key, struct, type, input, ok>>
           /\ shut' = shut \/ shut' = TRUE
<1>1. CASE G!PumpWrite
  <2>1. place = "write" /\ place' = (IF Len(writes') < Len(writes) THEN "write" ELSE G!AfterWrite)
        /\ UNCHANGED <<key, struct, type, input, ok>>
        BY <1>1 DEF G!PumpWrite, G!handle_write
  <2>2. shut' = shut \/ shut' = TRUE
        BY <1>1 DEF G!PumpWrite, G!handle_write, G!resume_write
  <2> QED BY <2>1, <2>2 DEF Writes, G!AfterWrite
<1>2. CASE G!PumpWriteDone
      BY <1>2 DEF Writes, G!PumpWriteDone, G!AfterWrite, G!writeVars
<1> QED BY <1>1, <1>2 DEF Writes

LEMMA ReadStep == Aligned /\ Paced /\ [SessionNext]_sessionVars => [Next]_vars
<1> SUFFICES ASSUME Aligned, Paced, [SessionNext]_sessionVars PROVE [Next]_vars
    OBVIOUS
<1>t. TypeInv
      BY DEF Aligned
<1>1. CASE UNCHANGED sessionVars \/ PumpGoesOn
      BY <1>1 DEF sessionVars, readVars, cursorVars, streamVars, vars, PumpGoesOn
<1>2. CASE NetworkDelivers
      BY <1>2 DEF NetworkDelivers, Next
<1>3. CASE EventComes
  <2>1. /\ place = "idle" /\ shut # TRUE /\ StartsReading /\ (place' = "read" => pos < arrived)
        /\ UNCHANGED <<streamVars, pos, nread, mempos, item, field, offset, buf, bufsz>>
        BY <1>3 DEF EventComes, G!Dispatch
  <2>2. at = "idle"
        BY <2>1 DEF Paced
  <2> QED BY <1>t, <2>1, <2>2, StartReads DEF Next, Read
<1>4. CASE Writes
      BY <1>t, <1>4, WriteTurn, StartReads DEF Paced, Next, Read
<1>5. CASE ReadStops
      BY <1>5 DEF ReadStops, Next, Read, readVars, cursorVars, streamVars, vars
<1>6. CASE ReadGoesOn
      BY <1>6 DEF ReadGoesOn, Next, Read
<1>7. CASE HandOver
      BY <1>7, HandOverReads DEF Next, Read
<1>8. CASE HangUp
  <2>1. at' = (IF at = "idle" THEN "lost" ELSE at)
        /\ UNCHANGED <<streamVars, pos, nread, mempos, item, field, offset, buf, bufsz>>
        BY <1>8 DEF HangUp
  <2> QED BY <2>1 DEF Hup, Next, vars, streamVars
<1>9. CASE ReadDies
      BY <1>9 DEF ReadDies, Next
<1> QED BY <1>1, <1>2, <1>3, <1>4, <1>5, <1>6, <1>7, <1>8, <1>9 DEF SessionNext, Daemon

-----------------------------------------------------------------------------
(* The invariant is kept. *)

LEMMA PacedStep ==
    ASSUME Aligned, TypeInv', Paced, [SessionNext]_sessionVars
    PROVE  Paced'
<1>t. /\ TypeInv /\ arrived \in Nat /\ pos \in 0..arrived /\ arrived' \in Nat
      /\ Len(script) \in Nat /\ item \in 1..(Len(script) + 1)
      BY ScriptTypes DEF Aligned, TypeInv, TypeOK
<1>o. Open <=> item <= Len(script)
      BY <1>t DEF Open
<1>1. CASE UNCHANGED sessionVars
      BY <1>1 DEF sessionVars, readVars, cursorVars, streamVars, gateVars, Paced, Open
<1>2. CASE NetworkDelivers
  <2>1. UNCHANGED <<script, item, pos, at, place, shut, input, ok, struct>> /\ arrived' > arrived
        BY <1>2 DEF NetworkDelivers, Arrive, gateVars
  <2>2. pos < arrived => pos' < arrived'
        BY <1>t, <2>1
  <2>3. Open' = Open
        BY <2>1, SameItem
  <2> QED BY <2>1, <2>2, <2>3 DEF Paced
<1>3. CASE EventComes
  <2>1. /\ place = "idle" /\ shut # TRUE /\ place' \in {"write", "read"}
        /\ StartsReading /\ (place' = "write" => input' = (pos < arrived))
        /\ UNCHANGED <<script, arrived, pos, item>>
        BY <1>3 DEF EventComes, G!Dispatch, streamVars
  <2>2. at = "idle" /\ Open' = Open
        BY <2>1, SameItem DEF Paced
  <2>3. place' = "write" /\ input' = TRUE => pos' < arrived'
        BY <2>1
  <2> QED BY <1>o, <2>1, <2>2, <2>3 DEF Paced, StartsReading
<1>4. CASE Writes
  <2>1. /\ place = "write" /\ place' \in {"write", "idle", "read"} /\ (place' = "read" => input = TRUE)
        /\ StartsReading
        /\ UNCHANGED <<script, arrived, pos, item, input>>
        BY <1>4, WriteTurn DEF streamVars
  <2>2. at = "idle" /\ (input = TRUE => pos < arrived) /\ Open' = Open
        BY <2>1, SameItem DEF Paced
  <2> QED BY <1>o, <2>1, <2>2 DEF Paced, StartsReading
<1>5. CASE ReadStops
  <2>1. place' = "idle" /\ item' = item /\ script' = script
        BY <1>5 DEF ReadStops, G!ReadPauses, TurnBlocks, TurnRefuses, TurnFails, readVars, streamVars, cursorVars
  <2>2. at' = "idle" \/ (at' \in {"closed", "lost"} /\ shut' = TRUE)
    <3>1. CASE TurnBlocks
          BY <3>1 DEF TurnBlocks
    <3>2. CASE (TurnRefuses \/ TurnFails) /\ shut' = TRUE
          BY <3>2 DEF TurnRefuses, TurnFails
    <3>3. CASE item > Len(script) /\ UNCHANGED readVars
      <4>1. place = "read" /\ at' = at /\ ~Open
            BY <1>5, <1>t, <1>o, <3>3 DEF ReadStops, readVars, cursorVars
      <4> QED BY <1>t, <1>o, <3>3, <4>1 DEF Paced, TypeInv
    <3> QED BY <1>5, <3>1, <3>2, <3>3 DEF ReadStops
  <2> QED BY <2>1, <2>2 DEF Paced
<1>6. CASE ReadGoesOn
  <2>1. place' = "read" /\ at' \in {"turn", "sort", "deliver"}
        BY <1>6 DEF ReadGoesOn, gateVars, TurnReads, Sort
  <2> QED BY <2>1 DEF Paced
<1>7. CASE HandOver
  <2>1. script \in Scripts /\ Open /\ place' = "handled"
        BY <1>7, HandOverReads, Outcome DEF HandOver
  <2>2. CASE GoesOn /\ Deliver
    <3>1. at' = (IF item < Len(script) THEN "turn" ELSE "idle") /\ item' = item + 1 /\ script' = script
          BY <2>2 DEF Deliver, streamVars
    <3>2. at' = "idle" => ~Open'
          BY <1>t, <3>1 DEF Open
    <3> QED BY <2>1, <2>2, <3>1, <3>2 DEF Paced, GoesOn
  <2>3. CASE Stops /\ DeliverLast
    <3>1. at' = "closed"
          BY <2>3 DEF DeliverLast
    <3> QED BY <2>1, <2>3, <3>1 DEF Paced, Stops
  <2> QED BY <1>7, <2>2, <2>3, HandOverReads
<1>8. CASE PumpGoesOn
  <2>1. UNCHANGED <<script, item, at>> /\ place = "handled"
        BY <1>8 DEF PumpGoesOn, readVars, cursorVars, streamVars, G!PumpReadEnds, G!PumpReadUnregistered, G!PumpReadGoesOn
  <2>2. Open' = Open
        BY <2>1, SameItem
  <2>3. CASE G!PumpReadEnds \/ G!PumpReadUnregistered
    <3>1. place' = "idle" /\ shut' = TRUE /\ (ok # TRUE \/ struct = "none")
          BY <2>3 DEF G!PumpReadEnds, G!PumpReadUnregistered
    <3>2. at = "closed"
          BY <2>1, <3>1 DEF Paced
    <3> QED BY <2>1, <3>1, <3>2 DEF Paced
  <2>4. CASE G!PumpReadGoesOn
    <3>1. place' = "read" /\ ok /\ struct # "none"
          BY <2>4 DEF G!PumpReadGoesOn
    <3>2. at = "turn" \/ (at = "idle" /\ ~Open)
          BY <2>1, <3>1 DEF Paced
    <3> QED BY <2>1, <2>2, <3>1, <3>2 DEF Paced
  <2> QED BY <1>8, <2>3, <2>4 DEF PumpGoesOn
<1>9. CASE HangUp
  <2>1. place' = "gone"
        BY <1>9 DEF HangUp, G!Hup
  <2> QED BY <2>1 DEF Paced
<1>10. CASE ReadDies
  <2>1. UNCHANGED <<script, item>> /\ at = "sort" /\ at' = "lost" /\ place = "read" /\ place' = "read"
        BY <1>10 DEF ReadDies, SortDies, streamVars, gateVars
  <2>2. Open /\ Open' = Open
        BY <1>t, <1>o, <2>1, SameItem DEF TypeInv, TypeOK
  <2> QED BY <2>1, <2>2 DEF Paced
<1> QED BY <1>1, <1>2, <1>3, <1>4, <1>5, <1>6, <1>7, <1>8, <1>9, <1>10 DEF SessionNext, Daemon

\* Which struct is read only changes when a message is handed over, and a connection
\* that is through stays so.
LEMMA NoHandOver ==
    ASSUME Paced, [SessionNext]_sessionVars, ~HandOver
    PROVE  /\ UNCHANGED <<script, item, struct, type, key, decBase>>
           /\ at \in {"closed", "lost"} => at' = at
<1>1. CASE UNCHANGED sessionVars
      BY <1>1 DEF sessionVars, readVars, cursorVars, streamVars, gateVars, cryptVars
<1>2. CASE NetworkDelivers
      BY <1>2 DEF NetworkDelivers, Arrive, gateVars, cryptVars
<1>3. CASE EventComes
  <2>1. place = "idle" /\ shut # TRUE /\ UNCHANGED <<script, item, struct, type, key, decBase>>
        BY <1>3 DEF EventComes, G!Dispatch, G!writeVars, streamVars, cryptVars
  <2> QED BY <2>1 DEF Paced
<1>4. CASE Writes
      BY <1>4, WriteTurn DEF streamVars, cryptVars, Paced
<1>5. CASE ReadStops
      BY <1>5 DEF ReadStops, G!ReadPauses, TurnBlocks, TurnRefuses, TurnFails, readVars, streamVars, cursorVars, cryptVars
<1>6. CASE ReadGoesOn
      BY <1>6 DEF ReadGoesOn, gateVars, TurnReads, Sort, streamVars
<1>8. CASE PumpGoesOn
      BY <1>8 DEF PumpGoesOn, readVars, cursorVars, streamVars, cryptVars, G!PumpReadEnds, G!PumpReadUnregistered,
                  G!PumpReadGoesOn, G!writeVars
<1>9. CASE HangUp
      BY <1>9 DEF HangUp, G!Hup, G!writeVars, streamVars, cryptVars
<1>10. CASE ReadDies
      BY <1>10 DEF ReadDies, SortDies, gateVars, streamVars, cryptVars
<1> QED BY <1>1, <1>2, <1>3, <1>4, <1>5, <1>6, <1>8, <1>9, <1>10 DEF SessionNext, Daemon

LEMMA RegisteredStep ==
    ASSUME Aligned, Paced, Registered, [SessionNext]_sessionVars
    PROVE  Registered'
<1>1. CASE HandOver
  <2>1. script \in Scripts /\ Open
        BY <1>1, HandOverReads
  <2>2. CASE GoesOn /\ Deliver
    <3>1. item' = item + 1 /\ script' = script
          BY <2>2 DEF Deliver, streamVars
    <3>2. Open' => item < Len(script) /\ S' = script[item + 1]
          BY <2>1, <3>1, ScriptTypes DEF Open, S
    <3> QED BY <2>2, <3>2 DEF GoesOn, Registered
  <2>3. CASE Stops /\ DeliverLast
        BY <2>3 DEF DeliverLast, Registered
  <2> QED BY <1>1, <2>2, <2>3, HandOverReads
<1>2. CASE ~HandOver
  <2>1. UNCHANGED <<script, item, struct, type>> /\ (at \in {"closed", "lost"} => at' = at)
        BY <1>2, NoHandOver
  <2>2. S' = S /\ Open' = Open
        BY <2>1, SameItem
  <2> QED BY <2>1, <2>2 DEF Registered
<1> QED BY <1>1, <1>2

\* While no key is set, the item is in front of where the clear ends.
LEMMA InTheClear ==
    ASSUME script \in Scripts, Open,
           \A k \in 1..Len(script) : script[k].name = "encrypt_seed" => item <= k
    PROVE  End(S) <= ClearEnd
<1>1. Len(script) \in Nat /\ item \in 1..Len(script) /\ S = script[item] /\ DOMAIN script = 1..Len(script)
      BY ScriptTypes DEF Open, S
<1>2. ASSUME NEW k \in 1..Len(script), item <= k PROVE End(S) <= End(script[k])
  <2>1. End(script[k]) \in Nat /\ script[k].start <= End(script[k]) /\ script[k].start \in Nat /\ End(S) \in Nat
        BY <1>1, MessageEnd, MessageTypes
  <2>2. CASE item = k
        BY <1>1, <2>1, <2>2
  <2>3. CASE item # k
    <3>1. k \in (item + 1)..Len(script)
          BY <1>1, <1>2, <2>3
    <3>2. End(S) <= script[k].start
          BY <1>1, <3>1, Apart
    <3> QED BY <2>1, <3>2
  <2> QED BY <2>2, <2>3
<1>3. CASE \E k \in 1..Len(script) : script[k].name = "encrypt_seed"
      BY <1>2, <1>3, ClearEndIs
<1>4. CASE \A k \in 1..Len(script) : script[k].name # "encrypt_seed"
      BY <1>1, <1>2, <1>4, ClearEndIs
<1> QED BY <1>3, <1>4

\* Only a turn of resume_read takes bytes, and only sorting decrypts them.
LEMMA DecryptsStep ==
    ASSUME Aligned, Aligned', dec = pos - nread, [SessionNext]_sessionVars
    PROVE  /\ dec' = pos' - nread'
           /\ pos' = pos \/ (TurnReads /\ place = "read")
<1>t. pos \in Int /\ pos' \in Int /\ nread \in Int /\ nread' \in Int
      BY DEF Aligned, TypeInv, TypeOK
<1>1. CASE ReadGoesOn
  <2>1. /\ dec' = dec + (IF at = "sort" THEN nread - nread' ELSE 0)
        /\ TurnReads \/ Sort
        /\ place = "read"
        BY <1>1 DEF ReadGoesOn
  <2>2. CASE TurnReads
    <3>1. at = "turn" /\ pos' = pos + nread'
          BY <2>2 DEF TurnReads
    <3>2. Open
          BY <3>1, ScriptTypes DEF Aligned, TypeInv, TypeOK, Open
    <3>3. nread = 0
          BY <3>1, <3>2 DEF Aligned, Resting
    <3>4. dec = pos /\ dec' = pos
          BY <1>t, <2>1, <3>1, <3>3
    <3>5. pos' - nread' = pos
      <4>1. \A a, b, c \in Int : a = b + c => a - c = b
            OBVIOUS
      <4> QED BY ONLY <1>t, <3>1, <4>1
    <3>6. dec' = pos' - nread'
          BY <3>4, <3>5
    <3> QED BY <2>1, <2>2, <3>6
  <2>3. CASE Sort
    <3>1. at = "sort" /\ pos' = pos
          BY <2>3 DEF Sort
    <3> QED BY <1>t, <2>1, <3>1
  <2> QED BY <2>1, <2>2, <2>3
<1>2. CASE ~ReadGoesOn
  <2>1. UNCHANGED <<dec, pos, nread>>
        BY <1>2, WriteTurn DEF SessionNext, Daemon, NetworkDelivers, Arrive, EventComes, ReadStops, HandOver,
           PumpGoesOn, HangUp, ReadDies, SortDies, TurnBlocks, TurnRefuses, TurnFails, cryptVars, readVars, sessionVars
  <2> QED BY <2>1
<1> QED BY <1>1, <1>2

LEMMA KeyStep ==
    ASSUME SessionInv, Aligned', [SessionNext]_sessionVars
    PROVE  KeyedInTime'
<1>t. /\ script \in Scripts /\ pos \in Int /\ nread \in Int /\ Len(script) \in Nat /\ item \in Nat
      /\ pos' \in Int
  <2>1. script \in Scripts /\ pos \in Int /\ nread \in Int
        BY DEF SessionInv, Aligned, TypeInv, TypeOK
  <2>2. pos' \in Int
        BY DEF Aligned, TypeInv, TypeOK
  <2>3. Len(script) \in Nat /\ item \in Nat
        BY <2>1, ScriptTypes DEF SessionInv, Aligned, TypeInv, TypeOK
  <2> QED BY <2>1, <2>2, <2>3
<1>1. dec' = pos' - nread' /\ (pos' = pos \/ (TurnReads /\ place = "read"))
      BY DecryptsStep DEF SessionInv, KeyedInTime
<1>2. CASE HandOver
  <2>1. /\ at = "deliver" /\ Handles /\ pos' = pos /\ script' = script /\ item' = item + 1
        /\ decBase' = IF key' = key THEN decBase ELSE dec
        BY <1>2 DEF HandOver, streamVars
  <2>2. Open /\ ((GoesOn /\ Deliver) \/ (Stops /\ DeliverLast)) /\ item \in 1..Len(script) /\ S = script[item]
        BY <1>2, HandOverReads DEF SessionInv, Open, S
  <2>3. ClearEnd' = ClearEnd
        BY <2>1 DEF ClearEnd
  <2>4. /\ key' = key \/ (key' = SessionKey /\ S.name = "encrypt_seed")
        /\ S.name = "encrypt_seed" => key' = SessionKey \/ ok' = FALSE
        BY <1>t, <2>1, <2>2, Outcome
  <2>5. dec = End(S)
    <3>1. Finished
          BY <2>1, <2>2 DEF SessionInv, Aligned
    <3>2. End(S) \in Nat
          BY <1>t, <2>2, MessageEnd, ScriptTypes
    <3> QED BY <3>1, <3>2 DEF SessionInv, KeyedInTime, Finished
  <2>6. key' # NoKey => decBase' = ClearEnd'
    <3>1. CASE key' = key
          BY <2>1, <2>3, <3>1 DEF SessionInv, KeyedInTime
    <3>2. CASE key' # key
          BY <1>t, <2>1, <2>2, <2>3, <2>4, <2>5, <3>2, ClearEndIs
    <3> QED BY <3>1, <3>2
  <2>7. key' = NoKey => key = NoKey /\ (S.name = "encrypt_seed" => ok' = FALSE)
        BY <2>4, GateAssumption DEF G!GateSessionAssumption
  <2>8. key' = NoKey => pos' <= ClearEnd'
        BY <2>1, <2>3, <2>7 DEF SessionInv, KeyedInTime
  <2>9. ASSUME key' = NoKey, at' \notin {"closed", "lost"}, NEW k \in 1..Len(script), script[k].name = "encrypt_seed"
        PROVE  item' <= k
    <3>1. GoesOn
          BY <2>2, <2>9 DEF DeliverLast
    <3>2. S.name # "encrypt_seed"
          BY <2>7, <2>9, <3>1 DEF GoesOn
    <3>3. item <= k
          BY <2>1, <2>2, <2>7, <2>9 DEF SessionInv, KeyedInTime
    <3>4. item # k
          BY <2>2, <2>9, <3>2
    <3> QED BY <1>t, <2>1, <3>3, <3>4
  <2> QED BY <1>1, <2>1, <2>6, <2>8, <2>9 DEF KeyedInTime
<1>3. CASE ~HandOver
  <2>1. UNCHANGED <<script, item, key, decBase>> /\ (at \in {"closed", "lost"} => at' = at)
        BY <1>3, NoHandOver DEF SessionInv
  <2>2. ClearEnd' = ClearEnd /\ Open' = Open /\ S' = S
        BY <2>1, SameItem DEF ClearEnd
  <2>3. key' = NoKey => pos' <= ClearEnd'
    <3>1. CASE pos' = pos
          BY <2>1, <2>2, <3>1 DEF SessionInv, KeyedInTime
    <3>2. CASE TurnReads /\ place = "read"
      <4>1. at = "turn" /\ Open
            BY <3>2, <1>t, ScriptTypes DEF TurnReads, SessionInv, Aligned, TypeInv, TypeOK, Open
      <4>2. pos' <= End(S)
            BY <2>2, <4>1 DEF Aligned
      <4>3. key' = NoKey => End(S) <= ClearEnd
            BY <1>t, <2>1, <4>1, InTheClear DEF SessionInv, KeyedInTime
      <4>4. End(S) \in Int /\ ClearEnd \in Int
        <5>1. \A k \in 1..Len(script) : End(script[k]) \in Int
              BY <1>t, ScriptTypes, MessageEnd
        <5>2. item \in 1..Len(script) /\ S = script[item] /\ Len(script) \in 1..Len(script)
              BY <1>t, <4>1, ScriptTypes DEF Open, S
        <5> QED BY <1>t, <5>1, <5>2, ClearEndIs
      <4> QED BY <1>t, <2>2, <4>2, <4>3, <4>4
    <3> QED BY <1>1, <3>1, <3>2
  <2> QED BY <1>1, <2>1, <2>2, <2>3 DEF SessionInv, KeyedInTime
<1> QED BY <1>2, <1>3

LEMMA SessionStart == SplitInsideField = FALSE /\ SessionInit => SessionInv
<1> SUFFICES ASSUME SplitInsideField = FALSE, SessionInit PROVE SessionInv
    OBVIOUS
<1>1. Init /\ G!Init /\ dec = 0 /\ decBase = 0
      BY DEF SessionInit
<1>2. Aligned
      BY <1>1, AlignedInit
<1>3. /\ script \in Scripts /\ item = 1 /\ pos = 0 /\ nread = 0 /\ at = "idle" /\ place = "idle"
      /\ key = NoKey /\ struct = "connection_header" /\ type = "none"
      BY <1>1 DEF Init, G!Init, G!WriteInit
<1>4. Paced
      BY <1>3 DEF Paced
<1>5. Open /\ S = script[1] /\ Len(script) \in Nat \ {0}
      BY <1>3, ScriptTypes DEF Open, S
<1>6. Registered
  <2>1. S.name = "connection_header"
        BY <1>3, <1>5, Spoken
  <2> QED BY <1>3, <2>1 DEF Registered, HeaderType, G!Requests, G!ReplyTo
<1>7. \A k \in 1..Len(script) : item <= k
      BY <1>3, <1>5
<1>8. pos <= ClearEnd
  <2>1. End(S) <= ClearEnd /\ pos <= End(S) /\ End(S) \in Nat
        BY <1>2, <1>3, <1>5, <1>7, InTheClear, MessageEnd, ScriptTypes DEF Aligned
  <2>2. \A k \in 1..Len(script) : End(script[k]) \in Nat
        BY <1>3, ScriptTypes, MessageEnd
  <2>3. ClearEnd \in Nat
        BY <1>3, <1>5, <2>2, ClearEndIs
  <2> QED BY <1>3, <2>3
<1>9. KeyedInTime
      BY <1>1, <1>3, <1>7, <1>8 DEF KeyedInTime
<1> QED BY <1>2, <1>4, <1>6, <1>9 DEF SessionInv

LEMMA SessionStep == SplitInsideField = FALSE /\ SessionInv /\ [SessionNext]_sessionVars => SessionInv'
<1> SUFFICES ASSUME SplitInsideField = FALSE, SessionInv, [SessionNext]_sessionVars PROVE SessionInv'
    OBVIOUS
<1>1. [Next]_vars
      BY ReadStep DEF SessionInv
<1>2. Aligned' /\ TypeInv'
      BY <1>1, AlignedStep DEF SessionInv, Aligned
<1>3. Paced'
      BY <1>2, PacedStep DEF SessionInv
<1>4. Registered'
      BY RegisteredStep DEF SessionInv
<1>5. KeyedInTime'
      BY <1>2, KeyStep
<1> QED BY <1>2, <1>3, <1>4, <1>5 DEF SessionInv

LEMMA AlwaysSession == ASSUME SplitInsideField = FALSE PROVE SessionSpec => []SessionInv
<1>1. SessionInit => SessionInv
      BY SessionStart
<1>2. SessionInv /\ [SessionNext]_sessionVars => SessionInv'
      BY SessionStep
<1> QED BY <1>1, <1>2, PTL DEF SessionSpec

-----------------------------------------------------------------------------
(* The theorems.  Segments end where fields do in all of them: the run          *)
(* message_split shows what happens when one does not.                          *)

\* The session steers resume_read as MessageRead has it: the handlers register the
\* struct that comes next, with the header's buffer where it goes on from one, and
\* pump_read reads only when something has arrived (the safety part of ImplementsRead;
\* pump_read, read_msg).
THEOREM SessionReads ==
    ASSUME SplitInsideField = FALSE
    PROVE  SessionSpec => Init /\ [][Next]_vars /\ [](at \in {"turn", "sort", "deliver"} => struct = S.name)
<1>1. SessionInit => Init
      BY DEF SessionInit
<1>2. SessionInv /\ [SessionNext]_sessionVars => [Next]_vars
      BY ReadStep DEF SessionInv
<1>3. SessionInv => (at \in {"turn", "sort", "deliver"} => struct = S.name)
  <2> SUFFICES ASSUME SessionInv, at \in {"turn", "sort", "deliver"} PROVE struct = S.name
      OBVIOUS
  <2>1. Open
        BY ScriptTypes DEF SessionInv, Aligned, TypeInv, TypeOK, Open
  <2> QED BY <2>1 DEF SessionInv, Registered
<1> QED BY <1>1, <1>2, <1>3, AlwaysSession, PTL DEF SessionSpec

\* Every byte is decrypted once, in order, under the key it was encrypted with:
\* set_crypt_key finds m_decrypt at the end of the client's seed, and no byte behind
\* it was read before (resume_read, handle_ydata).
THEOREM DecryptedInStep == ASSUME SplitInsideField = FALSE PROVE SessionSpec => []DecryptsInStep
<1>1. SessionInv => DecryptsInStep
  <2> SUFFICES ASSUME SessionInv PROVE DecryptsInStep
      OBVIOUS
  <2>1. script \in Scripts /\ pos \in Nat /\ nread \in Nat /\ Len(script) \in 1..Len(script)
        BY ScriptTypes DEF SessionInv, Aligned, TypeInv, TypeOK
  <2>2. \A k \in 1..Len(script) : End(script[k]) \in Nat
        BY <2>1, ScriptTypes, MessageEnd
  <2>3. ClearEnd \in Nat
        BY <2>1, <2>2, ClearEndIs
  <2>4. dec = pos - nread /\ (key # NoKey => decBase = ClearEnd) /\ (key = NoKey => pos <= ClearEnd)
        BY DEF SessionInv, KeyedInTime
  <2>5. dec > ClearEnd => key # NoKey
        BY <2>1, <2>3, <2>4
  <2> QED BY <2>4, <2>5 DEF DecryptsInStep
<1> QED BY <1>1, AlwaysSession, PTL

\* What ReadProofs shows of a stream holds of a session, whatever its handlers do
\* between the messages (handle_read, pump_read): with no field cut in two, they get
\* the fixed fields of every message, and of its payload what the memory allocated for
\* the message has room for, at its place; nothing is said of a payload that goes
\* beyond that (message_memory).
THEOREM SessionIntact ==
    ASSUME SplitInsideField = FALSE
    PROVE  SessionSpec => [](TypeOK /\ DeliveredIntact /\ CopyFits /\ CursorMatchesStream /\ ReadsOnlyCurrent /\ AsksUnlessCut)
<1>1. SessionInv => TypeOK /\ DeliveredIntact /\ CopyFits /\ CursorMatchesStream /\ ReadsOnlyCurrent /\ AsksUnlessCut
      BY ReadsRight DEF SessionInv, Aligned, TypeInv
<1> QED BY <1>1, AlwaysSession, PTL

\* And they are given the messages once each, in order, only an illegal one being
\* refused unread (the safety part of ImplementsStream; client::pump_read).
THEOREM SessionStream ==
    ASSUME SplitInsideField = FALSE
    PROVE  SessionSpec => Stream!Init /\ [][Stream!Next]_(Stream!streamVars)
<1>1. SessionInit => Stream!Init
      BY DEF SessionInit, Init, Stream!Init
<1>2. SessionInv /\ [SessionNext]_sessionVars => [Stream!Next]_(Stream!streamVars)
      BY ReadStep, StreamStep DEF SessionInv
<1> QED BY <1>1, <1>2, AlwaysSession, PTL DEF SessionSpec

-----------------------------------------------------------------------------
(* What the handlers are asked is what the client sent. *)

\* The requests among the first n messages of the script.
Sought(n) == {k \in 1..n : script[k].says \in Ids}

\* dispatch_msg has been given the requests the client sent, none left out and none
\* twice, in their order, each under its own type and with its own transaction id: the
\* kth request of the script is the kth one asked.
AskedAreSent ==
    /\ Len(asked) = Cardinality(Sought(item - 1))
    /\ \A k \in Sought(item - 1) : asked[Cardinality(Sought(k))] = <<script[k].name, script[k].says>>

AskedInv == SessionInv /\ asked \in Seq(G!Requests \X Ids) /\ AskedAreSent

\* How the requests are counted, one message further.
LEMMA SoughtNext ==
    ASSUME NEW n \in Nat, n > 0
    PROVE  /\ Cardinality(Sought(n - 1)) \in Nat
           /\ script[n].says \in Ids => /\ Sought(n) = Sought(n - 1) \cup {n}
                                        /\ Cardinality(Sought(n)) = Cardinality(Sought(n - 1)) + 1
           /\ script[n].says \notin Ids => Sought(n) = Sought(n - 1)
<1>1. n - 1 \in Nat /\ n \in 1..n /\ n \notin 1..(n - 1) /\ 1..n = 1..(n - 1) \cup {n}
      OBVIOUS
<1>2. IsFiniteSet(1..(n - 1))
      BY <1>1, FS_Interval
<1>3. Sought(n - 1) \subseteq 1..(n - 1) /\ n \notin Sought(n - 1)
      BY <1>1, Zenon DEF Sought
<1>4. IsFiniteSet(Sought(n - 1))
      BY <1>2, <1>3, FS_Subset, Zenon
<1>5. Cardinality(Sought(n - 1)) \in Nat
      BY <1>4, FS_CardinalityType, Zenon
<1>6. script[n].says \in Ids => Sought(n) = Sought(n - 1) \cup {n}
      BY <1>1, Zenon DEF Sought
<1>7. script[n].says \notin Ids => Sought(n) = Sought(n - 1)
      BY <1>1, Zenon DEF Sought
<1>8. Cardinality(Sought(n - 1) \cup {n}) = Cardinality(Sought(n - 1)) + 1
      BY <1>3, <1>4, FS_AddElement, Zenon
<1> QED BY <1>5, <1>6, <1>7, <1>8, Zenon

\* A place among the requests is one in what was asked.
LEMMA Rank ==
    ASSUME NEW n \in Nat, NEW k \in Sought(n)
    PROVE  Cardinality(Sought(k)) \in 1..Cardinality(Sought(n))
<1>1. k \in 1..n
      BY DEF Sought
<1>2. k \in Nat /\ k \in 1..k
      BY <1>1
<1>3. IsFiniteSet(1..n)
      BY FS_Interval
<1>4. Sought(n) \subseteq 1..n /\ Sought(k) \subseteq Sought(n)
  <2>1. 1..k \subseteq 1..n
        BY <1>1
  <2> QED BY <2>1, Zenon DEF Sought
<1>5. IsFiniteSet(Sought(n)) /\ IsFiniteSet(Sought(k))
      BY <1>3, <1>4, FS_Subset, Zenon
<1>6. k \in Sought(k)
      BY <1>2, Zenon DEF Sought
<1>7. Cardinality(Sought(k)) # 0
      BY <1>5, <1>6, FS_EmptySet, Zenon
<1>8. Cardinality(Sought(k)) \in Nat /\ Cardinality(Sought(n)) \in Nat
      BY <1>5, FS_CardinalityType, Zenon
<1>9. Cardinality(Sought(k)) <= Cardinality(Sought(n))
      BY <1>4, <1>5, FS_Subset, Zenon
<1> QED BY ONLY <1>7, <1>8, <1>9

\* dispatch_msg alone takes a request, and it takes the one just read.
LEMMA AskedNext ==
    ASSUME SessionInv, Open, script \in Scripts, HandOver, asked \in Seq(G!Requests \X Ids)
    PROVE  /\ S.says \in Ids => asked' = Append(asked, <<S.name, S.says>>) /\ S.name \in G!Requests
           /\ S.says \notin Ids => asked' = asked
<1>1. Handles /\ at = "deliver"
      BY DEF HandOver
<1>2. ASSUME S.says \in Ids
      PROVE  asked' = Append(asked, <<S.name, S.says>>) /\ S.name \in G!Requests
  <2>1. G!DispatchMsg /\ Last(asked')[2] = S.says
    <3>1. Ids \cap ({"gate", "other", "misfit", "empty", "sized", "weak", "seed", "unknown"} \cup G!Requests) = {}
          BY SessionAssumption
    <3> QED BY ONLY <1>1, <1>2, <3>1, Zenon DEF Handles
  <2>2. S.name \in G!Requests
        BY <1>2, NextItem, Told
  <2>3. type = S.name
        BY <1>1, <2>2 DEF SessionInv, Registered, HeaderType
  <2>4. PICK id \in Ids : asked' = Append(asked, <<type, id>>)
        BY <2>1, Zenon DEF G!DispatchMsg
  <2>5. Last(asked') = <<type, id>>
        BY ONLY asked \in Seq(G!Requests \X Ids), <2>4 DEF Last
  <2> QED BY <2>1, <2>2, <2>3, <2>4, <2>5
<1>3. ASSUME S.says \notin Ids PROVE asked' = asked
      BY <1>1, <1>3, Zenon
         DEF Handles, G!IncomingGate, G!IncomingRefused, G!HandshakeRefused, G!HandshakeEmpty, G!HandshakeSeed,
             G!YdataFails, G!YdataKeyed, G!ReadMsg, G!ReadMsgRefused
<1> QED BY <1>2, <1>3

\* What was asked stays as it is between two messages.
LEMMA AskedKept ==
    ASSUME SessionInv, [SessionNext]_sessionVars, ~HandOver
    PROVE  asked' = asked
<1>1. CASE UNCHANGED sessionVars \/ NetworkDelivers \/ ReadGoesOn \/ ReadDies
      BY <1>1 DEF sessionVars, gateVars, NetworkDelivers, ReadGoesOn, ReadDies
<1>2. CASE EventComes \/ HangUp
      BY <1>2 DEF EventComes, HangUp, G!Dispatch, G!Hup
<1>3. CASE Writes
      BY <1>3 DEF Writes, G!PumpWrite, G!PumpWriteDone
<1>4. CASE ReadStops \/ PumpGoesOn
      BY <1>4 DEF ReadStops, PumpGoesOn, G!ReadPauses, G!PumpReadEnds, G!PumpReadUnregistered, G!PumpReadGoesOn
<1> QED BY <1>1, <1>2, <1>3, <1>4 DEF SessionNext, Daemon

LEMMA AskedStart == SessionInit => asked \in Seq(G!Requests \X Ids) /\ AskedAreSent
<1> SUFFICES ASSUME SessionInit PROVE asked \in Seq(G!Requests \X Ids) /\ AskedAreSent
    OBVIOUS
<1>1. asked = <<>> /\ item = 1
      BY DEF SessionInit, Init, G!Init
<1>2. Sought(item - 1) = {}
  <2>1. 1..(item - 1) = {}
        BY <1>1
  <2> QED BY <2>1, Zenon DEF Sought
<1>3. Cardinality(Sought(item - 1)) = 0
      BY <1>2, FS_EmptySet, Zenon
<1> QED BY <1>1, <1>2, <1>3 DEF AskedAreSent

LEMMA AskedStep ==
    ASSUME SessionInv, asked \in Seq(G!Requests \X Ids), AskedAreSent, [SessionNext]_sessionVars
    PROVE  asked' \in Seq(G!Requests \X Ids) /\ AskedAreSent'
<1>1. CASE ~HandOver
  <2>1. asked' = asked /\ script' = script /\ item' = item
        BY <1>1, AskedKept, NoHandOver DEF SessionInv
  <2>2. \A n : Sought(n)' = Sought(n)
        BY <2>1, Zenon DEF Sought
  <2> QED BY <2>1, <2>2, Zenon DEF AskedAreSent
<1>2. CASE HandOver
  <2>1. script \in Scripts /\ Open
        BY <1>2, HandOverReads DEF SessionInv
  <2>2. item \in Nat /\ item > 0 /\ S = script[item]
    <3>1. item \in 1..Len(script) /\ S = script[item]
          BY <2>1, NextItem
    <3> QED BY <3>1
  <2>3. script' = script /\ item' = item + 1
        BY <1>2 DEF HandOver, streamVars
  <2>4. PICK was, now : was = Sought(item - 1) /\ now = Sought(item)
        OBVIOUS
  <2>5. item' - 1 = item
        BY <2>2, <2>3
  <2>6. \A n : {k \in 1..n : script'[k].says \in Ids} = Sought(n)
        BY <2>3, Zenon DEF Sought
  <2>7. AskedAreSent' <=> /\ Len(asked') = Cardinality(now)
                          /\ \A k \in now : asked'[Cardinality(Sought(k))] = <<script[k].name, script[k].says>>
        BY <2>3, <2>4, <2>5, <2>6, Zenon DEF AskedAreSent, Sought
  <2>8. /\ Len(asked) = Cardinality(was)
        /\ \A k \in was : asked[Cardinality(Sought(k))] = <<script[k].name, script[k].says>>
        BY <2>4, Zenon DEF AskedAreSent
  <2>9. CASE S.says \notin Ids
    <3>1. asked' = asked /\ now = was
          BY <1>2, <2>1, <2>2, <2>4, <2>9, AskedNext, SoughtNext, Zenon
    <3> QED BY <2>7, <2>8, <3>1, Zenon
  <2>10. CASE S.says \in Ids
    <3>1. PICK e, a, b, m : e = <<S.name, S.says>> /\ a = asked /\ b = asked' /\ m = Cardinality(was)
          OBVIOUS
    <3>2. b = Append(a, e) /\ e \in G!Requests \X Ids /\ a \in Seq(G!Requests \X Ids)
          BY <1>2, <2>1, <2>10, <3>1, AskedNext
    <3>3. now = was \cup {item} /\ Cardinality(now) = m + 1 /\ m \in Nat
          BY <2>2, <2>4, <2>10, <3>1, SoughtNext, Zenon
    <3>4. Len(a) = m
          BY <2>8, <3>1, Zenon
    <3>5. /\ b \in Seq(G!Requests \X Ids) /\ Len(b) = m + 1 /\ b[m + 1] = e
          /\ \A i \in 1..m : b[i] = a[i]
          BY ONLY <3>2, <3>3, <3>4
    <3>6. \A k \in was : Cardinality(Sought(k)) \in 1..m
      <4>1. item - 1 \in Nat
            BY <2>2
      <4> QED BY <2>4, <3>1, <4>1, Rank, Zenon
    <3>7. \A k \in was : b[Cardinality(Sought(k))] = <<script[k].name, script[k].says>>
          BY <2>8, <3>1, <3>5, <3>6, Zenon
    <3>8. b[Cardinality(Sought(item))] = <<script[item].name, script[item].says>>
          BY <2>2, <2>4, <3>1, <3>3, <3>5, Zenon
    <3> QED BY <2>7, <3>1, <3>3, <3>5, <3>7, <3>8, Zenon
  <2> QED BY <2>9, <2>10
<1> QED BY <1>1, <1>2

LEMMA AlwaysAsked == ASSUME SplitInsideField = FALSE PROVE SessionSpec => []AskedInv
<1>1. SessionInit => AskedInv
      BY SessionStart, AskedStart DEF AskedInv
<1>2. AskedInv /\ [SessionNext]_sessionVars => AskedInv'
      BY SessionStep, AskedStep DEF AskedInv
<1> QED BY <1>1, <1>2, PTL DEF SessionSpec

\* The requests a client sends reach dispatch_msg once each, in their order, each under
\* its own type and with its own id, whatever is written or arrives in between
\* (pump_read, read_msg, dispatch_msg).
THEOREM SessionAsks == ASSUME SplitInsideField = FALSE PROVE SessionSpec => []AskedAreSent
<1>1. AskedInv => AskedAreSent
      BY DEF AskedInv
<1> QED BY <1>1, AlwaysAsked, PTL

-----------------------------------------------------------------------------
(* The other half: a connection also runs as GateSession says, wherever its     *)
(* segments end, so what GateProofs and ServiceProofs show of the gatekeeper    *)
(* holds of it.  P is their copy of what Session calls G.                       *)

P == INSTANCE ServiceProofs WITH at <- place

LEMMA GateConstants == P!WriteQueueAssumption /\ P!GateSessionAssumption
BY GateAssumption DEF G!WriteQueueAssumption, G!GateSessionAssumption, G!Kinds,
                      P!WriteQueueAssumption, P!GateSessionAssumption, P!Kinds

LEMMA SameVars == G!vars = P!vars /\ (G!vars)' = (P!vars)'
BY DEF G!vars, G!writeVars, G!sessionVars, P!vars, P!writeVars, P!sessionVars

LEMMA SameInit == G!Init <=> P!Init
BY Zenon DEF G!Init, G!WriteInit, P!Init, P!WriteInit

LEMMA SameQueue ==
    /\ G!handle_write <=> P!handle_write
    /\ \A m : G!enqueue_write(m) <=> P!enqueue_write(m)
    /\ G!ReplyInClear <=> P!ReplyInClear
BY Zenon DEF G!handle_write, G!enqueue_write, G!resume_write, G!Chunk, G!Left, G!Remaining, G!State,
             G!Encrypted, G!WritesNow, G!ReplyInClear, G!ServerSeed, G!set_crypt_key,
             P!handle_write, P!enqueue_write, P!resume_write, P!Chunk, P!Left, P!Remaining, P!State,
             P!Encrypted, P!WritesNow, P!ReplyInClear, P!ServerSeed, P!set_crypt_key

LEMMA SamePumps == G!Events \/ G!Pumps => P!Events \/ P!Pumps
BY SameQueue, Zenon
   DEF G!Events, G!Dispatch, G!Hup, G!Pumps, G!PumpWrite, G!PumpWriteDone, G!ReadPauses, G!PumpReadEnds,
       G!PumpReadUnregistered, G!PumpReadGoesOn, G!AfterWrite, G!writeVars,
       P!Events, P!Dispatch, P!Hup, P!Pumps, P!PumpWrite, P!PumpWriteDone, P!ReadPauses, P!PumpReadEnds,
       P!PumpReadUnregistered, P!PumpReadGoesOn, P!AfterWrite, P!writeVars

LEMMA SameHandlers == G!Handlers => P!Handlers
BY SameQueue, Zenon
   DEF G!Handlers, G!IncomingGate, G!IncomingRefused, G!HandshakeRefused, G!HandshakeEmpty, G!HandshakeSeed,
       G!YdataFails, G!YdataKeyed, G!ReadMsg, G!ReadMsgRefused, G!DispatchMsg, G!Handler, G!Registers,
       G!Refuses, G!Clear, G!Handshake, G!EmptyAllowed, G!Ydata, G!Keyed, G!HeaderNext, G!Reply, G!ReplyTo,
       G!Requests, G!writeVars,
       P!Handlers, P!IncomingGate, P!IncomingRefused, P!HandshakeRefused, P!HandshakeEmpty, P!HandshakeSeed,
       P!YdataFails, P!YdataKeyed, P!ReadMsg, P!ReadMsgRefused, P!DispatchMsg, P!Handler, P!Registers,
       P!Refuses, P!Clear, P!Handshake, P!EmptyAllowed, P!Ydata, P!Keyed, P!HeaderNext, P!Reply, P!ReplyTo,
       P!Requests, P!writeVars

\* Every step of a connection is one of its gate session, or none.
LEMMA GateStep == [SessionNext]_sessionVars => [P!Next]_(P!vars)
<1>1. [SessionNext]_sessionVars => [G!Next]_(G!vars)
  <2> SUFFICES ASSUME [SessionNext]_sessionVars PROVE G!Next \/ UNCHANGED G!vars
      OBVIOUS
  <2> USE DEF gateVars, G!vars, G!writeVars, G!sessionVars, G!Next
  <2>1. CASE UNCHANGED sessionVars
        BY <2>1 DEF sessionVars
  <2>2. CASE NetworkDelivers \/ ReadGoesOn \/ ReadDies
        BY <2>2 DEF NetworkDelivers, ReadGoesOn, ReadDies
  <2>3. CASE EventComes \/ HangUp
        BY <2>3 DEF EventComes, HangUp, G!Events
  <2>4. CASE Writes \/ ReadStops \/ PumpGoesOn
        BY <2>4 DEF Writes, ReadStops, PumpGoesOn, G!Pumps
  <2>5. CASE HandOver
        BY <2>5 DEF HandOver, Handles, G!Handlers
  <2> QED BY <2>1, <2>2, <2>3, <2>4, <2>5 DEF SessionNext, Daemon
<1>2. G!Next => P!Next
      BY SamePumps, SameHandlers DEF G!Next, P!Next
<1> QED BY <1>1, <1>2, SameVars

LEMMA IsGate == SessionSpec => P!Spec
<1>1. SessionInit => P!Init
      BY SameInit DEF SessionInit
<1> QED BY <1>1, GateStep, PTL DEF SessionSpec, P!Spec

-----------------------------------------------------------------------------
LEMMA SameType == P!TypeOK => G!TypeOK
BY Zenon DEF G!TypeOK, G!Kinds, G!Left, G!Structs, G!Requests, G!ReplyTo,
             P!TypeOK, P!Kinds, P!Left, P!Structs, P!Requests, P!ReplyTo

LEMMA SameSafety ==
    /\ P!StructMatchesFlags => G!StructMatchesFlags
    /\ P!NoServiceInClear => G!NoServiceInClear
    /\ P!PeerDecrypts => G!PeerDecrypts
    /\ P!Contiguous => G!Contiguous
    /\ P!NeverWritesAfterShutdown => G!NeverWritesAfterShutdown
BY Zenon
   DEF G!StructMatchesFlags, G!NoServiceInClear, G!Pretends, G!PeerDecrypts, G!SeedSize,
       G!ServerSeed, G!Contiguous, G!Chain, G!NeverWritesAfterShutdown, G!Requests, G!ReplyTo,
       P!StructMatchesFlags, P!NoServiceInClear, P!Pretends, P!PeerDecrypts, P!SeedSize,
       P!ServerSeed, P!Contiguous, P!Chain, P!NeverWritesAfterShutdown, P!Requests, P!ReplyTo

\* What the service sees of a session.
LEMMA SameView ==
    /\ P!Service!serviceVars = G!Service!serviceVars
    /\ (P!Service!serviceVars)' = (G!Service!serviceVars)'
BY Zenon
   DEF G!Service!serviceVars, G!Phase, G!Ended, G!Firsts, G!Lasts, G!Nth, G!ServerSeed, G!Cardinality,
       P!Service!serviceVars, P!Phase, P!Ended, P!Firsts, P!Lasts, P!Nth, P!ServerSeed, P!Cardinality

LEMMA SameService ==
    /\ P!Service!Init => G!Service!Init
    /\ P!Service!Next => G!Service!Next
BY Zenon
   DEF G!Service!Init, G!Service!Next, G!Service!Advance, G!Service!Following, G!Service!Serve,
       G!Service!Receive, G!Service!End,
       G!Phase, G!Ended, G!Firsts, G!Lasts, G!Nth, G!ServerSeed, G!Cardinality,
       P!Service!Init, P!Service!Next, P!Service!Advance, P!Service!Following, P!Service!Serve,
       P!Service!Receive, P!Service!End,
       P!Phase, P!Ended, P!Firsts, P!Lasts, P!Nth, P!ServerSeed, P!Cardinality

\* Casts are right, nobody is served in the clear, the client can decrypt, and bytes
\* leave in order and none after a failed write, whatever is read in between
\* (gatekeeper_server::read, handle_ydata, enqueue_write, handle_write, pump_read).
THEOREM SessionGuarded ==
    SessionSpec => [](/\ G!TypeOK /\ G!StructMatchesFlags /\ G!NoServiceInClear /\ G!PeerDecrypts
                      /\ G!Contiguous /\ G!NeverWritesAfterShutdown)
<1>1. P!Spec => []P!TypeOK /\ []P!StructMatchesFlags /\ []P!NoServiceInClear /\ []P!PeerDecrypts
                /\ []P!Contiguous /\ []P!NeverWritesAfterShutdown
      BY GateConstants, P!TypeCorrect, P!CastsAreRight, P!NeverInClear, P!Decryptable, P!InOrder, P!LastWrite
         DEF P!WriteQueueAssumption, P!GateSessionAssumption
<1> QED BY <1>1, IsGate, SameType, SameSafety, PTL

\* A connection gives the service GateService promises: the handshake in order, and one
\* reply to every request, in order, received whole (theme::client, gatekeeper_server).
THEOREM SessionServes == SessionSpec => G!ImplementsService
<1>1. P!Spec => P!ImplementsService
      BY GateConstants, P!Implements DEF P!WriteQueueAssumption, P!GateSessionAssumption
<1>2. [P!Service!Next]_(P!Service!serviceVars) => [G!Service!Next]_(G!Service!serviceVars)
      BY SameService, SameView
<1>3. P!ImplementsService => G!ImplementsService
      BY <1>2, SameService, PTL
         DEF P!ImplementsService, P!Service!Spec, G!ImplementsService, G!Service!Spec
<1> QED BY <1>1, <1>3, IsGate, PTL

-----------------------------------------------------------------------------
(* Both halves together. *)

\* Of the requests the client has sent and dispatch_msg has been given, each has its
\* one reply, in its place and with its transaction id; and when nothing is queued the
\* client has been sent all of them to the last byte.
RepliedToScript ==
    /\ Len(P!Replied) = Cardinality(Sought(item - 1))
    /\ \A k \in Sought(item - 1) : P!Replied[Cardinality(Sought(k))] = script[k].says
    /\ writes = <<>> => P!Received = Cardinality(Sought(item - 1))

LEMMA RepliedAsSent ==
    ASSUME AskedInv, P!AnsweredInOrder, P!NothingOwed
    PROVE  RepliedToScript
<1>1. PICK r, w, n, m : r = P!Replied /\ w = P!Received /\ n = Len(asked) /\ m = Cardinality(Sought(item - 1))
      OBVIOUS
<1>2. asked \in Seq(G!Requests \X Ids) /\ n = m
      BY <1>1 DEF AskedInv, AskedAreSent
<1>3. n \in Nat /\ DOMAIN asked = 1..n
  <2>1. PICK T : T = G!Requests \X Ids
        OBVIOUS
  <2>2. asked \in Seq(T)
        BY <1>2, <2>1, Zenon
  <2> QED BY ONLY <1>1, <2>2
<1>4. r = [k \in 1..n |-> asked[k][2]]
      BY <1>1, <1>3, Zenon DEF P!AnsweredInOrder, P!Requested
<1>5. Len(r) = n /\ \A k \in 1..n : r[k] = asked[k][2]
      BY ONLY <1>3, <1>4
<1>6. writes = <<>> => w = n
  <2>1. P!NothingOwed => (writes = <<>> => w = Len(r))
        BY <1>1, Zenon DEF P!NothingOwed, P!AnsweredInOrder
  <2> QED BY <1>5, <2>1, Zenon
<1>7. ASSUME NEW k \in Sought(item - 1)
      PROVE  r[Cardinality(Sought(k))] = script[k].says
  <2>1. item \in Nat /\ item - 1 \in Nat
    <3>1. script \in Scripts /\ item \in 1..(Len(script) + 1)
          BY ScriptTypes DEF AskedInv, SessionInv, Aligned, TypeInv, TypeOK
    <3>2. Len(script) \in Nat
          BY <3>1, ScriptTypes
    <3> QED BY ONLY <3>1, <3>2
  <2>2. Cardinality(Sought(k)) \in 1..n
        BY <1>1, <1>2, <2>1, Rank, Zenon
  <2>3. asked[Cardinality(Sought(k))] = <<script[k].name, script[k].says>>
        BY Zenon DEF AskedInv, AskedAreSent
  <2> QED BY <1>5, <2>2, <2>3
<1> QED BY <1>1, <1>2, <1>5, <1>6, <1>7, Zenon DEF RepliedToScript

\* From the client's bytes to the bytes he is sent: his requests are answered once
\* each, in the order he sent them and with their ids, whatever the cut of the segments
\* that end where fields do, however slowly he reads (client::handle_read, pump_read,
\* dispatch_msg, enqueue_write, pump_write).
THEOREM AnswersTheScript == ASSUME SplitInsideField = FALSE PROVE SessionSpec => []RepliedToScript
<1>1. P!Spec => [](P!AnsweredInOrder /\ P!NothingOwed)
      BY GateConstants, P!EveryRequestAnswered DEF P!WriteQueueAssumption, P!GateSessionAssumption
<1>2. AskedInv /\ P!AnsweredInOrder /\ P!NothingOwed => RepliedToScript
      BY RepliedAsSent
<1> QED BY <1>1, <1>2, IsGate, AlwaysAsked, PTL
=============================================================================
