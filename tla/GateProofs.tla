----------------------------- MODULE GateProofs -----------------------------
(* Proofs about GateSession: for every size of the messages, every set of       *)
(* transaction ids and every number of requests.                                *)
EXTENDS GateSession, SequenceTheorems, TLAPS

\* The places of the session where its next read is due.
Live ==
    \/ at = "read"
    \/ at \in {"idle", "write"} /\ ~shut
    \/ at = "handled" /\ ok /\ struct # "none"

Agree ==
    \/ handler = "incoming" /\ flags = {} /\ struct = "connection_header"
    \/ handler = "gate" /\ flags = {} /\ struct = "encrypt_header"
    \/ handler = "gate" /\ flags = {"wantClientSeed"} /\ struct = "encrypt_seed"
    \/ handler = "gate" /\ flags = {"encrypted", "wantMsgHeader"} /\ struct = "msg_std_header"
    \/ handler = "gate" /\ flags = {"encrypted"} /\ struct \in Requests /\ struct = type

\* The key is set exactly when the flags say so, behind the server's seed.
KeyAgrees ==
    IF "encrypted" \in flags
    THEN key = SessionKey /\ base = SeedSize /\ Len(wire) >= SeedSize
    ELSE key = NoKey /\ wire = <<>>

SessionInv == Live => Agree /\ KeyAgrees

QState == [from : Nat, to : Nat, offs : Nat]
Byte == [msg : [kind : Kinds, id : Ids \cup {NoId}], nth : Nat \ {0}, key : {NoKey, SessionKey}, ks : Nat]

\* The part of the type invariant the write side may disturb.
QueueOK ==
    /\ sent \in Seq(Nat) /\ shut \in BOOLEAN
    /\ writes \in Seq(QState)
    /\ \A i \in DOMAIN writes : Left(writes[i]) \in Nat \ {0}

IndInv == TypeOK /\ SessionInv /\ PeerDecrypts /\ Contiguous /\ NeverWritesAfterShutdown

\* q is rest behind one more element.
Fronted(T, e, rest, q) ==
    /\ q \in Seq(T) /\ q # <<>> /\ Len(q) = Len(rest) + 1 /\ Len(rest) \in Nat
    /\ q[1] = e /\ \A i \in 2..Len(q) : i - 1 \in 1..Len(rest) /\ q[i] = rest[i - 1]

LEMMA Fronts ==
    ASSUME NEW T, NEW e \in T, NEW rest \in Seq(T)
    PROVE  Fronted(T, e, rest, <<e>> \o rest)
<1> DEFINE one == <<e>>
           q == one \o rest
<1>1. one \in Seq(T) /\ Len(one) = 1 /\ one[1] = e
      OBVIOUS
<1>2. Len(rest) \in Nat
      OBVIOUS
<1> HIDE DEF one
<1>3. /\ q \in Seq(T) /\ Len(q) = Len(one) + Len(rest)
      /\ \A i \in 1..(Len(one) + Len(rest)) : q[i] = IF i <= Len(one) THEN one[i] ELSE rest[i - Len(one)]
      BY <1>1, ConcatProperties, Zenon
<1> HIDE DEF q
<1>4. Len(q) = Len(rest) + 1
      BY ONLY <1>1, <1>2, <1>3
<1>5. q[1] = e
  <2>1. 1 \in 1..(Len(one) + Len(rest)) /\ 1 <= Len(one)
        BY ONLY <1>1, <1>2
  <2> QED BY ONLY <1>1, <1>3, <2>1, Zenon
<1>6. ASSUME NEW i \in 2..Len(q) PROVE i - 1 \in 1..Len(rest) /\ q[i] = rest[i - 1]
  <2>1. i \in 1..(Len(one) + Len(rest)) /\ ~(i <= Len(one)) /\ i - 1 \in 1..Len(rest)
        BY ONLY <1>1, <1>2, <1>4, <1>6
  <2>2. q[i] = rest[i - Len(one)]
        BY ONLY <1>3, <2>1, Zenon
  <2> QED BY ONLY <1>1, <2>1, <2>2, Zenon
<1>7. q # <<>>
      BY ONLY <1>2, <1>3, <1>4
<1>8. Fronted(T, e, rest, q)
      BY <1>2, <1>3, <1>4, <1>5, <1>6, <1>7, Zenon DEF Fronted
<1> QED BY <1>8 DEF q, one

\* resume_write sends a first part of the queue and keeps the rest.
LEMMA ResumeWrite ==
    ASSUME NEW s \in QState, NEW rest \in Seq(QState), NEW total \in Nat,
           sent \in Seq(Nat), shut \in BOOLEAN,
           Left(s) \in Nat \ {0}, \A i \in DOMAIN rest : Left(rest[i]) \in Nat \ {0},
           \A i \in DOMAIN sent : sent[i] = i,
           Chain(<<s>> \o rest, Len(sent), total),
           resume_write(s, rest)
    PROVE  /\ QueueOK'
           /\ \A i \in DOMAIN sent' : sent'[i] = i
           /\ Chain(writes', Len(sent'), total)
           /\ shut' # shut => writes' # <<>>
           /\ shut => shut'
<1> DEFINE q == <<s>> \o rest
<1>1. /\ q \in Seq(QState) /\ q # <<>> /\ Len(q) = Len(rest) + 1 /\ Len(rest) \in Nat
      /\ q[1] = s /\ \A i \in 2..Len(q) : i - 1 \in 1..Len(rest) /\ q[i] = rest[i - 1]
  <2>1. Fronted(QState, s, rest, q)
        BY Fronts, Zenon
  <2> HIDE DEF q
  <2> QED BY ONLY <2>1, Zenon DEF Fronted
<1>c. Chain(q, Len(sent), total)
      OBVIOUS
<1>q. (writes' = <<s>> \o rest) = (writes' = q)
      OBVIOUS
<1> HIDE DEF q
<1>2. CASE writes' = <<s>> \o rest /\ shut' = TRUE /\ sent' = sent
  <2>1. writes' = q /\ shut' = TRUE /\ sent' = sent
        BY ONLY <1>2, <1>q
  <2>2. ASSUME NEW i \in DOMAIN q PROVE Left(q[i]) \in Nat \ {0}
    <3>1. i \in 1..Len(q) /\ DOMAIN rest = 1..Len(rest)
          BY ONLY <1>1, <2>2, LenProperties, rest \in Seq(QState)
    <3>2. CASE i = 1
          BY <1>1, <3>2
    <3>3. CASE i # 1
      <4>1. i \in 2..Len(q)
            BY ONLY <1>1, <3>1, <3>3
      <4>2. i - 1 \in DOMAIN rest /\ q[i] = rest[i - 1]
            BY ONLY <1>1, <3>1, <4>1
      <4> QED BY <4>2, Zenon
    <3> QED BY <3>2, <3>3
  <2> QED BY <1>1, <1>c, <2>1, <2>2, Zenon DEF QueueOK
<1>3. ASSUME NEW n \in 0..Left(s), sent' = sent \o Chunk(s, n),
             writes' = Remaining(s, n) \o rest, shut' = shut
      PROVE  /\ QueueOK'
             /\ \A i \in DOMAIN sent' : sent'[i] = i
             /\ Chain(writes', Len(sent'), total)
  <2>n. n \in Nat /\ Left(s) \in Nat /\ n <= Left(s) /\ s.from \in Nat /\ s.to \in Nat /\ s.offs \in Nat
        BY DEF QState
  <2>1. s.from + s.offs = Len(sent)
        BY <1>1, <1>c, Zenon DEF Chain
  <2>2. Chunk(s, n) \in Seq(Nat) /\ Len(Chunk(s, n)) = n
        /\ \A i \in 1..n : Chunk(s, n)[i] = Len(sent) + i
    <3>1. Chunk(s, n) = [i \in 1..n |-> Len(sent) + i]
          BY <2>1 DEF Chunk
    <3>2. [i \in 1..n |-> Len(sent) + i] \in [1..n -> Nat]
          BY <2>n
    <3> QED BY <2>n, <3>1, <3>2
  <2>3. sent' \in Seq(Nat) /\ Len(sent') = Len(sent) + n /\ \A i \in DOMAIN sent' : sent'[i] = i
    <3>1. sent' \in Seq(Nat) /\ Len(sent') = Len(sent) + n
      <4> DEFINE c == Chunk(s, n)
      <4>1. c \in Seq(Nat) /\ Len(c) = n /\ sent' = sent \o c
            BY <1>3, <2>2
      <4> HIDE DEF c
      <4> QED BY <4>1, ConcatProperties
    <3>2. ASSUME NEW i \in DOMAIN sent' PROVE sent'[i] = i
      <4>1. CASE i <= Len(sent)
        <5>1. i \in DOMAIN sent /\ sent'[i] = sent[i]
              BY <1>3, <2>2, <3>1, <4>1
        <5> QED BY <5>1
      <4>2. CASE i > Len(sent)
        <5>1. i - Len(sent) \in 1..n
          <6>1. i \in 1..(Len(sent) + n) /\ Len(sent) \in Nat
                BY <3>1
          <6> QED BY ONLY <2>n, <4>2, <6>1
        <5>2. sent'[i] = Chunk(s, n)[i - Len(sent)]
          <6> DEFINE c == Chunk(s, n)
          <6>1. c \in Seq(Nat) /\ Len(c) = n /\ sent' = sent \o c
                BY <1>3, <2>2
          <6>2. i \in 1..(Len(sent) + n) /\ ~(i <= Len(sent))
                BY <3>1, <4>2
          <6> HIDE DEF c
          <6>3. (sent \o c)[i] = c[i - Len(sent)]
                BY <6>1, <6>2, ConcatProperties
          <6> QED BY <6>1, <6>3 DEF c
        <5>3. Chunk(s, n)[i - Len(sent)] = Len(sent) + (i - Len(sent))
              BY ONLY <2>2, <5>1
        <5>4. Len(sent) + (i - Len(sent)) = i
          <6>1. Len(sent) \in Nat /\ i \in Int
                BY <3>1
          <6> QED BY ONLY <6>1
        <5> QED BY ONLY <5>2, <5>3, <5>4
      <4>3. i \in Int /\ Len(sent) \in Int
            BY <3>1
      <4> QED BY <4>1, <4>2, <4>3
    <3> QED BY <3>1, <3>2
  <2>4. CASE n = Left(s)
    <3>1. writes' = rest
          BY <1>3, <2>4 DEF Remaining
    <3>2. s.to = Len(sent')
      <4>1. s.to - s.from - s.offs = n
            BY <2>4 DEF Left
      <4>2. Len(sent) \in Nat /\ Len(sent') = Len(sent) + n
            BY <2>3
      <4>3. PICK t, f, o, l : t = s.to /\ f = s.from /\ o = s.offs /\ l = Len(sent)
            OBVIOUS
      <4>4. t \in Nat /\ f \in Nat /\ o \in Nat /\ l \in Nat
            BY ONLY <2>n, <4>2, <4>3
      <4>5. t - f - o = n /\ f + o = l
            BY ONLY <2>1, <4>1, <4>3, Zenon
      <4>6. t = l + n
            BY ONLY <2>n, <4>4, <4>5
      <4> QED BY ONLY <4>2, <4>3, <4>6, Zenon
    <3>3. rest # <<>> => rest[1].from = s.to /\ rest[1].offs = 0 /\ rest[Len(rest)].to = total
      <4> SUFFICES ASSUME rest # <<>>
                   PROVE  rest[1].from = s.to /\ rest[1].offs = 0 /\ rest[Len(rest)].to = total
          OBVIOUS
      <4>1. 2 \in 2..Len(q) /\ Len(q) \in 2..Len(q) /\ q[2] = rest[1] /\ q[Len(q)] = rest[Len(rest)]
        <5>1. Len(rest) # 0
              OBVIOUS
        <5>2. 2 \in 2..Len(q) /\ Len(q) \in 2..Len(q) /\ 2 - 1 = 1 /\ Len(q) - 1 = Len(rest)
              BY ONLY <1>1, <5>1
        <5> QED BY ONLY <1>1, <5>2
      <4>2. q[2].from = q[2 - 1].to /\ q[2].offs = 0 /\ q[Len(q)].to = total
            BY <1>1, <1>c, <4>1, Zenon DEF Chain
      <4>3. 2 - 1 = 1
            OBVIOUS
      <4> QED BY ONLY <1>1, <4>1, <4>2, <4>3
    <3>4. rest = <<>> => s.to = total
      <4>1. q[Len(q)].to = total
            BY <1>1, <1>c, Zenon DEF Chain
      <4>2. rest = <<>> => Len(q) = 1
            BY <1>1
      <4> QED BY ONLY <1>1, <4>1, <4>2
    <3>5. \A i \in 2..Len(rest) : rest[i].from = rest[i - 1].to /\ rest[i].offs = 0
      <4> SUFFICES ASSUME NEW i \in 2..Len(rest)
                   PROVE  rest[i].from = rest[i - 1].to /\ rest[i].offs = 0
          OBVIOUS
      <4>0. i \in 2..Len(rest)
            OBVIOUS
      <4>1. i + 1 \in 2..Len(q) /\ i \in 2..Len(q) /\ (i + 1) - 1 = i
            BY ONLY <1>1, <4>0
      <4>2. q[i + 1] = rest[(i + 1) - 1] /\ q[i] = rest[i - 1]
            BY ONLY <1>1, <4>1, Zenon
      <4>3. q[i + 1].from = q[(i + 1) - 1].to /\ q[i + 1].offs = 0
            BY <1>1, <1>c, <4>1, Zenon DEF Chain
      <4> QED BY ONLY <4>1, <4>2, <4>3, Zenon
    <3>6. Chain(rest, Len(sent'), total)
      <4>1. rest # <<>> => rest[1].from + rest[1].offs = Len(sent')
        <5> SUFFICES ASSUME rest # <<>> PROVE rest[1].from + rest[1].offs = Len(sent')
            OBVIOUS
        <5>1. Len(sent') \in Nat
              BY <2>3
        <5>2. PICK f, o, l : f = rest[1].from /\ o = rest[1].offs /\ l = Len(sent')
              OBVIOUS
        <5>3. f = l /\ o = 0 /\ l \in Nat
              BY ONLY <3>2, <3>3, <5>1, <5>2, rest # <<>>, Zenon
        <5>4. f + o = l
              BY ONLY <5>3
        <5> QED BY ONLY <5>2, <5>4, Zenon
      <4>2. rest = <<>> => Len(sent') = total
            BY <3>2, <3>4
      <4> QED BY <3>3, <3>5, <4>1, <4>2 DEF Chain
    <3> QED BY <1>3, <2>3, <3>1, <3>6 DEF QueueOK
  <2>5. CASE n # Left(s)
    <3> DEFINE t == State(s.from, s.to, s.offs + n)
    <3>1. writes' = <<t>> \o rest
          BY <1>3, <2>5 DEF Remaining
    <3>2. t \in QState /\ t.from = s.from /\ t.to = s.to /\ t.offs = s.offs + n
          BY <2>n DEF QState, State
    <3>3. Left(t) \in Nat \ {0}
      <4>1. Left(t) = Left(s) - n
        <5>1. Left(t) = s.to - s.from - (s.offs + n) /\ Left(s) = s.to - s.from - s.offs
              BY ONLY <3>2 DEF Left
        <5>2. PICK from, to, offs : from = s.from /\ to = s.to /\ offs = s.offs
              OBVIOUS
        <5>3. from \in Nat /\ to \in Nat /\ offs \in Nat /\ n \in Nat
              BY ONLY <2>n, <5>2, Zenon
        <5>4. to - from - (offs + n) = to - from - offs - n
              BY ONLY <5>3
        <5> QED BY ONLY <5>1, <5>2, <5>4, Zenon
      <4> QED BY ONLY <2>n, <2>5, <4>1
    <3>4. /\ writes' \in Seq(QState) /\ Len(writes') = Len(q) /\ writes'[1] = t /\ writes' # <<>>
          /\ \A i \in 2..Len(writes') : writes'[i] = q[i]
      <4>1. Fronted(QState, t, rest, <<t>> \o rest)
            BY ONLY <3>2, Fronts, rest \in Seq(QState), Zenon
      <4>2. Fronted(QState, t, rest, writes')
            BY ONLY <3>1, <4>1
      <4>3. /\ writes' \in Seq(QState) /\ Len(writes') = Len(rest) + 1 /\ writes'[1] = t /\ writes' # <<>>
            /\ \A i \in 2..Len(writes') : writes'[i] = rest[i - 1]
            BY ONLY <4>2, Zenon DEF Fronted
      <4>4. Len(writes') = Len(q)
            BY ONLY <1>1, <4>3
      <4> QED BY ONLY <1>1, <4>3, <4>4, Zenon
    <3>d. writes' \in Seq(QState) => DOMAIN writes' = 1..Len(writes')
          OBVIOUS
    <3> HIDE DEF t
    <3>5. \A i \in DOMAIN writes' : Left(writes'[i]) \in Nat \ {0}
      <4> SUFFICES ASSUME NEW i \in DOMAIN writes', i # 1
                   PROVE  Left(writes'[i]) \in Nat \ {0}
          BY <3>3, <3>4
      <4>1. i \in 2..Len(writes') /\ i - 1 \in DOMAIN rest /\ writes'[i] = rest[i - 1]
        <5>1. i \in 2..Len(writes') /\ DOMAIN rest = 1..Len(rest)
          <6>1. i \in 1..Len(writes') /\ i # 1 /\ Len(writes') \in Nat
                BY <3>4
          <6>2. DOMAIN rest = 1..Len(rest)
                OBVIOUS
          <6> QED BY ONLY <6>1, <6>2
        <5> QED BY ONLY <1>1, <3>4, <5>1
      <4> QED BY <4>1, Zenon
    <3>6. Chain(writes', Len(sent'), total)
      <4>1. t.from + t.offs = Len(sent')
        <5>1. Len(sent) \in Nat /\ Len(sent') = Len(sent) + n
              BY <2>3
        <5>2. t.from = s.from /\ t.offs = s.offs + n
              BY <3>2
        <5>3. s.from \in Nat /\ s.offs \in Nat /\ n \in Nat
              BY <2>n
        <5>4. PICK from, offs, start, done : from = s.from /\ offs = s.offs /\ start = t.offs /\ done = Len(sent)
              OBVIOUS
        <5>5. /\ from \in Nat /\ offs \in Nat /\ done \in Nat /\ n \in Nat
              /\ from + offs = done /\ start = offs + n
              BY ONLY <2>1, <5>1, <5>2, <5>3, <5>4, Zenon
        <5>6. from + start = done + n
              BY ONLY <5>5
        <5> QED BY ONLY <5>1, <5>2, <5>4, <5>6, Zenon
      <4>2. writes'[Len(writes')].to = q[Len(q)].to
        <5>1. CASE Len(q) = 1
              BY ONLY <5>1, <1>1, <3>2, <3>4
        <5>2. CASE Len(q) # 1
          <6>1. Len(q) \in 2..Len(q)
                BY ONLY <5>2, <1>1
          <6> QED BY ONLY <3>4, <6>1
        <5> QED BY <5>1, <5>2
      <4>3. \A i \in 2..Len(writes') : writes'[i].from = writes'[i - 1].to /\ writes'[i].offs = 0
        <5> SUFFICES ASSUME NEW i \in 2..Len(writes')
                     PROVE  writes'[i].from = writes'[i - 1].to /\ writes'[i].offs = 0
            OBVIOUS
        <5>0. i \in 2..Len(q) /\ (i = 2 => i - 1 = 1) /\ (i # 2 => i - 1 \in 2..Len(q))
          <6>1. i \in 2..Len(writes')
                OBVIOUS
          <6> QED BY ONLY <1>1, <3>4, <6>1
        <5>1. q[i].from = q[i - 1].to /\ q[i].offs = 0
              BY <1>1, <1>c, <5>0, Zenon DEF Chain
        <5>2. writes'[i - 1].to = q[i - 1].to
          <6>1. CASE i = 2
                BY ONLY <6>1, <1>1, <3>2, <3>4, <5>0, Zenon
          <6>2. CASE i # 2
                BY ONLY <6>2, <3>4, <5>0, Zenon
          <6> QED BY <6>1, <6>2
        <5>3. writes'[i] = q[i]
              BY ONLY <3>4, <5>0, Zenon
        <5> QED BY ONLY <5>1, <5>2, <5>3
      <4>4. q[Len(q)].to = total
            BY <1>1, <1>c, Zenon DEF Chain
      <4>5. writes'[1].from + writes'[1].offs = Len(sent')
            BY ONLY <3>4, <4>1
      <4> QED BY ONLY <3>4, <4>2, <4>3, <4>4, <4>5, Zenon DEF Chain
    <3> QED BY <1>3, <2>3, <3>4, <3>5, <3>6 DEF QueueOK
  <2> QED BY <2>4, <2>5
<1> QED BY <1>2, <1>3, <1>1 DEF resume_write

Message == [kind : Kinds, id : Ids \cup {NoId}]

\* handle_write keeps the bytes in order.
LEMMA HandleWrite ==
    ASSUME QueueOK, wire \in Seq(Byte), Contiguous, handle_write
    PROVE  /\ QueueOK' /\ Contiguous'
           /\ shut' # shut => writes' # <<>>
<1> DEFINE s == Head(writes)
           rest == Tail(writes)
<1>1. s \in QState /\ rest \in Seq(QState) /\ writes = <<s>> \o rest
      BY DEF QueueOK, handle_write
<1>2. Left(s) \in Nat \ {0}
  <2>1. s = writes[1] /\ 1 \in DOMAIN writes
        BY DEF QueueOK, handle_write
  <2> QED BY <2>1 DEF QueueOK
<1>3. \A i \in DOMAIN rest : Left(rest[i]) \in Nat \ {0}
  <2> SUFFICES ASSUME NEW i \in DOMAIN rest PROVE Left(rest[i]) \in Nat \ {0}
      OBVIOUS
  <2>1. i + 1 \in DOMAIN writes /\ rest[i] = writes[i + 1]
        BY DEF QueueOK, handle_write
  <2> QED BY <2>1 DEF QueueOK
<1>4. Len(wire) \in Nat /\ wire' = wire
      BY DEF handle_write
<1> HIDE DEF s, rest
<1>5. resume_write(s, rest)
      BY DEF handle_write, s, rest
<1>6. sent \in Seq(Nat) /\ shut \in BOOLEAN /\ (\A i \in DOMAIN sent : sent[i] = i)
      /\ Chain(<<s>> \o rest, Len(sent), Len(wire))
      BY <1>1 DEF QueueOK, Contiguous
<1>7. /\ QueueOK'
      /\ \A i \in DOMAIN sent' : sent'[i] = i
      /\ Chain(writes', Len(sent'), Len(wire))
      /\ shut' # shut => writes' # <<>>
      BY <1>1, <1>2, <1>3, <1>4, <1>5, <1>6, ResumeWrite
<1> QED BY <1>4, <1>7 DEF Contiguous, Chain

\* enqueue_write appends the message's bytes, under the present key, behind all others.
LEMMA EnqueueWrite ==
    ASSUME QueueOK, wire \in Seq(Byte), Contiguous, NEW m \in Message, enqueue_write(m),
           key = NoKey \/ (key = SessionKey /\ base \in Nat /\ Len(wire) >= base)
    PROVE  /\ QueueOK' /\ Contiguous'
           /\ wire' \in Seq(Byte) /\ Len(wire') = Len(wire) + Size[m.kind]
           /\ \A i \in DOMAIN wire : wire'[i] = wire[i]
           /\ \A i \in DOMAIN wire' : i > Len(wire) =>
                 /\ wire'[i].msg = m /\ wire'[i].key = key
                 /\ key = SessionKey => wire'[i].ks = i - base
           /\ shut' # shut => writes' # <<>>
           /\ writes # <<>> => writes' # <<>>
<1> DEFINE n == Size[m.kind]
           s == State(Len(wire), Len(wire) + n, 0)
<1>1. n \in Nat \ {0} /\ Len(wire) \in Nat
      BY WriteQueueAssumption, GateSessionAssumption DEF Message
<1>2. s \in QState /\ Left(s) \in Nat \ {0} /\ s.from = Len(wire) /\ s.to = Len(wire) + n /\ s.offs = 0
      BY <1>1 DEF State, QState, Left
<1>3. /\ wire' \in Seq(Byte) /\ Len(wire') = Len(wire) + n
      /\ \A i \in DOMAIN wire : wire'[i] = wire[i]
      /\ \A i \in DOMAIN wire' : i > Len(wire) =>
            /\ wire'[i].msg = m /\ wire'[i].key = key
            /\ key = SessionKey => wire'[i].ks = i - base
  <2> DEFINE e == Encrypted(m)
             ks(i) == IF key = NoKey THEN 0 ELSE Len(wire) - base + i
             b(i) == [msg |-> m, nth |-> i, key |-> key, ks |-> ks(i)]
  <2>1. e = [i \in 1..n |-> b(i)]
        BY DEF Encrypted
  <2>2. ASSUME NEW i \in 1..n
        PROVE  ks(i) \in Nat /\ (key = SessionKey => ks(i) = Len(wire) - base + i)
        BY <1>1, GateSessionAssumption
  <2> HIDE DEF ks
  <2>3. ASSUME NEW i \in 1..n
        PROVE  b(i) \in Byte /\ b(i).msg = m /\ b(i).key = key /\ b(i).ks = ks(i)
    <3>1. i \in Nat \ {0} /\ key \in {NoKey, SessionKey} /\ ks(i) \in Nat
          BY <1>1, <2>2
    <3>2. b(i).msg = m /\ b(i).key = key /\ b(i).ks = ks(i)
          OBVIOUS
    <3> QED BY <3>1, <3>2 DEF Byte, Message
  <2> HIDE DEF b
  <2>4. e \in Seq(Byte) /\ Len(e) = n /\ \A i \in 1..n : e[i] = b(i)
    <3>1. e \in [1..n -> Byte]
          BY <2>1, <2>3
    <3>2. \A i \in 1..n : e[i] = b(i)
          BY <2>1
    <3> HIDE DEF e, n
    <3>3. e \in Seq(Byte) /\ Len(e) = n
          BY <1>1, <3>1
    <3> QED BY <3>2, <3>3
  <2>5. wire' = wire \o e
        BY DEF enqueue_write
  <2> HIDE DEF e
  <2>6. /\ wire' \in Seq(Byte) /\ Len(wire') = Len(wire) + n
        /\ \A i \in 1..(Len(wire) + n) : wire'[i] = IF i <= Len(wire) THEN wire[i] ELSE e[i - Len(wire)]
        BY <2>4, <2>5, ConcatProperties
  <2>7. ASSUME NEW i \in DOMAIN wire', i > Len(wire)
        PROVE  /\ wire'[i].msg = m /\ wire'[i].key = key
               /\ key = SessionKey => wire'[i].ks = i - base
    <3>1. i - Len(wire) \in 1..n /\ wire'[i] = e[i - Len(wire)]
      <4>1. DOMAIN wire' = 1..(Len(wire) + n)
            BY <2>6
      <4>2. i \in 1..(Len(wire) + n) /\ ~(i <= Len(wire))
            BY <1>1, <2>7, <4>1
      <4>3. i - Len(wire) \in 1..n
            BY <1>1, <4>2
      <4> QED BY <2>6, <4>2, <4>3
    <3>2. wire'[i] = b(i - Len(wire))
          BY <2>4, <3>1
    <3>3. b(i - Len(wire)).msg = m /\ b(i - Len(wire)).key = key /\ b(i - Len(wire)).ks = ks(i - Len(wire))
          BY <2>3, <3>1
    <3>4. key = SessionKey => ks(i - Len(wire)) = Len(wire) - base + (i - Len(wire))
          BY <2>2, <3>1
    <3>5. key = SessionKey => base \in Nat /\ i \in Nat
          BY <1>1, <2>6, <2>7, GateSessionAssumption
    <3> QED BY <1>1, <3>2, <3>3, <3>4, <3>5
  <2> QED BY <1>1, <2>6, <2>7
<1> HIDE DEF s
<1>4. CASE writes = <<>>
  <2>1. resume_write(s, <<>>)
        BY <1>4 DEF enqueue_write, WritesNow, s
  <2>2. sent \in Seq(Nat) /\ shut \in BOOLEAN /\ (\A i \in DOMAIN sent : sent[i] = i)
        /\ Len(sent) = Len(wire)
        BY <1>4 DEF QueueOK, Contiguous, Chain
  <2>3. Chain(<<s>> \o <<>>, Len(sent), Len(wire) + n)
        BY <1>1, <1>2, <2>2 DEF Chain
  <2>4. <<>> \in Seq(QState) /\ (\A i \in DOMAIN <<>> : Left(<<>>[i]) \in Nat \ {0})
        /\ Len(wire) + n \in Nat
        BY <1>1
  <2>5. /\ QueueOK'
        /\ \A i \in DOMAIN sent' : sent'[i] = i
        /\ Chain(writes', Len(sent'), Len(wire) + n)
        /\ shut' # shut => writes' # <<>>
        BY <1>2, <2>1, <2>2, <2>3, <2>4, ResumeWrite
  <2> QED BY <1>3, <1>4, <2>5 DEF Contiguous, Chain
<1>5. CASE writes # <<>>
  <2>1. writes' = Append(writes, s) /\ sent' = sent /\ shut' = shut
        BY <1>5 DEF enqueue_write, WritesNow, s
  <2>2. /\ writes' \in Seq(QState) /\ Len(writes') = Len(writes) + 1 /\ writes'[Len(writes')] = s
        /\ \A i \in DOMAIN writes : writes'[i] = writes[i]
        /\ Len(writes) \in Nat \ {0} /\ writes' # <<>> /\ DOMAIN writes = 1..Len(writes)
        /\ DOMAIN writes' = 1..Len(writes')
        BY <1>2, <1>5, <2>1 DEF QueueOK
  <2>3. \A i \in DOMAIN writes' : Left(writes'[i]) \in Nat \ {0}
    <3> SUFFICES ASSUME NEW i \in DOMAIN writes' PROVE Left(writes'[i]) \in Nat \ {0}
        OBVIOUS
    <3>1. CASE i \in DOMAIN writes
          BY <2>2, <3>1 DEF QueueOK
    <3>2. CASE i \notin DOMAIN writes
          BY <1>2, <2>2, <3>2
    <3> QED BY <3>1, <3>2
  <2>4. Chain(writes, Len(sent), Len(wire))
        BY DEF Contiguous
  <2>5. ASSUME NEW i \in 2..Len(writes')
        PROVE  writes'[i].from = writes'[i - 1].to /\ writes'[i].offs = 0
    <3>1. CASE i \in 2..Len(writes)
      <4>1. i \in DOMAIN writes /\ i - 1 \in DOMAIN writes
            BY <2>2, <3>1
      <4> QED BY <2>2, <2>4, <3>1, <4>1 DEF Chain
    <3>2. CASE i \notin 2..Len(writes)
      <4>1. i = Len(writes') /\ i - 1 = Len(writes) /\ Len(writes) \in DOMAIN writes
            BY <2>2, <3>2
      <4> QED BY <1>2, <1>5, <2>2, <2>4, <4>1 DEF Chain
    <3> QED BY <3>1, <3>2
  <2>6. writes'[1] = writes[1]
        BY <2>2
  <2>7. Chain(writes', Len(sent'), Len(wire'))
        BY <1>2, <1>3, <1>5, <2>1, <2>2, <2>4, <2>5, <2>6 DEF Chain
  <2> QED BY <1>3, <1>5, <2>1, <2>2, <2>3, <2>7 DEF QueueOK, Contiguous, Chain
<1> QED BY <1>3, <1>4, <1>5

-----------------------------------------------------------------------------
\* The session starts with nothing written and the connection packet due.
LEMMA IndInit == Init => IndInv
<1> SUFFICES ASSUME Init PROVE IndInv
    OBVIOUS
<1> USE DEF Init, WriteInit
<1>1. TypeOK
  <2>1. wire = <<>> /\ writes = <<>> /\ sent = <<>> /\ asked = <<>>
        OBVIOUS
  <2>2. /\ wire \in Seq([msg : [kind : Kinds, id : Ids \cup {NoId}], nth : Nat \ {0},
                         key : {NoKey, SessionKey}, ks : Nat])
        /\ writes \in Seq([from : Nat, to : Nat, offs : Nat])
        /\ sent \in Seq(Nat) /\ asked \in Seq(Requests \X Ids)
        /\ \A i \in DOMAIN writes : Left(writes[i]) \in Nat \ {0}
        BY <2>1
  <2>3. struct \in Structs /\ flags \in SUBSET {"encrypted", "wantClientSeed", "wantMsgHeader"}
        BY DEF Structs
  <2> QED BY <2>2, <2>3 DEF TypeOK
<1>2. SessionInv
      BY DEF SessionInv, Agree, KeyAgrees
<1>3. PeerDecrypts /\ Contiguous /\ NeverWritesAfterShutdown
      BY DEF PeerDecrypts, Contiguous, Chain, NeverWritesAfterShutdown
<1> QED BY <1>1, <1>2, <1>3 DEF IndInv

WriteKept == UNCHANGED <<key, base, wire, writes, sent>> /\ shut' \in BOOLEAN

SessionTypeOK ==
    /\ decrypted \in Builds
    /\ handler \in {"incoming", "gate"}
    /\ flags \in SUBSET {"encrypted", "wantClientSeed", "wantMsgHeader"}
    /\ struct \in Structs \cup {"none"} /\ type \in Requests \cup {"none"}
    /\ at \in {"idle", "write", "read", "handled", "gone"}
    /\ input \in BOOLEAN /\ ok \in BOOLEAN
    /\ asked \in Seq(Requests \X Ids)

\* The type invariant is that of the written bytes, the queue and the session.
LEMMA TypeSplit ==
    TypeOK <=> QueueOK /\ SessionTypeOK /\ key \in {NoKey, SessionKey} /\ base \in Nat
               /\ wire \in Seq(Byte)
BY DEF TypeOK, QueueOK, SessionTypeOK, QState, Byte

\* Steps that write nothing keep what is said about the bytes.
LEMMA Quiet ==
    ASSUME IndInv, WriteKept, SessionTypeOK'
    PROVE  TypeOK' /\ PeerDecrypts' /\ Contiguous'
<1>1. QueueOK'
      BY TypeSplit DEF IndInv, WriteKept, QueueOK, Left
<1>2. (key \in {NoKey, SessionKey} /\ base \in Nat /\ wire \in Seq(Byte))'
      BY TypeSplit DEF IndInv, WriteKept, Byte
<1>3. PeerDecrypts'
      BY DEF IndInv, WriteKept, PeerDecrypts, SeedSize, ServerSeed
<1>4. Contiguous'
      BY DEF IndInv, WriteKept, Contiguous, Chain
<1>5. TypeOK'
  <2>1. QueueOK' /\ SessionTypeOK'
        BY <1>1
  <2> QED BY <1>2, <2>1 DEF TypeOK, QueueOK, SessionTypeOK, QState, Byte
<1> QED BY <1>3, <1>4, <1>5

\* Every step of the session preserves the invariant.
LEMMA IndStep == IndInv /\ [Next]_vars => IndInv'
<1> SUFFICES ASSUME IndInv, [Next]_vars PROVE IndInv'
    OBVIOUS
<1>t. /\ QueueOK /\ SessionTypeOK /\ key \in {NoKey, SessionKey} /\ base \in Nat
      /\ wire \in Seq(Byte) /\ SessionInv /\ Contiguous /\ NeverWritesAfterShutdown /\ PeerDecrypts
      BY TypeSplit DEF IndInv
<1>s. SeedSize \in Nat \ {0} /\ NoKey # SessionKey
      BY WriteQueueAssumption, GateSessionAssumption DEF SeedSize, Kinds
<1>q. ASSUME WriteKept, SessionTypeOK', SessionInv', NeverWritesAfterShutdown' PROVE IndInv'
      BY <1>q, Quiet DEF IndInv
<1> USE DEF SessionTypeOK, writeVars, WriteKept
<1>1. CASE UNCHANGED vars
  <2>1. WriteKept /\ SessionTypeOK' /\ SessionInv' /\ NeverWritesAfterShutdown'
        BY <1>1, <1>t DEF vars, sessionVars, QueueOK, SessionInv, Live, Agree, KeyAgrees,
                          SeedSize, NeverWritesAfterShutdown
  <2> QED BY <1>q, <2>1
<1>2. CASE Dispatch
  <2>1. WriteKept /\ SessionTypeOK' /\ SessionInv' /\ NeverWritesAfterShutdown'
        BY <1>2, <1>t DEF Dispatch, QueueOK, SessionInv, Live, Agree, KeyAgrees,
                          SeedSize, NeverWritesAfterShutdown
  <2> QED BY <1>q, <2>1
<1>3. CASE Hup
  <2>1. WriteKept /\ SessionTypeOK' /\ SessionInv' /\ NeverWritesAfterShutdown'
        BY <1>3, <1>t DEF Hup, QueueOK, SessionInv, Live, NeverWritesAfterShutdown
  <2> QED BY <1>q, <2>1
<1>4. CASE PumpWrite
  <2>1. ~shut
        BY <1>4, <1>t DEF PumpWrite, NeverWritesAfterShutdown
  <2>2. QueueOK' /\ Contiguous' /\ (shut' # shut => writes' # <<>>)
        BY <1>4, <1>t, HandleWrite DEF PumpWrite
  <2>3. UNCHANGED <<key, base, wire, decrypted, handler, flags, struct, type, ok, asked, input>>
        /\ at' \in {"write", "read", "idle"} /\ (at' = "write" => ~shut')
    <3>1. UNCHANGED <<key, base, wire>>
          BY <1>4 DEF PumpWrite, handle_write
    <3>2. shut' => writes' = <<Head(writes)>> \o Tail(writes) \/ shut
          BY <1>4 DEF PumpWrite, handle_write, resume_write
    <3>3. Len(writes') < Len(writes) => ~shut'
      <4>1. <<Head(writes)>> \o Tail(writes) = writes
            BY <1>4, <1>t DEF PumpWrite, handle_write, QueueOK
      <4> QED BY <1>t, <2>1, <3>2, <4>1 DEF QueueOK
    <3> QED BY <1>4, <3>1, <3>3 DEF PumpWrite, AfterWrite
  <2>4. SessionTypeOK' /\ SessionInv'
        BY <1>4, <1>t, <2>1, <2>3 DEF PumpWrite, SessionInv, Live, Agree, KeyAgrees, SeedSize
  <2>5. NeverWritesAfterShutdown'
        BY <2>1, <2>2, <2>3, <1>t DEF NeverWritesAfterShutdown, QueueOK
  <2>6. PeerDecrypts'
        BY <1>t, <2>3 DEF PeerDecrypts, SeedSize, ServerSeed
  <2>7. TypeOK'
        BY <1>t, <2>2, <2>3, <2>4 DEF TypeOK, QueueOK, QState, Byte
  <2> QED BY <2>2, <2>4, <2>5, <2>6, <2>7 DEF IndInv
<1>5. CASE PumpWriteDone
  <2>1. WriteKept /\ SessionTypeOK' /\ SessionInv' /\ NeverWritesAfterShutdown'
        BY <1>5, <1>t DEF PumpWriteDone, AfterWrite, QueueOK, SessionInv, Live, Agree, KeyAgrees,
                          SeedSize, NeverWritesAfterShutdown
  <2> QED BY <1>q, <2>1
<1>6. CASE ReadPauses
  <2>1. WriteKept /\ SessionTypeOK' /\ SessionInv' /\ NeverWritesAfterShutdown'
        BY <1>6, <1>t DEF ReadPauses, QueueOK, SessionInv, Live, Agree, KeyAgrees,
                          SeedSize, NeverWritesAfterShutdown
  <2> QED BY <1>q, <2>1
<1>7. CASE PumpReadEnds \/ PumpReadUnregistered
  <2>1. WriteKept /\ SessionTypeOK' /\ SessionInv' /\ NeverWritesAfterShutdown'
        BY <1>7, <1>t DEF PumpReadEnds, PumpReadUnregistered, SessionInv, Live,
                          NeverWritesAfterShutdown
  <2> QED BY <1>q, <2>1
<1>8. CASE PumpReadGoesOn
  <2>1. WriteKept /\ SessionTypeOK' /\ SessionInv' /\ NeverWritesAfterShutdown'
        BY <1>8, <1>t DEF PumpReadGoesOn, QueueOK, SessionInv, Live, Agree, KeyAgrees,
                          SeedSize, NeverWritesAfterShutdown
  <2> QED BY <1>q, <2>1
<1>9. CASE IncomingGate \/ IncomingRefused
  <2>1. SessionTypeOK'
        BY <1>9, <1>t DEF IncomingGate, IncomingRefused, Handler, Registers, Refuses, Structs
  <2>2. WriteKept /\ NeverWritesAfterShutdown'
        BY <1>9, <1>t DEF IncomingGate, IncomingRefused, Handler, QueueOK, NeverWritesAfterShutdown
  <2>3. SessionInv'
        BY <1>9, <1>t DEF IncomingGate, IncomingRefused, Handler, Registers, Refuses, Requests,
                          ReplyTo, SessionInv, Live, Agree, KeyAgrees, SeedSize
  <2> QED BY <1>q, <2>1, <2>2, <2>3
<1>10. CASE HandshakeRefused \/ HandshakeEmpty \/ HandshakeSeed
  <2>1. SessionTypeOK'
        BY <1>10, <1>t DEF HandshakeRefused, HandshakeEmpty, HandshakeSeed, Handshake, Handler,
                           Registers, Refuses, Structs
  <2>2. WriteKept /\ NeverWritesAfterShutdown'
        BY <1>10, <1>t DEF HandshakeRefused, HandshakeEmpty, HandshakeSeed, Handshake, Handler,
                           QueueOK, NeverWritesAfterShutdown
  <2>3. SessionInv'
        BY <1>10, <1>t DEF HandshakeRefused, HandshakeEmpty, HandshakeSeed, Handshake, Handler,
                           Clear, Registers, Refuses, Requests, ReplyTo, SessionInv, Live, Agree,
                           KeyAgrees, SeedSize
  <2> QED BY <1>q, <2>1, <2>2, <2>3
<1>11. CASE YdataFails
  <2>1. WriteKept /\ SessionTypeOK' /\ SessionInv' /\ NeverWritesAfterShutdown'
        BY <1>11, <1>t DEF YdataFails, Ydata, Handler, Refuses, QueueOK, SessionInv, Live,
                           NeverWritesAfterShutdown
  <2> QED BY <1>q, <2>1
<1>12. CASE YdataKeyed
  <2>1. at = "read" /\ handler = "gate" /\ "encrypted" \notin flags /\ "wantClientSeed" \in flags
        /\ at' = "handled" /\ input' = input
        BY <1>12 DEF YdataKeyed, Ydata, Handler, Clear
  <2>2. Agree /\ key = NoKey /\ wire = <<>> /\ flags = {"wantClientSeed"}
        BY <1>t, <2>1 DEF SessionInv, Live, Agree, KeyAgrees
  <2>3. enqueue_write(ServerSeed) /\ set_crypt_key(SessionKey)
        BY <1>12 DEF YdataKeyed, ReplyInClear
  <2>4. ServerSeed \in Message /\ Size[ServerSeed.kind] = SeedSize
        BY DEF ServerSeed, Message, Kinds, SeedSize
  <2>5. /\ QueueOK' /\ Contiguous'
        /\ wire' \in Seq(Byte) /\ Len(wire') = SeedSize
        /\ \A i \in DOMAIN wire' : wire'[i].msg = ServerSeed /\ wire'[i].key = NoKey
        /\ shut' # shut => writes' # <<>>
        /\ writes # <<>> => writes' # <<>>
    <3>1. Len(wire) = 0
          BY <2>2
    <3> QED BY <1>t, <1>s, <2>2, <2>3, <2>4, <3>1, EnqueueWrite
  <2>6. key' = SessionKey /\ base' = SeedSize
        BY <2>3, <2>5 DEF set_crypt_key
  <2>7. flags' = {"encrypted", "wantMsgHeader"} /\ struct' = "msg_std_header" /\ type' = "none"
        /\ ok' = TRUE /\ UNCHANGED <<decrypted, handler, asked>>
        BY <1>12, <2>2 DEF YdataKeyed, HeaderNext, Registers
  <2>8. SessionTypeOK'
        BY <1>t, <2>1, <2>7 DEF Structs
  <2>9. SessionInv'
        BY <1>s, <2>1, <2>5, <2>6, <2>7 DEF SessionInv, Agree, KeyAgrees, SeedSize
  <2>10. PeerDecrypts'
        BY <1>s, <2>5 DEF PeerDecrypts, SeedSize, ServerSeed
  <2>11. NeverWritesAfterShutdown'
        BY <1>t, <2>1, <2>5 DEF NeverWritesAfterShutdown, QueueOK
  <2>12. TypeOK'
        BY <1>s, <2>5, <2>6, <2>8 DEF TypeOK, QueueOK, QState, Byte
  <2> QED BY <2>5, <2>9, <2>10, <2>11, <2>12 DEF IndInv
<1>13. CASE ReadMsg \/ ReadMsgRefused
  <2>1. SessionTypeOK'
        BY <1>13, <1>t DEF ReadMsg, ReadMsgRefused, Keyed, Handler, Refuses, Structs
  <2>2. WriteKept /\ NeverWritesAfterShutdown'
        BY <1>13, <1>t DEF ReadMsg, ReadMsgRefused, Keyed, Handler, QueueOK, NeverWritesAfterShutdown
  <2>3. SessionInv'
    <3>1. CASE ReadMsgRefused
          BY <3>1 DEF ReadMsgRefused, Keyed, Handler, Refuses, SessionInv, Live
    <3>2. CASE ReadMsg
      <4>1. at = "read" /\ handler = "gate" /\ "encrypted" \in flags /\ "wantMsgHeader" \in flags
            BY <3>2 DEF ReadMsg, Keyed, Handler, Clear
      <4>2. Agree /\ KeyAgrees /\ flags = {"encrypted", "wantMsgHeader"}
            BY <1>t, <4>1 DEF SessionInv, Live, Agree
      <4>3. flags' = {"encrypted"} /\ handler' = "gate" /\ struct' \in Requests /\ type' = struct'
            /\ UNCHANGED <<key, base, wire>>
            BY <3>2, <4>1, <4>2 DEF ReadMsg
      <4> QED BY <4>2, <4>3 DEF SessionInv, Agree, KeyAgrees, SeedSize
    <3> QED BY <1>13, <3>1, <3>2
  <2> QED BY <1>q, <2>1, <2>2, <2>3
<1>14. CASE DispatchMsg
  <2>1. at = "read" /\ handler = "gate" /\ "encrypted" \in flags /\ "wantMsgHeader" \notin flags
        /\ at' = "handled" /\ input' = input
        BY <1>14 DEF DispatchMsg, Keyed, Handler, Clear
  <2>2. Agree /\ KeyAgrees /\ flags = {"encrypted"} /\ type \in Requests
        BY <1>t, <2>1 DEF SessionInv, Live, Agree
  <2>3. key = SessionKey /\ base = SeedSize /\ Len(wire) >= SeedSize /\ Len(wire) \in Nat
        BY <1>t, <2>1, <2>2 DEF KeyAgrees
  <2>4. PICK id \in Ids : enqueue_write(Reply(type, id)) /\ asked' = Append(asked, <<type, id>>)
        BY <1>14 DEF DispatchMsg
  <2>5. Reply(type, id) \in Message /\ Reply(type, id) # ServerSeed
    <3>1. ReplyTo[type] \in Kinds /\ ReplyTo[type] # "encrypt_s2c"
          BY <2>2 DEF Requests, ReplyTo, Kinds
    <3> QED BY <3>1, GateSessionAssumption DEF Reply, Message, ServerSeed
  <2>6. /\ QueueOK' /\ Contiguous'
        /\ wire' \in Seq(Byte) /\ Len(wire') = Len(wire) + Size[Reply(type, id).kind]
        /\ \A i \in DOMAIN wire : wire'[i] = wire[i]
        /\ \A i \in DOMAIN wire' : i > Len(wire) =>
              wire'[i].msg = Reply(type, id) /\ wire'[i].key = SessionKey /\ wire'[i].ks = i - base
        /\ shut' # shut => writes' # <<>>
        /\ writes # <<>> => writes' # <<>>
        BY <1>t, <1>s, <2>3, <2>4, <2>5, EnqueueWrite
  <2>7. Size[Reply(type, id).kind] \in Nat
        BY <2>5, WriteQueueAssumption, GateSessionAssumption DEF Message
  <2>8. flags' = {"encrypted", "wantMsgHeader"} /\ struct' = "msg_std_header" /\ type' = "none"
        /\ ok' = TRUE /\ UNCHANGED <<decrypted, handler, key, base>>
        BY <1>14, <2>2 DEF DispatchMsg, Registers
  <2>9. SessionTypeOK'
    <3>1. asked' \in Seq(Requests \X Ids)
          BY <1>t, <2>2, <2>4
    <3> QED BY <1>t, <2>1, <2>8, <3>1 DEF Structs
  <2>10. SessionInv'
        BY <1>s, <2>1, <2>3, <2>6, <2>7, <2>8 DEF SessionInv, Agree, KeyAgrees, SeedSize
  <2>11. PeerDecrypts'
    <3> SUFFICES ASSUME NEW i \in DOMAIN wire'
                 PROVE  IF i <= SeedSize THEN wire'[i].key = NoKey /\ wire'[i].msg = ServerSeed
                        ELSE wire'[i].key = SessionKey /\ wire'[i].ks = i - SeedSize
                             /\ wire'[i].msg # ServerSeed
        BY DEF PeerDecrypts, SeedSize, ServerSeed
    <3>1. CASE i <= Len(wire)
      <4>1. i \in DOMAIN wire /\ wire'[i] = wire[i]
            BY <2>3, <2>6, <3>1
      <4> QED BY <1>t, <4>1 DEF PeerDecrypts
    <3>2. CASE i > Len(wire)
      <4>1. i > SeedSize
            BY <1>s, <2>3, <2>6, <3>2
      <4> QED BY <1>s, <2>3, <2>5, <2>6, <3>2, <4>1
    <3> QED BY <2>3, <2>6, <3>1, <3>2
  <2>12. NeverWritesAfterShutdown'
        BY <1>t, <2>1, <2>6 DEF NeverWritesAfterShutdown, QueueOK
  <2>13. TypeOK'
        BY <1>t, <2>6, <2>8, <2>9 DEF TypeOK, QueueOK, QState, Byte
  <2> QED BY <2>6, <2>10, <2>11, <2>12, <2>13 DEF IndInv
<1> QED BY <1>1, <1>2, <1>3, <1>4, <1>5, <1>6, <1>7, <1>8, <1>9, <1>10, <1>11, <1>12, <1>13, <1>14
        DEF Next, Events, Pumps, Handlers

\* The invariant holds throughout.
LEMMA Inductive == Spec => []IndInv
BY IndInit, IndStep, PTL DEF Spec

\* Every variable keeps its type (client, client_base).
THEOREM TypeCorrect == Spec => []TypeOK
<1>1. IndInv => TypeOK
      BY DEF IndInv
<1> QED BY <1>1, Inductive, PTL

\* A handler casts what was read to the struct it was read as (gatekeeper_server::read).
THEOREM CastsAreRight == Spec => []StructMatchesFlags
<1>1. IndInv => StructMatchesFlags
      BY DEF IndInv, SessionInv, Live, Agree, StructMatchesFlags
<1> QED BY <1>1, Inductive, PTL

\* Whatever is queued when the key is set, the client can decrypt (handle_ydata).
THEOREM Decryptable == Spec => []PeerDecrypts
<1>1. IndInv => PeerDecrypts
      BY DEF IndInv
<1> QED BY <1>1, Inductive, PTL

\* No byte is lost, repeated or overtaken (enqueue_write, handle_write).
THEOREM InOrder == Spec => []Contiguous
<1>1. IndInv => Contiguous
      BY DEF IndInv
<1> QED BY <1>1, Inductive, PTL

\* A failed write is the last of its event (resume_write).
THEOREM LastWrite == Spec => []NeverWritesAfterShutdown
<1>1. IndInv => NeverWritesAfterShutdown
      BY DEF IndInv
<1> QED BY <1>1, Inductive, PTL

\* Without a key nothing is asked, and who passes for encrypted without one is on
\* his way out.
ClearInv == (key = NoKey => asked = <<>>) /\ NoServiceInClear

LEMMA ClearStep == IndInv /\ ClearInv /\ [Next]_vars => ClearInv'
<1> SUFFICES ASSUME IndInv, ClearInv, [Next]_vars PROVE ClearInv'
    OBVIOUS
<1> USE DEF ClearInv, NoServiceInClear, Pretends
<1>1. CASE UNCHANGED vars
      BY <1>1 DEF vars, sessionVars, writeVars
<1>2. CASE Events
      BY <1>2 DEF Events, Dispatch, Hup, writeVars
<1>3. CASE Pumps
  <2>1. CASE PumpWrite
    <3>1. at = "write" /\ UNCHANGED <<key, wire, decrypted, flags, struct, ok, asked>>
          BY <2>1 DEF PumpWrite, handle_write
    <3>2. at' # "handled"
          BY <2>1, <3>1 DEF PumpWrite, AfterWrite
    <3>3. ~Pretends
          BY <3>1
    <3> QED BY <3>1, <3>2, <3>3
  <2>2. CASE PumpWriteDone
        BY <2>2 DEF PumpWriteDone, AfterWrite, writeVars
  <2>3. CASE ReadPauses \/ PumpReadEnds \/ PumpReadUnregistered \/ PumpReadGoesOn
        BY <2>3 DEF ReadPauses, PumpReadEnds, PumpReadUnregistered, PumpReadGoesOn, writeVars
  <2> QED BY <1>3, <2>1, <2>2, <2>3 DEF Pumps
<1>4. CASE Handlers
  <2>1. /\ "encrypted" \in flags => key = SessionKey
        /\ "encrypted" \notin flags => key = NoKey /\ wire = <<>>
        /\ at = "read" /\ SessionKey # NoKey
    <3>1. at = "read"
          BY <1>4 DEF Handlers, IncomingGate, IncomingRefused, HandshakeRefused, HandshakeEmpty, HandshakeSeed,
                      YdataFails, YdataKeyed, ReadMsg, ReadMsgRefused, DispatchMsg, Handshake, Ydata, Keyed, Handler
    <3> QED BY <3>1, GateSessionAssumption DEF IndInv, SessionInv, Live, KeyAgrees, GateSessionAssumption
  <2>2. CASE IncomingGate \/ IncomingRefused
    <3>1. Agree
          BY <2>1 DEF IndInv, SessionInv, Live
    <3>2. UNCHANGED <<key, wire, flags, asked>> /\ handler = "incoming" /\ (ok' => struct' # "none")
          BY <2>2 DEF IncomingGate, IncomingRefused, Handler, Registers, Refuses, writeVars
    <3>3. flags = {}
          BY <3>1, <3>2 DEF Agree
    <3> QED BY <3>2, <3>3
  <2>3. CASE HandshakeRefused \/ HandshakeSeed \/ YdataFails
    <3>1. /\ UNCHANGED <<key, wire, asked>> /\ (ok' => struct' # "none")
          /\ "encrypted" \notin flags /\ "encrypted" \notin flags'
          BY <2>3 DEF HandshakeRefused, HandshakeSeed, YdataFails, Handshake, Ydata, Clear, Handler, Registers,
                      Refuses, writeVars
    <3> QED BY <2>1, <3>1
  <2>4. CASE HandshakeEmpty
    <3>1. /\ UNCHANGED <<key, wire, asked, decrypted>> /\ struct' = "none" /\ at' = "handled" /\ decrypted
          /\ "encrypted" \notin flags /\ "encrypted" \in flags'
          BY <2>4 DEF HandshakeEmpty, EmptyAllowed, Handshake, Clear, Handler, writeVars
    <3> QED BY <2>1, <3>1
  <2>5. CASE YdataKeyed
    <3>1. key' = SessionKey /\ struct' # "none"
          BY <2>5 DEF YdataKeyed, ReplyInClear, set_crypt_key, Registers
    <3> QED BY <2>1, <3>1
  <2>6. CASE ReadMsg \/ ReadMsgRefused
    <3>1. key' = key /\ "encrypted" \in flags /\ (ok' => struct' # "none")
          BY <2>6 DEF ReadMsg, ReadMsgRefused, Keyed, Clear, Refuses, Requests, ReplyTo, writeVars
    <3> QED BY <2>1, <3>1
  <2>7. CASE DispatchMsg
    <3>1. key' = key /\ "encrypted" \in flags /\ struct' # "none"
          BY <2>7 DEF DispatchMsg, Keyed, Clear, Registers
    <3> QED BY <2>1, <3>1
  <2> QED BY <1>4, <2>2, <2>3, <2>4, <2>5, <2>6, <2>7 DEF Handlers
<1> QED BY <1>1, <1>2, <1>3, <1>4 DEF Next

\* Whatever the build, a connection without a key is never served, and but for the
\* empty handshake every accepted message registers the next read, so pump_read's
\* "Bug?" branch is dead in the standard build (handle_handshake, pump_read).
THEOREM NeverInClear == Spec => []NoServiceInClear
<1>1. Init => ClearInv
      BY DEF Init, ClearInv, NoServiceInClear, Pretends
<1>2. ClearInv => NoServiceInClear
      BY DEF ClearInv
<1> QED BY <1>1, <1>2, ClearStep, Inductive, PTL DEF Spec
=============================================================================
