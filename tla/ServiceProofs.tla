---------------------------- MODULE ServiceProofs -----------------------------
(* Proof that GateSession implements GateService: every step of a session is a  *)
(* step of the service or none.  It rests on the invariant of GateProofs and on *)
(* the queue holding whole messages.                                            *)
EXTENDS GateProofs, FiniteSetTheorems

\* What a step of the session is to the service it gives.
Requested == [k \in DOMAIN asked |-> asked[k][2]]
Replied == [k \in 1..Cardinality(Firsts) |-> wire[Nth(k)].msg.id]
Received == Cardinality({i \in DOMAIN sent : sent[i] \in Lasts})

\* A queued buffer s is one message of those in w.
Whole(w, s) ==
    /\ s.from < s.to /\ s.to <= Len(w)
    /\ s.to - s.from = Size[w[s.to].msg.kind]
    /\ \A i \in 1..(s.to - s.from) : w[s.from + i].msg = w[s.to].msg /\ w[s.from + i].nth = i

QueueWhole == \A i \in DOMAIN writes : Whole(wire, writes[i])

\* The places of F that are the kth of F.
Kth(F, k) == {i \in F : Cardinality({j \in F : j <= i}) = k}

Ranked(F) == \A k \in 1..Cardinality(F) : \E i \in F : Kth(F, k) = {i}

\* Every reply that has begun has an end.
Balanced == Ranked(Firsts) /\ Cardinality(Firsts) = Cardinality(Lasts)

\* A handler that refused leaves nothing to do but to end the session.
RefusalEnds == ~ok => at \in {"handled", "gone"} \/ (at = "idle" /\ shut)

ServiceInv ==
    /\ IndInv
    /\ RefusalEnds /\ QueueWhole /\ Balanced
    /\ Len(sent) <= Len(wire)

-----------------------------------------------------------------------------
(* Counting. *)

LEMMA Places ==
    ASSUME NEW n \in Nat, NEW F, F \subseteq 1..n
    PROVE  IsFiniteSet(F) /\ Cardinality(F) \in Nat
<1>1. IsFiniteSet(1..n)
      BY FS_Interval
<1> QED BY <1>1, FS_Subset, FS_CardinalityType

\* A place behind all others is the last in rank and changes no other rank.
LEMMA RankBehind ==
    ASSUME NEW n \in Nat, NEW F, F \subseteq 1..n, NEW p \in Nat, p > n, Ranked(F)
    PROVE  /\ Cardinality(F \cup {p}) = Cardinality(F) + 1
           /\ Kth(F \cup {p}, Cardinality(F) + 1) = {p}
           /\ \A k \in 1..Cardinality(F) : Kth(F \cup {p}, k) = Kth(F, k)
           /\ Ranked(F \cup {p})
<1> DEFINE G == F \cup {p}
           N == Cardinality(F)
<1>1. IsFiniteSet(F) /\ N \in Nat
      BY Places
<1>2. p \notin F
      OBVIOUS
<1>3. Cardinality(G) = N + 1
      BY <1>1, <1>2, FS_AddElement
<1>4. ASSUME NEW i \in F
      PROVE  Cardinality({j \in G : j <= i}) = Cardinality({j \in F : j <= i})
             /\ Cardinality({j \in F : j <= i}) <= N
  <2>1. {j \in G : j <= i} = {j \in F : j <= i}
        OBVIOUS
  <2>2. {j \in F : j <= i} \subseteq F
        OBVIOUS
  <2> QED BY <1>1, <2>1, <2>2, FS_Subset
<1>5. Cardinality({j \in G : j <= p}) = N + 1
  <2>1. {j \in G : j <= p} = G
    <3>1. \A j \in F : j \in 1..n
          OBVIOUS
    <3>2. \A j \in G : j <= p
          BY ONLY <3>1, n \in Nat, p \in Nat, p > n
    <3> HIDE DEF G
    <3> QED BY ONLY <3>2
  <2> QED BY <1>3, <2>1
<1>6. ASSUME NEW k \in 1..N PROVE Kth(G, k) = Kth(F, k)
  <2>1. k # N + 1
        BY <1>1
  <2>2. \A i \in F : Cardinality({j \in G : j <= i}) = Cardinality({j \in F : j <= i})
        BY <1>4
  <2>3. G = F \cup {p} /\ Cardinality({j \in G : j <= p}) # k
        BY <1>5, <2>1
  <2> HIDE DEF G, N
  <2> QED BY ONLY <2>2, <2>3 DEF Kth
<1>7. Kth(G, N + 1) = {p}
  <2>1. \A i \in F : Cardinality({j \in G : j <= i}) # N + 1
    <3> SUFFICES ASSUME NEW i \in F PROVE Cardinality({j \in G : j <= i}) # N + 1
        OBVIOUS
    <3>1. IsFiniteSet({j \in F : j <= i})
      <4>1. {j \in F : j <= i} \subseteq F
            OBVIOUS
      <4> QED BY <4>1, <1>1, FS_Subset
    <3>2. Cardinality({j \in F : j <= i}) \in Nat
          BY <3>1, FS_CardinalityType
    <3> QED BY <1>1, <1>4, <3>2
  <2>2. G = F \cup {p}
        OBVIOUS
  <2> HIDE DEF G, N
  <2> QED BY <1>5, <2>1, <2>2 DEF Kth
<1>8. Ranked(G)
  <2> SUFFICES ASSUME NEW k \in 1..(N + 1) PROVE \E i \in G : Kth(G, k) = {i}
      BY <1>3 DEF Ranked
  <2>1. CASE k = N + 1
        BY <1>7, <2>1
  <2>2. CASE k # N + 1
    <3>1. k \in 1..N
          BY <1>1, <2>2
    <3>2. \E i \in F : Kth(F, k) = {i}
          BY <3>1 DEF Ranked
    <3> QED BY <1>6, <3>1, <3>2
  <2> QED BY <2>1, <2>2
<1> QED BY <1>3, <1>6, <1>7, <1>8

LEMMA EmptyRanks == Ranked({})
<1>1. 1..Cardinality({}) = {}
      BY FS_EmptySet
<1> QED BY <1>1 DEF Ranked

-----------------------------------------------------------------------------
(* What is written. *)

\* m is put on the wire behind all else.
Behind(m) ==
    /\ Len(wire') = Len(wire) + Size[m.kind]
    /\ \A i \in DOMAIN wire : wire'[i] = wire[i]
    /\ \A i \in 1..Size[m.kind] : wire'[Len(wire) + i].msg = m /\ wire'[Len(wire) + i].nth = i

LEMMA SizeType == \A m \in Message : Size[m.kind] \in Nat \ {0}
BY WriteQueueAssumption, GateSessionAssumption DEF Message

LEMMA EnqueuedBehind ==
    ASSUME wire \in Seq(Byte), NEW m \in Message, enqueue_write(m)
    PROVE  Behind(m)
<1> DEFINE n == Size[m.kind]
           e == Encrypted(m)
           ks(i) == IF key = NoKey THEN 0 ELSE Len(wire) - base + i
           b(i) == [msg |-> m, nth |-> i, key |-> key, ks |-> ks(i)]
<1>1. n \in Nat \ {0} /\ Len(wire) \in Nat
      BY SizeType
<1>2. e = [i \in 1..n |-> b(i)] /\ wire' = wire \o e
      BY DEF Encrypted, enqueue_write
<1>3. \A i : b(i).msg = m /\ b(i).nth = i
      OBVIOUS
<1> HIDE DEF ks
<1> HIDE DEF b
<1>4. e \in Seq({b(i) : i \in 1..n}) /\ Len(e) = n /\ \A i \in 1..n : e[i] = b(i)
  <2>1. e \in [1..n -> {b(i) : i \in 1..n}] /\ \A i \in 1..n : e[i] = b(i)
        BY <1>2
  <2> HIDE DEF e, n
  <2> QED BY ONLY <1>1, <2>1
<1> HIDE DEF e
<1>5. /\ Len(wire') = Len(wire) + n
      /\ \A i \in 1..Len(wire) : wire'[i] = wire[i]
      /\ \A i \in 1..n : wire'[Len(wire) + i] = e[i]
  <2> HIDE DEF n
  <2>1. PICK T : wire \in Seq(T) /\ e \in Seq(T)
    <3>1. wire \in Seq(Byte \cup {b(i) : i \in 1..n}) /\ e \in Seq(Byte \cup {b(i) : i \in 1..n})
          BY <1>4
    <3> QED BY ONLY <3>1
  <2>2. /\ Len(wire \o e) = Len(wire) + Len(e)
        /\ \A i \in 1..(Len(wire) + Len(e)) :
               (wire \o e)[i] = IF i <= Len(wire) THEN wire[i] ELSE e[i - Len(wire)]
        BY <2>1, ConcatProperties, Zenon
  <2>3. /\ \A i \in 1..Len(wire) : i \in 1..(Len(wire) + Len(e)) /\ i <= Len(wire)
        /\ \A i \in 1..n : /\ Len(wire) + i \in 1..(Len(wire) + Len(e)) /\ ~(Len(wire) + i <= Len(wire))
                          /\ (Len(wire) + i) - Len(wire) = i
        BY ONLY <1>1, <1>4
  <2>4. wire' = wire \o e /\ Len(e) = n
        BY ONLY <1>2, <1>4
  <2> QED BY ONLY <2>2, <2>3, <2>4
<1>6. ASSUME NEW i \in 1..n PROVE wire'[Len(wire) + i].msg = m /\ wire'[Len(wire) + i].nth = i
  <2>1. wire'[Len(wire) + i] = b(i)
        BY <1>4, <1>5
  <2> QED BY <1>3, <2>1
<1> HIDE DEF n
<1>7. DOMAIN wire = 1..Len(wire)
      OBVIOUS
<1> QED BY <1>5, <1>6, <1>7 DEF Behind, n

\* Where replies begin and end does not change; a reply behind begins and ends
\* behind, and the server's seed is none.
LEMMA MarksBehind ==
    ASSUME wire \in Seq(Byte), wire' \in Seq(Byte), NEW m \in Message, Behind(m)
    PROVE  /\ m = ServerSeed => Firsts' = Firsts /\ Lasts' = Lasts
           /\ m # ServerSeed => Firsts' = Firsts \cup {Len(wire) + 1} /\ Lasts' = Lasts \cup {Len(wire')}
<1> DEFINE n == Size[m.kind]
<1>1. n \in Nat \ {0} /\ Len(wire) \in Nat /\ DOMAIN wire = 1..Len(wire) /\ DOMAIN wire' = 1..Len(wire')
      /\ Len(wire') = Len(wire) + n
      BY SizeType DEF Behind
<1>2. \A i \in DOMAIN wire : i \in DOMAIN wire' /\ wire'[i] = wire[i]
      BY <1>1 DEF Behind
<1>3. \A i \in DOMAIN wire' : i \notin DOMAIN wire =>
          i - Len(wire) \in 1..n /\ wire'[i].msg = m /\ wire'[i].nth = i - Len(wire)
  <2> SUFFICES ASSUME NEW i \in DOMAIN wire', i \notin DOMAIN wire
               PROVE  i - Len(wire) \in 1..n /\ wire'[i].msg = m /\ wire'[i].nth = i - Len(wire)
      OBVIOUS
  <2>1. i - Len(wire) \in 1..n /\ Len(wire) + (i - Len(wire)) = i
        BY <1>1
  <2> QED BY <2>1 DEF Behind
<1>4. ServerSeed' = ServerSeed
      BY DEF ServerSeed
<1>5. Len(wire) + 1 \in DOMAIN wire' /\ Len(wire) + 1 \notin DOMAIN wire
      /\ Len(wire') \in DOMAIN wire' /\ Len(wire') \notin DOMAIN wire
      BY <1>1
<1>6. \A i \in DOMAIN wire' : i \notin DOMAIN wire =>
          /\ wire'[i].nth = 1 <=> i = Len(wire) + 1
          /\ wire'[i].nth = n <=> i = Len(wire')
          /\ wire'[i].msg = m
      BY <1>1, <1>3
<1> QED BY <1>2, <1>4, <1>5, <1>6 DEF Firsts, Lasts

\* One more reply on the wire is one more reply produced, the last.
LEMMA ReplyBehind ==
    ASSUME wire \in Seq(Byte), wire' \in Seq(Byte), Balanced,
           NEW m \in Message, m # ServerSeed, Behind(m)
    PROVE  Balanced' /\ Replied' = Append(Replied, m.id)
<1> DEFINE L == Len(wire)
           F == Firsts
<1>0. PICK N : N = Cardinality(F)
      OBVIOUS
<1>1. /\ L \in Nat /\ L + 1 \in Nat /\ Len(wire') \in Nat /\ Len(wire') > L
      /\ DOMAIN wire = 1..L /\ F \subseteq 1..L /\ Lasts \subseteq 1..L
  <2>1. L \in Nat /\ DOMAIN wire = 1..L /\ Len(wire') = L + Size[m.kind]
        BY DEF Behind
  <2> QED BY <2>1, SizeType DEF Firsts, Lasts
<1>2. Firsts' = F \cup {L + 1} /\ Lasts' = Lasts \cup {Len(wire')}
      BY MarksBehind
<1>3. Ranked(F) /\ N = Cardinality(Lasts) /\ N \in Nat
      BY <1>0, <1>1, Places DEF Balanced
<1>4. /\ Cardinality(Firsts') = N + 1
      /\ Kth(Firsts', N + 1) = {L + 1}
      /\ \A k \in 1..N : Kth(Firsts', k) = Kth(F, k)
      /\ Ranked(Firsts')
  <2>1. L + 1 > L
        BY <1>1
  <2>2. /\ Cardinality(F \cup {L + 1}) = N + 1
        /\ Kth(F \cup {L + 1}, N + 1) = {L + 1}
        /\ \A k \in 1..N : Kth(F \cup {L + 1}, k) = Kth(F, k)
        /\ Ranked(F \cup {L + 1})
    <3> HIDE DEF F, L
    <3>1. L \in Nat /\ F \subseteq 1..L /\ L + 1 \in Nat /\ L + 1 > L /\ Ranked(F) /\ Cardinality(F) = N
          BY <1>0, <1>1, <1>3, <2>1
    <3>2. PICK p : p = L + 1
          OBVIOUS
    <3>3. p \in Nat /\ p > L
          BY <3>1, <3>2
    <3>4. /\ Cardinality(F \cup {p}) = Cardinality(F) + 1
          /\ Kth(F \cup {p}, Cardinality(F) + 1) = {p}
          /\ \A k \in 1..Cardinality(F) : Kth(F \cup {p}, k) = Kth(F, k)
          /\ Ranked(F \cup {p})
          BY <3>1, <3>3, RankBehind
    <3> QED BY <3>1, <3>2, <3>4
  <2> HIDE DEF F, L
  <2> QED BY <1>2, <2>2
<1>5. Cardinality(Lasts') = N + 1
  <2>1. IsFiniteSet(Lasts)
        BY <1>1, Places
  <2>2. Len(wire') \notin Lasts
        BY <1>1
  <2> QED BY <1>2, <1>3, <2>1, <2>2, FS_AddElement
<1>6. ASSUME NEW k \in 1..N
      PROVE  wire'[Nth(k)'].msg.id = wire[Nth(k)].msg.id
  <2>1. PICK i \in F : Kth(F, k) = {i}
        BY <1>0, <1>3 DEF Ranked
  <2>2. Nth(k) = i
        BY <2>1 DEF Nth, Kth
  <2>3. Kth(Firsts', k) = {i}
        BY <1>4, <2>1
  <2>4. Nth(k)' = i
        BY <2>3 DEF Nth, Kth
  <2>5. i \in DOMAIN wire /\ wire'[i] = wire[i]
        BY <1>1 DEF Behind
  <2> QED BY <2>2, <2>4, <2>5
<1>7. wire'[Nth(N + 1)'].msg.id = m.id
  <2>1. Nth(N + 1)' = L + 1
        BY <1>4 DEF Nth, Kth
  <2>2. 1 \in 1..Size[m.kind]
        BY SizeType
  <2> QED BY <2>1, <2>2 DEF Behind
<1>8. Balanced'
      BY <1>3, <1>4, <1>5 DEF Balanced
<1>9. Replied' = Append(Replied, m.id)
  <2>1. Replied' = [k \in 1..(N + 1) |-> wire'[Nth(k)'].msg.id]
        BY <1>4 DEF Replied
  <2> DEFINE r == [k \in 1..N |-> wire[Nth(k)].msg.id]
             w(k) == wire'[Nth(k)'].msg.id
  <2>2. r \in Seq({r[k] : k \in 1..N}) /\ Len(r) = N /\ Replied = r
    <3>1. r \in [1..N -> {r[k] : k \in 1..N}] /\ Replied = r
          BY <1>0 DEF Replied
    <3>2. PICK g, V : g = r /\ V = {r[k] : k \in 1..N}
          OBVIOUS
    <3>3. g \in Seq(V) /\ Len(g) = N
      <4>1. g \in [1..N -> V]
            BY <3>1, <3>2
      <4> QED BY ONLY <1>3, <4>1
    <3> HIDE DEF r
    <3> QED BY <3>1, <3>2, <3>3
  <2>3. \A k \in 1..N : w(k) = r[k]
        BY <1>6
  <2>4. w(N + 1) = m.id
        BY <1>7
  <2>5. Replied' = [k \in 1..(N + 1) |-> w(k)]
        BY <2>1
  <2> HIDE DEF r, w
  <2>6. [k \in 1..(N + 1) |-> w(k)] = Append(r, m.id)
        BY ONLY <1>3, <2>2, <2>3, <2>4
  <2> QED BY <2>2, <2>5, <2>6
<1> QED BY <1>8, <1>9

\* The server's seed is no reply.
LEMMA SeedBehind ==
    ASSUME wire \in Seq(Byte), wire' \in Seq(Byte), Balanced, Behind(ServerSeed)
    PROVE  Balanced' /\ Replied' = Replied
<1>1. ServerSeed \in Message
      BY DEF ServerSeed, Message, Kinds
<1>2. Firsts' = Firsts /\ Lasts' = Lasts
      BY <1>1, MarksBehind
<1>3. Balanced'
      BY <1>2 DEF Balanced
<1>4. Firsts \subseteq DOMAIN wire
      BY DEF Firsts
<1>5. ASSUME NEW k \in 1..Cardinality(Firsts)
      PROVE  wire'[Nth(k)'].msg.id = wire[Nth(k)].msg.id
  <2>1. PICK i \in Firsts : Kth(Firsts, k) = {i}
        BY DEF Balanced, Ranked
  <2>2. Nth(k) = i /\ Nth(k)' = i
        BY <1>2, <2>1 DEF Nth, Kth
  <2>3. wire'[i] = wire[i]
        BY <1>4 DEF Behind
  <2> QED BY <2>2, <2>3
<1>6. Replied' = Replied
  <2> DEFINE v(k) == wire[Nth(k)].msg.id
             w(k) == wire'[Nth(k)'].msg.id
             N == Cardinality(Firsts)
  <2>1. Replied = [k \in 1..N |-> v(k)] /\ Replied' = [k \in 1..N |-> w(k)]
        BY <1>2 DEF Replied
  <2>2. \A k \in 1..N : w(k) = v(k)
        BY <1>5
  <2> HIDE DEF v, w, N
  <2> QED BY <2>1, <2>2
<1> QED BY <1>3, <1>6

-----------------------------------------------------------------------------
(* What is sent. *)

\* Of a message queued, at most its last byte ends a reply.
LEMMA OneEnd ==
    ASSUME wire \in Seq(Byte), NEW s \in QState, Whole(wire, s),
           NEW i \in (s.from + 1)..s.to, i \in Lasts
    PROVE  i = s.to
<1>1. s.from \in Nat /\ s.to \in Nat /\ i \in Nat
      BY DEF QState
<1>2. i - s.from \in 1..(s.to - s.from) /\ s.from + (i - s.from) = i
      BY <1>1
<1>3. wire[i].msg = wire[s.to].msg /\ wire[i].nth = i - s.from
      BY <1>2 DEF Whole
<1>4. i - s.from = s.to - s.from
      BY <1>3 DEF Whole, Lasts
<1> QED BY <1>1, <1>4

\* The bytes sent are the first of the wire, so the ends among them are those up to there.
LEMMA EndsSent ==
    ASSUME NEW n \in Nat, NEW L, L \subseteq 1..n, NEW q \in Seq(Nat), Len(q) <= n,
           \A i \in DOMAIN q : q[i] = i
    PROVE  \A i : i \in DOMAIN q /\ q[i] \in L <=> i \in L /\ i <= Len(q)
<1>1. Len(q) \in Nat /\ DOMAIN q = 1..Len(q)
      OBVIOUS
<1>2. \A i \in L : i \in 1..n
      OBVIOUS
<1>3. \A i : i \in DOMAIN q /\ q[i] \in L => i \in L /\ i <= Len(q)
      BY <1>1
<1>4. \A i : i \in L /\ i <= Len(q) => i \in DOMAIN q /\ q[i] \in L
      BY <1>1, <1>2
<1> QED BY <1>3, <1>4

\* Sending more than a places, and not more than up to e, where the only end may be.
LEMMA Sending ==
    ASSUME NEW n \in Nat, NEW L, L \subseteq 1..n, NEW e \in 1..n, NEW a \in 0..(e - 1), NEW b \in a..e,
           \A i \in L : i > a /\ i <= e => i = e
    PROVE  LET A == Cardinality({i \in L : i <= a})
               B == Cardinality({i \in L : i <= b})
           IN  /\ A \in Nat
               /\ IF b = e /\ e \in L THEN B = A + 1 ELSE B = A
               /\ e \in L => A < Cardinality(L)
<1> DEFINE S == {i \in L : i <= a}
           T == {i \in L : i <= b}
<1>1. S \subseteq L
      OBVIOUS
<1>2. IsFiniteSet(L) /\ IsFiniteSet(S) /\ Cardinality(S) \in Nat /\ Cardinality(L) \in Nat
  <2>1. S \subseteq 1..n
        OBVIOUS
  <2> HIDE DEF S
  <2> QED BY <2>1, Places
<1>3. b = e /\ e \in L => T = S \cup {e}
  <2> SUFFICES ASSUME b = e, e \in L PROVE T = S \cup {e}
      OBVIOUS
  <2>1. ASSUME NEW i \in L PROVE i <= b <=> i <= a \/ i = e
    <3>1. i \in Nat /\ a \in Nat /\ e \in Nat /\ a < e
          OBVIOUS
    <3>2. i > a /\ i <= e => i = e
          OBVIOUS
    <3> QED BY ONLY <3>1, <3>2, b = e
  <2> QED BY <2>1
<1>4. ~(b = e /\ e \in L) => T = S
  <2> SUFFICES ASSUME ~(b = e /\ e \in L) PROVE T = S
      OBVIOUS
  <2>1. ASSUME NEW i \in L PROVE i <= b <=> i <= a
    <3>1. i \in Nat /\ a \in Nat /\ b \in Nat /\ e \in Nat /\ a <= b /\ b <= e /\ (i = e => b # e)
          OBVIOUS
    <3>2. i > a /\ i <= e => i = e
          OBVIOUS
    <3> QED BY ONLY <3>1, <3>2
  <2> QED BY <2>1
<1>5. e \notin S
      OBVIOUS
<1> HIDE DEF S, T
<1>6. e \in L => Cardinality(S) < Cardinality(L)
  <2>1. S \in SUBSET L /\ (e \in L => S # L)
        BY <1>1, <1>5
  <2>2. Cardinality(S) <= Cardinality(L) /\ (Cardinality(L) = Cardinality(S) => L = S)
        BY <1>2, <2>1, FS_Subset
  <2> QED BY <1>2, <2>1, <2>2
<1>7. Cardinality(S \cup {e}) = Cardinality(S) + 1
      BY <1>2, <1>5, FS_AddElement
<1>8. /\ Cardinality(S) \in Nat
      /\ IF b = e /\ e \in L THEN Cardinality(T) = Cardinality(S) + 1 ELSE Cardinality(T) = Cardinality(S)
      /\ e \in L => Cardinality(S) < Cardinality(L)
      BY <1>2, <1>3, <1>4, <1>6, <1>7
<1> QED BY <1>8 DEF S, T

\* What resume_write leaves in the queue are whole messages; it sends none of the next.
LEMMA ResumeWhole ==
    ASSUME NEW w, NEW s \in QState, NEW rest \in Seq(QState), sent \in Seq(Nat),
           s.from + s.offs = Len(sent), Left(s) \in Nat \ {0},
           Whole(w, s), \A i \in DOMAIN rest : Whole(w, rest[i]),
           resume_write(s, rest)
    PROVE  /\ \A i \in DOMAIN writes' : Whole(w, writes'[i])
           /\ Len(sent) < s.to /\ Len(sent') \in Len(sent)..s.to
           /\ shut' = shut \/ (shut' = TRUE /\ sent' = sent)
<1>0. s.from \in Nat /\ s.to \in Nat /\ s.offs \in Nat /\ Len(sent) \in Nat
      /\ s.to - Len(sent) = Left(s)
      BY DEF QState, Left
<1>1. ASSUME NEW t \in QState, Whole(w, t), writes' = <<t>> \o rest
      PROVE  \A i \in DOMAIN writes' : Whole(w, writes'[i])
  <2> SUFFICES ASSUME NEW i \in DOMAIN writes' PROVE Whole(w, writes'[i])
      OBVIOUS
  <2>1. Fronted(QState, t, rest, writes')
    <3>1. Fronted(QState, t, rest, <<t>> \o rest)
          BY Fronts, Zenon
    <3> QED BY ONLY <1>1, <3>1
  <2>2. /\ writes' \in Seq(QState) /\ writes'[1] = t
        /\ \A k \in 2..Len(writes') : k - 1 \in 1..Len(rest) /\ writes'[k] = rest[k - 1]
        BY ONLY <2>1, Zenon DEF Fronted
  <2>3. CASE i = 1
        BY <1>1, <2>2, <2>3, Zenon
  <2>4. CASE i # 1
    <3>1. i \in 2..Len(writes')
      <4>1. i \in 1..Len(writes') /\ Len(writes') \in Nat
            BY <2>2
      <4> QED BY ONLY <2>4, <4>1
    <3>2. i - 1 \in DOMAIN rest /\ writes'[i] = rest[i - 1]
      <4>1. DOMAIN rest = 1..Len(rest)
            OBVIOUS
      <4> QED BY ONLY <2>2, <3>1, <4>1
    <3> QED BY <3>2, Zenon
  <2> QED BY <2>3, <2>4
<1>l. Len(sent) < s.to
      BY ONLY <1>0, Left(s) \in Nat \ {0}
<1>2. CASE shut' = TRUE /\ writes' = <<s>> \o rest /\ sent' = sent
  <2>1. \A i \in DOMAIN writes' : Whole(w, writes'[i])
        BY <1>1, <1>2
  <2>2. Len(sent') \in Len(sent)..s.to
        BY ONLY <1>0, <1>l, <1>2
  <2> QED BY ONLY <1>2, <1>l, <2>1, <2>2
<1>3. ASSUME NEW n \in 0..Left(s), sent' = sent \o Chunk(s, n), writes' = Remaining(s, n) \o rest,
             UNCHANGED shut
      PROVE  /\ \A i \in DOMAIN writes' : Whole(w, writes'[i])
             /\ Len(sent') \in Len(sent)..s.to
  <2>1. Len(sent') = Len(sent) + n
    <3> DEFINE c == Chunk(s, n)
    <3>1. c \in [1..n -> Nat] /\ n \in Nat
      <4>1. n \in Nat /\ s.from + s.offs \in Nat
            BY <1>0
      <4>2. \A i \in 1..n : s.from + s.offs + i \in Nat
            BY ONLY <4>1
      <4> QED BY ONLY <4>1, <4>2 DEF Chunk
    <3> HIDE DEF c
    <3>2. c \in Seq(Nat) /\ Len(c) = n
          BY <3>1
    <3>3. sent' = sent \o c
          BY <1>3 DEF c
    <3> QED BY <3>2, <3>3, ConcatProperties
  <2>2. Len(sent') \in Len(sent)..s.to
    <3>1. n \in 0..Left(s)
          OBVIOUS
    <3> QED BY ONLY <1>0, <2>1, <3>1, Left(s) \in Nat \ {0}
  <2>3. CASE n = Left(s)
    <3>1. writes' = rest
          BY <1>3, <2>3 DEF Remaining
    <3> QED BY <2>2, <3>1
  <2>4. CASE n # Left(s)
    <3> DEFINE t == State(s.from, s.to, s.offs + n)
    <3>1. t \in QState /\ t.from = s.from /\ t.to = s.to
      <4>1. s.from \in Nat /\ s.to \in Nat /\ s.offs + n \in Nat
            BY <1>0
      <4> QED BY ONLY <4>1 DEF State, QState
    <3>2. Whole(w, t)
      <4> HIDE DEF t
      <4> QED BY ONLY <3>1, Whole(w, s) DEF Whole
    <3>3. writes' = <<t>> \o rest
          BY <1>3, <2>4 DEF Remaining
    <3> HIDE DEF t
    <3> QED BY <1>1, <2>2, <3>1, <3>2, <3>3
  <2> QED BY <2>3, <2>4
<1>4. CASE \E n \in 0..Left(s) : sent' = sent \o Chunk(s, n) /\ writes' = Remaining(s, n) \o rest /\ UNCHANGED shut
  <2>1. PICK n \in 0..Left(s) : sent' = sent \o Chunk(s, n) /\ writes' = Remaining(s, n) \o rest /\ UNCHANGED shut
        BY <1>4
  <2>2. /\ \A i \in DOMAIN writes' : Whole(w, writes'[i])
        /\ Len(sent') \in Len(sent)..s.to
        BY <1>3, <2>1
  <2> QED BY ONLY <1>l, <2>1, <2>2
<1> QED BY <1>2, <1>4 DEF resume_write

-----------------------------------------------------------------------------
(* What the service may do. *)

Kept == Requested' = Requested /\ Replied' = Replied /\ Received' = Received

LEMMA Stutters == Phase' = Phase /\ Kept => [Service!Next]_(Service!serviceVars)
BY DEF Kept, Requested, Replied, Received, Service!serviceVars

LEMMA Ends == Phase' = "ended" /\ Kept => [Service!Next]_(Service!serviceVars)
BY DEF Kept, Requested, Replied, Received, Service!Next, Service!End

LEMMA Advances == Service!Following(Phase, Phase') /\ Kept => [Service!Next]_(Service!serviceVars)
BY DEF Kept, Requested, Replied, Received, Service!Next, Service!Advance

LEMMA Receives ==
    /\ Phase # "ended" /\ Phase' = Phase /\ Requested' = Requested /\ Replied' = Replied
    /\ Received < Len(Replied) /\ Received' = Received + 1
    => [Service!Next]_(Service!serviceVars)
BY DEF Requested, Replied, Received, Service!Next, Service!Receive

LEMMA Serves ==
    ASSUME Phase = "serving", Phase' = Phase,
           NEW t \in Ids, Requested' = Append(Requested, t), Replied' = Append(Replied, t),
           Received' = Received \/ (Received = Len(Replied) /\ Received' = Received + 1)
    PROVE  [Service!Next]_(Service!serviceVars)
BY DEF Requested, Replied, Received, Service!Next, Service!Serve

-----------------------------------------------------------------------------
(* Every step of the session is one of the service. *)

LEMMA MarksIn ==
    ASSUME wire \in Seq(Byte)
    PROVE  Len(wire) \in Nat /\ Firsts \subseteq 1..Len(wire) /\ Lasts \subseteq 1..Len(wire)
BY DEF Firsts, Lasts

LEMMA RepliedLength ==
    ASSUME wire \in Seq(Byte), Balanced
    PROVE  Len(Replied) = Cardinality(Lasts)
<1>1. Cardinality(Firsts) \in Nat /\ Cardinality(Firsts) = Cardinality(Lasts)
      BY MarksIn, Places DEF Balanced
<1> DEFINE v(k) == wire[Nth(k)].msg.id
           N == Cardinality(Firsts)
<1>2. Replied = [k \in 1..N |-> v(k)]
      BY DEF Replied
<1> HIDE DEF v, N
<1>3. Len([k \in 1..N |-> v(k)]) = N
      BY ONLY <1>1 DEF N
<1> QED BY <1>1, <1>2, <1>3 DEF N

\* Most steps write nothing.
LEMMA NothingWritten ==
    ASSUME ServiceInv, UNCHANGED <<wire, writes, sent>>
    PROVE  /\ QueueWhole' /\ Balanced' /\ Len(sent') <= Len(wire')
           /\ Replied' = Replied /\ Received' = Received
<1>1. QueueWhole' /\ Len(sent') <= Len(wire')
      BY DEF ServiceInv, QueueWhole, Whole
<1>2. Firsts' = Firsts /\ Lasts' = Lasts
      BY DEF Firsts, Lasts, ServerSeed
<1>3. Balanced'
      BY <1>2 DEF ServiceInv, Balanced
<1>4. Received' = Received
      BY <1>2 DEF Received
<1>5. Replied' = Replied
      BY <1>2 DEF Replied, Nth
<1> QED BY <1>1, <1>3, <1>4, <1>5

QuietNext ==
    \/ Events \/ PumpWriteDone \/ ReadPauses \/ PumpReadEnds \/ PumpReadUnregistered \/ PumpReadGoesOn
    \/ IncomingGate \/ IncomingRefused
    \/ HandshakeRefused \/ HandshakeEmpty \/ HandshakeSeed \/ YdataFails
    \/ ReadMsg \/ ReadMsgRefused \/ UNCHANGED vars

LEMMA QuietSteps ==
    ASSUME ServiceInv, IndInv', QuietNext
    PROVE  ServiceInv' /\ [Service!Next]_(Service!serviceVars)
<1>1. UNCHANGED <<wire, writes, sent, asked>>
      BY DEF QuietNext, Events, Dispatch, Hup, PumpWriteDone, ReadPauses, PumpReadEnds,
             PumpReadUnregistered, PumpReadGoesOn, IncomingGate, IncomingRefused, HandshakeRefused,
             HandshakeEmpty, HandshakeSeed, YdataFails, ReadMsg, ReadMsgRefused, vars, writeVars,
             sessionVars
<1>2. /\ QueueWhole' /\ Balanced' /\ Len(sent') <= Len(wire')
      /\ Kept
  <2>1. Requested' = Requested
        BY <1>1 DEF Requested
  <2> QED BY <1>1, <2>1, NothingWritten DEF Kept
<1>3. RefusalEnds /\ TypeOK /\ SessionInv /\ NeverWritesAfterShutdown
      BY DEF ServiceInv, IndInv
<1>4. SessionKey # NoKey
      BY GateSessionAssumption
<1>5. RefusalEnds'
      BY <1>3 DEF RefusalEnds, TypeOK, QuietNext, Events, Dispatch, Hup, PumpWriteDone, AfterWrite,
             ReadPauses, PumpReadEnds, PumpReadUnregistered, PumpReadGoesOn, IncomingGate,
             IncomingRefused, HandshakeRefused, HandshakeEmpty, HandshakeSeed, Handshake, Handler,
             Registers, Refuses, YdataFails, Ydata, ReadMsg, Keyed, ReadMsgRefused, vars, sessionVars,
             writeVars
<1>6. [Service!Next]_(Service!serviceVars)
  <2>1. CASE Dispatch \/ PumpWriteDone \/ PumpReadGoesOn \/ UNCHANGED vars
    <3>1. Phase' = Phase
      <4>1. UNCHANGED <<handler, key, flags, ok, shut>>
            BY <2>1 DEF Dispatch, PumpWriteDone, PumpReadGoesOn, vars, sessionVars, writeVars
      <4>2. Ended' = Ended
        <5>1. CASE Dispatch
              BY <1>3, <5>1 DEF RefusalEnds, Dispatch, writeVars, Ended
        <5>2. CASE PumpWriteDone
              BY <1>3, <5>2 DEF RefusalEnds, PumpWriteDone, AfterWrite, writeVars, Ended,
                 NeverWritesAfterShutdown
        <5>3. CASE PumpReadGoesOn
              BY <1>3, <5>3 DEF RefusalEnds, PumpReadGoesOn, writeVars, Ended
        <5>4. CASE UNCHANGED vars
              BY <5>4 DEF vars, sessionVars, writeVars, Ended
        <5> QED BY <2>1, <5>1, <5>2, <5>3, <5>4
      <4> QED BY <4>1, <4>2 DEF Phase
    <3> QED BY <1>2, <3>1, Stutters
  <2>2. CASE Hup \/ PumpReadEnds \/ PumpReadUnregistered \/ IncomingRefused \/ HandshakeRefused
             \/ YdataFails \/ ReadMsgRefused
    <3>1. Phase' = "ended"
          BY <2>2 DEF Hup, PumpReadEnds, PumpReadUnregistered, IncomingRefused, HandshakeRefused,
             YdataFails, ReadMsgRefused, Refuses, Phase, Ended
    <3> QED BY <1>2, <3>1, Ends
  <2>3. CASE ReadPauses
    <3>1. Phase' = "ended" \/ Phase' = Phase
          BY <1>3, <2>3 DEF ReadPauses, TypeOK, Phase, Ended
    <3> QED BY <1>2, <3>1, Ends, Stutters
  <2>4. CASE IncomingGate
    <3>1. ok = TRUE /\ ok' = TRUE /\ at = "read" /\ at' = "handled" /\ handler = "incoming"
          /\ handler' = "gate" /\ key' = key /\ flags' = flags
          BY <1>3, <2>4 DEF IncomingGate, Handler, Registers, RefusalEnds, TypeOK, writeVars
    <3>2. flags = {} /\ key = NoKey
          BY <1>3, <3>1 DEF SessionInv, Live, Agree, KeyAgrees
    <3>3. Phase = "greeting" /\ Phase' = "handshake"
          BY <3>1, <3>2 DEF Phase, Ended
    <3> QED BY <1>2, <3>3, Advances DEF Service!Following
  <2>5. CASE HandshakeEmpty \/ HandshakeSeed
    <3>1. ok = TRUE /\ ok' = TRUE /\ at = "read" /\ at' = "handled" /\ handler = "gate"
          /\ handler' = "gate" /\ key' = key /\ "wantClientSeed" \notin flags
          /\ "encrypted" \notin flags
          BY <1>3, <2>5 DEF HandshakeEmpty, HandshakeSeed, Handshake, Handler, Clear, Registers,
             RefusalEnds, TypeOK, writeVars
    <3>2. key = NoKey
          BY <1>3, <3>1 DEF SessionInv, Live, KeyAgrees
    <3>3. Phase = "handshake" /\ Phase' \in {"handshake", "seed"}
          BY <3>1, <3>2 DEF Phase, Ended
    <3> QED BY <1>2, <3>3, Advances, Stutters DEF Service!Following
  <2>6. CASE ReadMsg
    <3>1. ok = TRUE /\ ok' = TRUE /\ at = "read" /\ at' = "handled" /\ handler' = handler
          /\ key' = key /\ "encrypted" \in flags
          BY <1>3, <2>6 DEF ReadMsg, Keyed, Handler, Clear, RefusalEnds, TypeOK, writeVars
    <3>2. key # NoKey
          BY <1>3, <1>4, <3>1 DEF SessionInv, Live, KeyAgrees
    <3>3. Phase' = Phase
          BY <3>1, <3>2 DEF Phase, Ended
    <3> QED BY <1>2, <3>3, Stutters
  <2> QED BY <2>1, <2>2, <2>3, <2>4, <2>5, <2>6 DEF QuietNext, Events
<1> QED BY <1>2, <1>5, <1>6 DEF ServiceInv

\* Received counts ends of replies among the first bytes of the wire.
LEMMA ReceivedUpTo ==
    ASSUME wire \in Seq(Byte), sent \in Seq(Nat), Len(sent) <= Len(wire),
           \A i \in DOMAIN sent : sent[i] = i
    PROVE  Received = Cardinality({i \in Lasts : i <= Len(sent)})
<1>1. Len(wire) \in Nat /\ Lasts \subseteq 1..Len(wire)
      BY MarksIn
<1>2. \A i : i \in DOMAIN sent /\ sent[i] \in Lasts <=> i \in Lasts /\ i <= Len(sent)
      BY <1>1, EndsSent
<1>3. {i \in DOMAIN sent : sent[i] \in Lasts} = {i \in Lasts : i <= Len(sent)}
      BY <1>2
<1> QED BY <1>3 DEF Received

\* pump_write: the client receives a reply when its last byte goes out.
LEMMA WriteStep ==
    ASSUME ServiceInv, IndInv', PumpWrite
    PROVE  ServiceInv' /\ [Service!Next]_(Service!serviceVars)
<1>1. /\ wire \in Seq(Byte) /\ QueueOK /\ Contiguous /\ NeverWritesAfterShutdown /\ ~shut
      /\ sent' \in Seq(Nat) /\ (\A i \in DOMAIN sent' : sent'[i] = i) /\ RefusalEnds /\ ok \in BOOLEAN
  <2>1. QueueOK' /\ Contiguous'
        BY TypeSplit DEF IndInv, TypeOK, QueueOK, QState
  <2>2. /\ wire \in Seq(Byte) /\ QueueOK /\ Contiguous /\ NeverWritesAfterShutdown /\ RefusalEnds
        /\ ok \in BOOLEAN
        BY TypeSplit DEF ServiceInv, IndInv, SessionTypeOK
  <2> QED BY <2>1, <2>2 DEF PumpWrite, NeverWritesAfterShutdown, Contiguous, QueueOK
<1>2. wire' = wire /\ writes # <<>> /\ asked' = asked
      BY DEF PumpWrite, handle_write
<1> DEFINE s == Head(writes)
           rest == Tail(writes)
<1>3. /\ s \in QState /\ rest \in Seq(QState) /\ s = writes[1] /\ 1 \in DOMAIN writes
      /\ \A i \in DOMAIN rest : i + 1 \in DOMAIN writes /\ rest[i] = writes[i + 1]
      BY <1>1, <1>2 DEF QueueOK
<1>4. resume_write(s, rest)
      BY DEF PumpWrite, handle_write
<1>5. /\ s.from + s.offs = Len(sent) /\ Left(s) \in Nat \ {0}
      /\ Whole(wire, s) /\ \A i \in DOMAIN rest : Whole(wire, rest[i])
      BY <1>1, <1>2, <1>3 DEF Contiguous, Chain, QueueOK, ServiceInv, QueueWhole
<1> HIDE DEF s, rest
<1>6. /\ \A i \in DOMAIN writes' : Whole(wire, writes'[i])
      /\ Len(sent) < s.to /\ Len(sent') \in Len(sent)..s.to
      /\ shut' = shut \/ (shut' = TRUE /\ sent' = sent)
      BY <1>1, <1>3, <1>4, <1>5, ResumeWhole DEF QueueOK
<1>7. QueueWhole'
      BY <1>2, <1>6 DEF QueueWhole
<1>8. Firsts' = Firsts /\ Lasts' = Lasts
      BY <1>2 DEF Firsts, Lasts, ServerSeed
<1>9. Balanced' /\ Requested' = Requested /\ Replied' = Replied
      BY <1>2, <1>8 DEF ServiceInv, Balanced, Requested, Replied, Nth
<1>10. s.from \in Nat /\ s.to \in Nat /\ s.to <= Len(wire) /\ Len(wire) \in Nat /\ Len(sent) \in Nat
       /\ Len(sent') \in Nat /\ s.from <= Len(sent)
  <2>1. s.from \in Nat /\ s.to \in Nat /\ s.offs \in Nat
        BY <1>3 DEF QState
  <2>2. s.to <= Len(wire)
        BY <1>5 DEF Whole
  <2>3. Len(wire) \in Nat /\ Len(sent) \in Nat /\ Len(sent') \in Nat
        BY <1>1 DEF QueueOK
  <2>4. s.from + s.offs = Len(sent)
        BY <1>5
  <2>5. s.from <= Len(sent)
        BY ONLY <2>1, <2>3, <2>4
  <2> QED BY <2>1, <2>2, <2>3, <2>5
<1>11. Len(sent') <= Len(wire') /\ Len(sent) <= Len(wire)
       BY <1>2, <1>6, <1>10
<1>12. ok = TRUE /\ ok' = ok
       BY <1>1 DEF PumpWrite, RefusalEnds
<1>13. RefusalEnds'
       BY <1>12 DEF RefusalEnds
<1>14. Received = Cardinality({i \in Lasts : i <= Len(sent)})
       BY <1>1, <1>11, ReceivedUpTo DEF QueueOK, Contiguous
<1>15. Received' = Cardinality({i \in Lasts : i <= Len(sent')})
  <2>1. \A i : i \in DOMAIN sent' /\ sent'[i] \in Lasts <=> i \in Lasts /\ i <= Len(sent')
        BY <1>1, <1>2, <1>10, <1>11, MarksIn, EndsSent
  <2> QED BY <1>8, <2>1 DEF Received
<1>16. /\ Received \in Nat
       /\ Received' = Received \/ (Received' = Received + 1 /\ Received < Cardinality(Lasts))
  <2>1. \A i \in Lasts : i > Len(sent) /\ i <= s.to => i = s.to
    <3> SUFFICES ASSUME NEW i \in Lasts, i > Len(sent), i <= s.to PROVE i = s.to
        OBVIOUS
    <3>1. i \in (s.from + 1)..s.to
          BY <1>1, <1>10, MarksIn
    <3> QED BY <1>1, <1>3, <1>5, <3>1, OneEnd
  <2>2. s.to \in 1..Len(wire) /\ Len(sent) \in 0..(s.to - 1) /\ Len(sent') \in Len(sent)..s.to
        BY <1>6, <1>10
  <2>3. Lasts \subseteq 1..Len(wire)
        BY <1>1, MarksIn
  <2> DEFINE A == Cardinality({i \in Lasts : i <= Len(sent)})
             B == Cardinality({i \in Lasts : i <= Len(sent')})
  <2>4. /\ A \in Nat
        /\ IF Len(sent') = s.to /\ s.to \in Lasts THEN B = A + 1 ELSE B = A
        /\ s.to \in Lasts => A < Cardinality(Lasts)
        BY <1>10, <2>1, <2>2, <2>3, Sending
  <2> QED BY <1>14, <1>15, <2>4
<1>17. [Service!Next]_(Service!serviceVars)
  <2>1. Len(Replied) = Cardinality(Lasts)
        BY <1>1, RepliedLength DEF ServiceInv
  <2>2. Phase # "ended"
        BY <1>12 DEF PumpWrite, Phase, Ended
  <2>3. UNCHANGED <<handler, key, flags>> /\ at' # "gone"
        BY DEF PumpWrite, handle_write, AfterWrite
  <2>4. shut' = shut => Phase' = Phase
        BY <1>1, <1>12, <2>3 DEF PumpWrite, Phase, Ended
  <2>5. shut' # shut => Phase' \in {Phase, "ended"} /\ Received' = Received
    <3>1. shut' # shut => sent' = sent
          BY <1>6
    <3>2. shut' # shut => Received' = Received
          BY <1>8, <3>1 DEF Received
    <3>3. Phase' \in {Phase, "ended"}
          BY <1>12, <2>3 DEF PumpWrite, Phase, Ended
    <3> QED BY <3>2, <3>3
  <2>6. Kept => [Service!Next]_(Service!serviceVars)
        BY <2>4, <2>5, Stutters, Ends
  <2>7. CASE Received' = Received
        BY <1>9, <2>6, <2>7 DEF Kept
  <2>8. CASE Received' # Received
    <3>1. shut' = shut /\ Received' = Received + 1 /\ Received < Len(Replied)
          BY <1>16, <2>1, <2>5, <2>8
    <3> QED BY <1>9, <2>2, <2>4, <3>1, Receives
  <2> QED BY <2>7, <2>8
<1> QED BY <1>7, <1>9, <1>11, <1>13, <1>17 DEF ServiceInv

\* A message put behind an empty queue may be sent in part or whole, another waits.
LEMMA EnqueuedWhole ==
    ASSUME ServiceInv, NEW m \in Message, enqueue_write(m), wire' \in Seq(Byte)
    PROVE  /\ QueueWhole' /\ Behind(m)
           /\ Len(wire') \in Nat /\ Len(wire) < Len(wire')
           /\ IF writes = <<>> THEN Len(sent) = Len(wire) /\ Len(sent') \in Len(sent)..Len(wire')
              ELSE sent' = sent
<1> DEFINE n == Size[m.kind]
           s == State(Len(wire), Len(wire) + n, 0)
<1>1. wire \in Seq(Byte) /\ QueueOK /\ Contiguous /\ QueueWhole
      BY TypeSplit DEF ServiceInv, IndInv
<1>2. Behind(m)
      BY <1>1, EnqueuedBehind
<1>3. n \in Nat \ {0} /\ Len(wire) \in Nat /\ Len(wire') = Len(wire) + n
      BY <1>1, <1>2, SizeType DEF Behind
<1>4. s \in QState /\ s.from = Len(wire) /\ s.to = Len(wire') /\ s.offs = 0 /\ Left(s) \in Nat \ {0}
      BY <1>3 DEF State, QState, Left
<1>5. \A i \in 1..n : wire'[Len(wire) + i].msg = m /\ wire'[Len(wire) + i].nth = i
      BY <1>2 DEF Behind
<1>6. Whole(wire', s)
  <2>1. wire'[s.to].msg = m
    <3>1. n \in 1..n /\ s.to = Len(wire) + n
          BY <1>3, <1>4
    <3> HIDE DEF s, n
    <3> QED BY <1>5, <3>1
  <2>2. s.to - s.from = n
        BY <1>3, <1>4
  <2>3. s.from < s.to /\ s.to <= Len(wire')
        BY <1>3, <1>4
  <2> HIDE DEF s, n
  <2> QED BY <1>4, <1>5, <2>1, <2>2, <2>3 DEF Whole, n
<1>7. ASSUME NEW t \in QState, Whole(wire, t) PROVE Whole(wire', t)
  <2>1. t.from \in Nat /\ t.to \in Nat /\ t.from < t.to /\ t.to <= Len(wire) /\ t.to \in DOMAIN wire
        BY <1>1, <1>7 DEF Whole, QState
  <2>2. ASSUME NEW i \in 1..(t.to - t.from) PROVE wire'[t.from + i] = wire[t.from + i]
    <3>1. t.from + i \in DOMAIN wire
          BY <1>1, <2>1
    <3> QED BY <1>2, <3>1 DEF Behind
  <2>3. wire'[t.to] = wire[t.to] /\ t.to <= Len(wire')
        BY <1>2, <1>3, <2>1 DEF Behind
  <2> QED BY <1>7, <2>2, <2>3 DEF Whole
<1> HIDE DEF s, n
<1>8. CASE writes = <<>>
  <2>1. resume_write(s, <<>>)
        BY <1>8 DEF enqueue_write, WritesNow, s, n
  <2>2. Len(sent) = Len(wire) /\ sent \in Seq(Nat)
        BY <1>1, <1>8 DEF Contiguous, Chain, QueueOK
  <2>3. <<>> \in Seq(QState) /\ (\A i \in DOMAIN <<>> : Whole(wire', <<>>[i]))
        OBVIOUS
  <2>4. s.from + s.offs = Len(sent)
        BY <1>3, <1>4, <2>2
  <2>5. /\ \A i \in DOMAIN writes' : Whole(wire', writes'[i])
        /\ Len(sent') \in Len(sent)..s.to
        BY <1>4, <1>6, <2>1, <2>2, <2>3, <2>4, ResumeWhole
  <2> QED BY <1>2, <1>3, <1>4, <1>8, <2>2, <2>5 DEF QueueWhole
<1>9. CASE writes # <<>>
  <2>1. writes' = Append(writes, s) /\ sent' = sent
        BY <1>9 DEF enqueue_write, WritesNow, s, n
  <2>2. ASSUME NEW i \in DOMAIN writes' PROVE Whole(wire', writes'[i])
    <3>1. CASE i \in DOMAIN writes
      <4>1. writes'[i] = writes[i] /\ writes[i] \in QState /\ Whole(wire, writes[i])
            BY <1>1, <2>1, <3>1 DEF QueueOK, QueueWhole
      <4> QED BY <1>7, <4>1
    <3>2. CASE i \notin DOMAIN writes
      <4>1. writes'[i] = s
            BY <1>1, <1>4, <2>1, <2>2, <3>2 DEF QueueOK
      <4> QED BY <1>6, <4>1
    <3> QED BY <3>1, <3>2
  <2> QED BY <1>2, <1>3, <1>9, <2>1, <2>2 DEF QueueWhole
<1> QED BY <1>8, <1>9

\* handle_ydata: the server's seed is no reply, and the phase after it is service.
LEMMA SeedStep ==
    ASSUME ServiceInv, IndInv', YdataKeyed
    PROVE  ServiceInv' /\ [Service!Next]_(Service!serviceVars)
<1>1. /\ wire \in Seq(Byte) /\ wire' \in Seq(Byte) /\ QueueOK /\ Contiguous /\ SessionInv /\ RefusalEnds
      /\ ok \in BOOLEAN /\ sent \in Seq(Nat) /\ sent' \in Seq(Nat)
      /\ Len(sent) <= Len(wire) /\ (\A i \in DOMAIN sent' : sent'[i] = i)
  <2>1. QueueOK' /\ Contiguous' /\ wire' \in Seq(Byte)
        BY DEF IndInv, TypeOK, QueueOK, QState, Byte
  <2>2. /\ wire \in Seq(Byte) /\ QueueOK /\ Contiguous /\ SessionInv /\ RefusalEnds
        /\ ok \in BOOLEAN /\ Len(sent) <= Len(wire)
        BY TypeSplit DEF ServiceInv, IndInv, SessionTypeOK
  <2> QED BY <2>1, <2>2 DEF Contiguous, QueueOK
<1>2. /\ at = "read" /\ handler = "gate" /\ "encrypted" \notin flags /\ "wantClientSeed" \in flags
      /\ at' = "handled" /\ handler' = "gate" /\ ok' = TRUE /\ asked' = asked /\ key' = SessionKey
      /\ enqueue_write(ServerSeed)
      BY DEF YdataKeyed, Ydata, Handler, Clear, ReplyInClear, set_crypt_key, Registers
<1>3. ok = TRUE /\ key = NoKey /\ wire = <<>>
      BY <1>1, <1>2 DEF RefusalEnds, SessionInv, Live, KeyAgrees
<1>4. ServerSeed \in Message
      BY DEF ServerSeed, Message, Kinds
<1>5. /\ QueueWhole' /\ Behind(ServerSeed) /\ Len(wire') \in Nat /\ Len(wire) < Len(wire')
      /\ IF writes = <<>> THEN Len(sent) = Len(wire) /\ Len(sent') \in Len(sent)..Len(wire')
         ELSE sent' = sent
      BY <1>1, <1>2, <1>4, EnqueuedWhole
<1>6. Balanced' /\ Replied' = Replied
      BY <1>1, <1>5, SeedBehind DEF ServiceInv
<1>7. Len(sent') <= Len(wire')
      BY <1>1, <1>3, <1>5
<1>8. Firsts' = {} /\ Lasts' = {} /\ Lasts = {}
  <2>1. Firsts = {} /\ Lasts = {}
        BY <1>3 DEF Firsts, Lasts
  <2> QED BY <1>1, <1>4, <1>5, <2>1, MarksBehind
<1>9. Received' = Received
  <2>1. {i \in DOMAIN sent' : sent'[i] \in Lasts'} = {} /\ {i \in DOMAIN sent : sent[i] \in Lasts} = {}
        BY <1>8
  <2> QED BY <2>1 DEF Received
<1>10. Requested' = Requested
       BY <1>2 DEF Requested
<1>11. Phase = "seed" /\ Phase' = "serving"
       BY <1>2, <1>3, GateSessionAssumption DEF Phase, Ended
<1>12. [Service!Next]_(Service!serviceVars)
       BY <1>6, <1>9, <1>10, <1>11, Advances DEF Kept, Service!Following
<1>13. RefusalEnds'
       BY <1>2 DEF RefusalEnds
<1> QED BY <1>5, <1>6, <1>7, <1>12, <1>13 DEF ServiceInv

\* dispatch_msg: one request, and its reply behind all others.
LEMMA DispatchStep ==
    ASSUME ServiceInv, IndInv', DispatchMsg
    PROVE  ServiceInv' /\ [Service!Next]_(Service!serviceVars)
<1>1. /\ wire \in Seq(Byte) /\ wire' \in Seq(Byte) /\ QueueOK /\ Contiguous /\ SessionInv /\ RefusalEnds
      /\ ok \in BOOLEAN /\ sent \in Seq(Nat) /\ sent' \in Seq(Nat) /\ Balanced
      /\ Len(sent) <= Len(wire)
      /\ (\A i \in DOMAIN sent' : sent'[i] = i) /\ (\A i \in DOMAIN sent : sent[i] = i)
      /\ asked \in Seq(Requests \X Ids)
  <2>1. QueueOK' /\ Contiguous' /\ wire' \in Seq(Byte)
        BY DEF IndInv, TypeOK, QueueOK, QState, Byte
  <2>2. /\ wire \in Seq(Byte) /\ QueueOK /\ Contiguous /\ SessionInv /\ RefusalEnds /\ Balanced
        /\ ok \in BOOLEAN /\ Len(sent) <= Len(wire) /\ asked \in Seq(Requests \X Ids)
        BY TypeSplit DEF ServiceInv, IndInv, SessionTypeOK
  <2> QED BY <2>1, <2>2 DEF Contiguous, QueueOK
<1>2. /\ at = "read" /\ handler = "gate" /\ "encrypted" \in flags /\ "wantMsgHeader" \notin flags
      /\ at' = "handled" /\ handler' = handler /\ ok' = TRUE /\ key' = key
      BY DEF DispatchMsg, Keyed, Handler, Clear, Registers
<1>3. ok = TRUE /\ key # NoKey /\ type \in Requests
      BY <1>1, <1>2, GateSessionAssumption DEF RefusalEnds, SessionInv, Live, Agree, KeyAgrees
<1>4. PICK id \in Ids : enqueue_write(Reply(type, id)) /\ asked' = Append(asked, <<type, id>>)
      BY DEF DispatchMsg
<1>5. PICK m \in Message : m = Reply(type, id)
  <2>1. ReplyTo[type] \in Kinds
        BY <1>3 DEF Requests, ReplyTo, Kinds
  <2> QED BY <2>1 DEF Reply, Message
<1>6. m # ServerSeed /\ m.id = id
  <2>1. ReplyTo[type] # "encrypt_s2c"
        BY <1>3 DEF Requests, ReplyTo
  <2> QED BY <1>5, <2>1 DEF Reply, ServerSeed
<1>7. /\ QueueWhole' /\ Behind(m) /\ Len(wire') \in Nat /\ Len(wire) < Len(wire')
      /\ IF writes = <<>> THEN Len(sent) = Len(wire) /\ Len(sent') \in Len(sent)..Len(wire')
         ELSE sent' = sent
      BY <1>1, <1>4, <1>5, EnqueuedWhole
<1>8. Balanced' /\ Replied' = Append(Replied, id)
      BY <1>1, <1>6, <1>7, ReplyBehind
<1>9. Requested' = Append(Requested, id)
  <2> DEFINE r == Requested
             v(k) == asked[k][2]
             w(k) == asked'[k][2]
  <2>1. PICK n \in Nat : n = Len(asked)
        BY <1>1
  <2>2. /\ DOMAIN asked = 1..n /\ DOMAIN asked' = 1..(n + 1) /\ w(n + 1) = id
        /\ \A k \in 1..n : w(k) = v(k)
        BY <1>1, <1>3, <1>4, <2>1
  <2>3. Requested = [k \in 1..n |-> v(k)] /\ Requested' = [k \in 1..(n + 1) |-> w(k)]
        BY <2>2 DEF Requested
  <2> HIDE DEF v, w
  <2>4. [k \in 1..(n + 1) |-> w(k)] = Append([k \in 1..n |-> v(k)], id)
        BY ONLY n \in Nat, <2>2
  <2> QED BY <2>3, <2>4
<1>10. Len(sent) \in Nat /\ Len(sent') \in Nat /\ Len(wire) \in Nat /\ Lasts \subseteq 1..Len(wire)
       BY <1>1, MarksIn
<1>11. Len(sent') <= Len(wire')
       BY <1>1, <1>7, <1>10
<1>12. Lasts' = Lasts \cup {Len(wire')}
       BY <1>1, <1>6, <1>7, MarksBehind
<1>13. Received = Cardinality({i \in Lasts : i <= Len(sent)})
       BY <1>1, ReceivedUpTo
<1>14. Received' = Cardinality({i \in Lasts' : i <= Len(sent')})
  <2>1. Lasts' \subseteq 1..Len(wire')
        BY <1>1, <1>7 DEF Lasts
  <2>2. \A i : i \in DOMAIN sent' /\ sent'[i] \in Lasts' <=> i \in Lasts' /\ i <= Len(sent')
        BY <1>1, <1>7, <1>11, <2>1, EndsSent
  <2>3. {i \in DOMAIN sent' : sent'[i] \in Lasts'} = {i \in Lasts' : i <= Len(sent')}
        BY <2>2
  <2> QED BY <2>3 DEF Received
<1>e. \A i \in Lasts : i \in Nat /\ i <= Len(wire)
      BY <1>10
<1>15. Received' = Received \/ (Received = Len(Replied) /\ Received' = Received + 1)
  <2>1. CASE Len(sent') < Len(wire') /\ (writes # <<>> \/ Len(sent') >= Len(wire))
    <3>1. {i \in Lasts' : i <= Len(sent')} = {i \in Lasts : i <= Len(sent)}
      <4>1. ~(Len(wire') <= Len(sent'))
            BY <1>7, <1>10, <2>1
      <4>2. \A i \in Lasts : i <= Len(sent') <=> i <= Len(sent)
            BY <1>7, <1>10, <1>e
      <4>3. \A i : i \in Lasts' /\ i <= Len(sent') <=> i \in Lasts /\ i <= Len(sent)
            BY <1>12, <4>1, <4>2
      <4> QED BY <4>3
    <3> QED BY <1>13, <1>14, <3>1
  <2>2. CASE ~(Len(sent') < Len(wire') /\ (writes # <<>> \/ Len(sent') >= Len(wire)))
    <3>1. writes = <<>> /\ Len(sent) = Len(wire) /\ Len(sent') = Len(wire')
          BY <1>1, <1>7, <1>10, <2>2
    <3>2. {i \in Lasts : i <= Len(sent)} = Lasts
          BY <1>e, <3>1
    <3>3. {i \in Lasts' : i <= Len(sent')} = Lasts \cup {Len(wire')}
      <4>1. \A i \in Lasts' : i <= Len(sent')
            BY <1>7, <1>10, <1>12, <1>e, <3>1
      <4> QED BY <1>12, <4>1
    <3>4. Len(wire') \notin Lasts /\ IsFiniteSet(Lasts)
      <4>1. Len(wire') \notin Lasts
            BY <1>7, <1>10
      <4> QED BY <1>10, <4>1, Places
    <3>5. Cardinality(Lasts \cup {Len(wire')}) = Cardinality(Lasts) + 1
          BY <3>4, FS_AddElement
    <3> QED BY <1>1, <1>13, <1>14, <3>2, <3>3, <3>5, RepliedLength
  <2> QED BY <2>1, <2>2
<1>16. Phase = "serving" /\ Phase' = "serving"
       BY <1>2, <1>3 DEF Phase, Ended
<1>17. [Service!Next]_(Service!serviceVars)
       BY <1>8, <1>9, <1>15, <1>16, Serves
<1>18. RefusalEnds'
       BY <1>2 DEF RefusalEnds
<1> QED BY <1>7, <1>8, <1>11, <1>17, <1>18 DEF ServiceInv

\* client::client: nothing asked, replied or received, and the greeting to come.
LEMMA ServiceStart == Init => ServiceInv /\ Service!Init
<1> SUFFICES ASSUME Init PROVE ServiceInv /\ Service!Init
    OBVIOUS
<1>1. /\ wire = <<>> /\ writes = <<>> /\ sent = <<>> /\ asked = <<>> /\ key = NoKey
      /\ handler = "incoming" /\ at = "idle" /\ ok = TRUE /\ shut = FALSE
      BY DEF Init, WriteInit
<1>2. Firsts = {} /\ Lasts = {} /\ 1..Cardinality(Firsts) = {}
  <2>1. Firsts = {} /\ Lasts = {}
        BY <1>1 DEF Firsts, Lasts
  <2> QED BY <2>1, FS_EmptySet
<1>3. ServiceInv
      BY <1>1, <1>2, IndInit, EmptyRanks
         DEF ServiceInv, RefusalEnds, QueueWhole, Balanced
<1>4. Phase = "greeting"
      BY <1>1 DEF Phase, Ended
<1>5. Requested = <<>> /\ Replied = <<>>
  <2>1. DOMAIN Requested = {} /\ DOMAIN Replied = {}
        BY <1>1, <1>2 DEF Requested, Replied
  <2> QED BY <1>1, <1>2, <2>1 DEF Requested, Replied
<1>6. Received = 0
  <2>1. {i \in DOMAIN sent : sent[i] \in Lasts} = {}
        BY <1>1
  <2> QED BY <2>1, FS_EmptySet DEF Received
<1> QED BY <1>3, <1>4, <1>5, <1>6 DEF Service!Init, Requested, Replied, Received

LEMMA ServiceStep == ServiceInv /\ [Next]_vars => ServiceInv' /\ [Service!Next]_(Service!serviceVars)
<1> SUFFICES ASSUME ServiceInv, [Next]_vars
             PROVE  ServiceInv' /\ [Service!Next]_(Service!serviceVars)
    OBVIOUS
<1>1. IndInv'
      BY IndStep DEF ServiceInv
<1> QED BY <1>1, QuietSteps, WriteStep, SeedStep, DispatchStep
        DEF Next, Events, Pumps, Handlers, QuietNext

\* A session goes through the handshake in order, serves only under the session key,
\* and answers every request once and in order, with its transaction id; the client
\* receives the replies whole and in that order (client_common.cpp, gatekeeper.cpp,
\* client_base.cpp).
THEOREM Implements == Spec => ImplementsService
<1>1. Init => ServiceInv /\ Service!Init
      BY ServiceStart
<1>2. ServiceInv /\ [Next]_vars => ServiceInv' /\ [Service!Next]_(Service!serviceVars)
      BY ServiceStep
<1> QED BY <1>1, <1>2, PTL DEF Spec, ImplementsService, Service!Spec

-----------------------------------------------------------------------------
(* What the service promises, read back as an invariant of the session. *)

\* The replies written answer the requests taken, one each, in order, and no more of
\* them are received than were asked for.
AnsweredInOrder == Replied = Requested /\ Received \in 0..Len(Requested)

\* Once nothing is queued, the client has been sent the last byte of every reply.
NothingOwed == writes = <<>> => Received = Len(Requested)

\* The step of the service, in its own terms.
LEMMA Promised ==
    ASSUME NEW T, NEW requests \in Seq(T), NEW received \in 0..Len(requests), NEW t \in T,
           NEW last \in {received} \cup (IF received = Len(requests) THEN {received + 1} ELSE {})
    PROVE  Append(requests, t) \in Seq(T) /\ last \in 0..Len(Append(requests, t))
OBVIOUS

LEMMA AnsweredStart == Init => Requested \in Seq(Ids) /\ AnsweredInOrder
<1> SUFFICES ASSUME Init PROVE Requested \in Seq(Ids) /\ AnsweredInOrder
    OBVIOUS
<1>1. Requested = <<>> /\ Replied = <<>> /\ Received = 0
      BY ServiceStart, Zenon DEF Service!Init, Requested, Replied, Received
<1>2. <<>> \in Seq(Ids) /\ 0 \in 0..Len(<<>>)
      OBVIOUS
<1> QED BY <1>1, <1>2, Zenon DEF AnsweredInOrder

LEMMA AnsweredStep ==
    Requested \in Seq(Ids) /\ AnsweredInOrder /\ [Service!Next]_(Service!serviceVars)
    => Requested' \in Seq(Ids) /\ AnsweredInOrder'
<1> SUFFICES ASSUME Requested \in Seq(Ids), AnsweredInOrder, [Service!Next]_(Service!serviceVars)
             PROVE  Requested' \in Seq(Ids) /\ AnsweredInOrder'
    OBVIOUS
<1> USE DEF Requested, Replied, Received
<1>1. PICK q, r, q2, p2, r2 :
          q = Requested /\ r = Received /\ q2 = Requested' /\ p2 = Replied' /\ r2 = Received'
      OBVIOUS
<1>2. \/ q2 = q /\ p2 = q /\ r2 = r
      \/ q2 = q /\ p2 = q /\ r < Len(q) /\ r2 = r + 1
      \/ \E t \in Ids : q2 = Append(q, t) /\ p2 = Append(q, t)
                        /\ r2 \in {r} \cup (IF r = Len(q) THEN {r + 1} ELSE {})
      BY <1>1, Zenon
         DEF AnsweredInOrder, Service!Next, Service!serviceVars, Service!Advance, Service!Serve,
             Service!Receive, Service!End
<1>3. q \in Seq(Ids) /\ r \in 0..Len(q)
      BY <1>1, Zenon DEF AnsweredInOrder
<1> SUFFICES q2 \in Seq(Ids) /\ p2 = q2 /\ r2 \in 0..Len(q2)
    BY <1>1, Zenon DEF AnsweredInOrder
<1>4. CASE q2 = q /\ p2 = q /\ r2 = r
      BY <1>3, <1>4, Zenon
<1>5. CASE q2 = q /\ p2 = q /\ r < Len(q) /\ r2 = r + 1
  <2>1. r + 1 \in 0..Len(q)
        BY ONLY <1>3, <1>5
  <2> QED BY <1>3, <1>5, <2>1, Zenon
<1>6. CASE \E t \in Ids : q2 = Append(q, t) /\ p2 = Append(q, t)
                          /\ r2 \in {r} \cup (IF r = Len(q) THEN {r + 1} ELSE {})
      BY <1>3, <1>6, Promised, Zenon
<1> QED BY <1>2, <1>4, <1>5, <1>6

\* handle_write: a queue that is empty has been sent to the last byte.
LEMMA Settled ==
    ASSUME ServiceInv, AnsweredInOrder
    PROVE  NothingOwed
<1> SUFFICES ASSUME writes = <<>> PROVE Received = Len(Requested)
    BY DEF NothingOwed
<1>1. wire \in Seq(Byte) /\ sent \in Seq(Nat) /\ (\A i \in DOMAIN sent : sent[i] = i) /\ Balanced
      BY DEF ServiceInv, IndInv, TypeOK, Contiguous, Byte, Message
<1>2. Len(sent) = Len(wire)
      BY DEF ServiceInv, IndInv, Contiguous, Chain
<1>3. Received = Cardinality({i \in Lasts : i <= Len(sent)})
      BY <1>1, <1>2, MarksIn, ReceivedUpTo
<1>4. {i \in Lasts : i <= Len(sent)} = Lasts
  <2>1. \A i \in Lasts : i <= Len(wire)
        BY <1>1, MarksIn
  <2> QED BY <1>2, <2>1
<1> QED BY <1>1, <1>3, <1>4, RepliedLength, Zenon DEF AnsweredInOrder

\* Every request has its one reply, in its place and with its transaction id, and once
\* nothing is queued the client has been sent them all to the last byte (dispatch_msg,
\* enqueue_write, handle_write).
THEOREM EveryRequestAnswered == Spec => [](AnsweredInOrder /\ NothingOwed)
<1> DEFINE Inv == ServiceInv /\ Requested \in Seq(Ids) /\ AnsweredInOrder
<1>1. Init => Inv
      BY ServiceStart, AnsweredStart
<1>2. Inv /\ [Next]_vars => Inv'
      BY ServiceStep, AnsweredStep, Zenon
<1>3. Inv => AnsweredInOrder /\ NothingOwed
      BY Settled
<1> HIDE DEF Inv
<1> QED BY <1>1, <1>2, <1>3, PTL DEF Spec
=============================================================================
