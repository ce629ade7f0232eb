----------------------------- MODULE ReadProofs -----------------------------
(* Theorems about MessageRead.                                                  *)
EXTENDS MessageRead, Induction

-----------------------------------------------------------------------------
(* Field tables and streams. *)

\* The last field is the one SequencesExt's Last names.
LEMMA LastField ==
    ASSUME NEW x \in Scripts, NEW k \in DOMAIN x
    PROVE  /\ Fields(x[k]) \in Nat \ {0}
           /\ Last(x[k].fields) = x[k].fields[Fields(x[k])]
           /\ \A f \in 1..Fields(x[k]) : x[k].fields[f].sz \in Nat
<1> DEFINE F == x[k].fields
           R == [type : STRING, sz : Nat]
<1>1. F \in Seq(R) /\ F # <<>>
      BY LayoutAssumption DEF Laid
<1>2. \A r \in R : r.sz \in Nat
      OBVIOUS
<1>3. Fields(x[k]) = Len(F)
      BY DEF Fields
<1> HIDE DEF F, R
<1>4. Len(F) \in Nat \ {0} /\ \A f \in 1..Len(F) : F[f] \in R
      BY <1>1
<1>5. Last(F) = F[Len(F)]
      BY DEF Last
<1> QED BY <1>2, <1>3, <1>4, <1>5 DEF F

\* Types of what a message of a script is described by.
LEMMA MessageTypes ==
    ASSUME NEW x \in Scripts, NEW k \in DOMAIN x, NEW s, s = x[k]
    PROVE  /\ Fields(s) \in Nat \ {0}
           /\ s.start \in Nat /\ s.payload \in Nat /\ s.value \in 0..(SizeT - 1)
           /\ \A f \in 0..Fields(s) : Before(s, f) \in Nat
           /\ \A f \in 0..(Fields(s) - 1) :
                 Sz(s, f) \in Nat /\ Before(s, f + 1) = Before(s, f) + Sz(s, f)
           /\ s.first \in 0..(Fields(s) - 1)
           /\ Variable(s) => Fields(s) >= 2 /\ s.first < Fields(s) - 1 /\ Self(s) \in Nat
           /\ Variable(s) \in BOOLEAN /\ Legal(s) \in BOOLEAN
<1>1. Laid(s)
      BY LayoutAssumption
<1>2. Fields(s) \in Nat \ {0} /\ s.start \in Nat /\ s.payload \in Nat /\ s.value \in 0..(SizeT - 1)
      BY <1>1, LastField DEF Laid
<1>3. \A f \in 0..Fields(s) : Before(s, f) \in Nat
      BY <1>1 DEF Laid
<1>4. \A f \in 0..(Fields(s) - 1) : Sz(s, f) \in Nat
      BY <1>2, LastField DEF Sz
<1>5. ASSUME NEW f \in 0..(Fields(s) - 1)
      PROVE  Before(s, f + 1) = Before(s, f) + Sz(s, f)
  <2>1. f + 1 \in 0..Fields(s) /\ f + 1 # 0 /\ (f + 1) - 1 = f
        BY <1>2
  <2>2. Before(s, f + 1) = Before(s, (f + 1) - 1) + Sz(s, (f + 1) - 1)
        BY <1>1, <2>1 DEF Laid
  <2> QED BY <2>1, <2>2
<1>6. s.first \in 0..(Fields(s) - 1) /\ (Variable(s) => s.first < Fields(s) - 1)
      BY <1>1, <1>2 DEF Laid
<1>7. Variable(s) => Fields(s) >= 2
      BY <1>2, <1>6
<1>8. Variable(s) => Self(s) \in Nat
      BY <1>2, <1>4, <1>7 DEF Self
<1> QED BY <1>2, <1>3, <1>4, <1>5, <1>6, <1>7, <1>8 DEF Variable, Legal

\* Addresses rise from field to field (net_struct_calcsz).
LEMMA Rising ==
    ASSUME NEW x \in Scripts, NEW k \in DOMAIN x, NEW s, s = x[k],
           NEW i \in 0..Fields(s), NEW j \in i..Fields(s)
    PROVE  Before(s, i) <= Before(s, j)
<1>1. Fields(s) \in Nat /\ \A f \in 0..Fields(s) : Before(s, f) \in Nat
      BY MessageTypes
<1>2. \A f \in 0..(Fields(s) - 1) : Sz(s, f) \in Nat /\ Before(s, f + 1) = Before(s, f) + Sz(s, f)
      BY MessageTypes
<1> DEFINE Reach == {d \in Nat : i + d <= Fields(s) => Before(s, i) <= Before(s, i + d)}
<1>3. 0 \in Reach
      BY <1>1
<1>4. ASSUME NEW d \in Nat, d \in Reach PROVE d + 1 \in Reach
  <2> SUFFICES ASSUME i + (d + 1) <= Fields(s) PROVE Before(s, i) <= Before(s, i + (d + 1))
      OBVIOUS
  <2>1. i + d \in 0..(Fields(s) - 1) /\ (i + d) + 1 = i + (d + 1) /\ i + d \in 0..Fields(s)
        /\ i + (d + 1) \in 0..Fields(s)
        BY <1>1
  <2>2. Before(s, i + (d + 1)) = Before(s, i + d) + Sz(s, i + d) /\ Sz(s, i + d) \in Nat
        BY <1>2, <2>1
  <2>3. Before(s, i) <= Before(s, i + d)
        BY <1>4, <2>1
  <2> HIDE DEF Reach
  <2> QED BY <1>1, <2>1, <2>2, <2>3
<1>5. j - i \in Reach
  <2>1. j - i \in Nat
        BY <1>1
  <2>2. Nat \subseteq Reach
    <3> HIDE DEF Reach
    <3> QED BY <1>3, <1>4, Upwards
  <2> QED BY <2>1, <2>2
<1> QED BY <1>1, <1>5

\* Where a message ends, and its variable field begins.
LEMMA MessageEnd ==
    ASSUME NEW x \in Scripts, NEW k \in DOMAIN x, NEW s, s = x[k]
    PROVE  /\ End(s) \in Nat /\ Origin(s) \in Int
           /\ s.start <= End(s)
           /\ Origin(s) + Before(s, s.first) = s.start
           /\ End(s) = Origin(s) + Before(s, Fields(s)) + s.payload
           /\ ~Variable(s) => End(s) = Origin(s) + Before(s, Fields(s))
           /\ Variable(s) => Before(s, Fields(s)) = Before(s, Fields(s) - 1)
<1>1. Fields(s) \in Nat \ {0} /\ s.first \in 0..(Fields(s) - 1) /\ s.start \in Nat /\ s.payload \in Nat
      /\ \A f \in 0..Fields(s) : Before(s, f) \in Nat
      BY MessageTypes
<1>2. \A f \in 0..(Fields(s) - 1) : Before(s, f + 1) = Before(s, f) + Sz(s, f)
      BY MessageTypes
<1>3. Before(s, s.first) <= Before(s, Fields(s))
      BY <1>1, Rising
<1>4. Laid(s)
      BY LayoutAssumption
<1>5. ~Variable(s) => s.payload = 0
      BY <1>4 DEF Laid
<1>6. Variable(s) => Sz(s, Fields(s) - 1) = 0
      BY <1>1, <1>4 DEF Laid
<1>7. Variable(s) => Before(s, Fields(s)) = Before(s, Fields(s) - 1)
  <2>1. Fields(s) - 1 \in 0..(Fields(s) - 1) /\ (Fields(s) - 1) + 1 = Fields(s)
        /\ Fields(s) - 1 \in 0..Fields(s)
        BY <1>1
  <2> QED BY <1>1, <1>2, <1>6, <2>1
<1>8. Before(s, s.first) \in Nat /\ Before(s, Fields(s)) \in Nat
      BY <1>1
<1> QED BY <1>1, <1>3, <1>5, <1>7, <1>8 DEF End, Origin

\* A script is a sequence of messages, each behind the one before.
LEMMA ScriptTypes ==
    ASSUME NEW x \in Scripts
    PROVE  /\ Len(x) \in Nat \ {0} /\ DOMAIN x = 1..Len(x)
           /\ Last(x) = x[Len(x)]
           /\ Range(x) = {x[k] : k \in 1..Len(x)}
           /\ x[1].start = 0
           /\ \A k \in 2..Len(x) : x[k].start = End(x[k - 1])
<1>1. x \in Seq(Range(x)) /\ x # <<>>
      BY LayoutAssumption
<1>2. Len(x) \in Nat \ {0} /\ DOMAIN x = 1..Len(x)
  <2> DEFINE R == Range(x)
  <2> HIDE DEF R
  <2>1. x \in Seq(R)
        BY <1>1 DEF R
  <2> QED BY <1>1, <2>1
<1>3. \A k \in DOMAIN x : x[k].start = IF k = 1 THEN 0 ELSE End(x[k - 1])
      BY LayoutAssumption
<1> QED BY <1>2, <1>3 DEF Last, Range

\* Messages do not overlap.
LEMMA Apart ==
    ASSUME NEW x \in Scripts, NEW i \in 1..Len(x), NEW j \in (i + 1)..Len(x)
    PROVE  End(x[i]) <= x[j].start
<1>1. Len(x) \in Nat /\ DOMAIN x = 1..Len(x) /\ \A k \in 2..Len(x) : x[k].start = End(x[k - 1])
      BY ScriptTypes
<1>2. \A k \in 1..Len(x) : End(x[k]) \in Nat /\ x[k].start \in Nat /\ x[k].start <= End(x[k])
      BY <1>1, MessageEnd, MessageTypes
<1> DEFINE Reach == {d \in Nat : i + 1 + d <= Len(x) => End(x[i]) <= x[i + 1 + d].start}
<1>3. 0 \in Reach
  <2> SUFFICES ASSUME i + 1 <= Len(x) PROVE End(x[i]) <= x[i + 1].start
      OBVIOUS
  <2>1. i + 1 \in 2..Len(x) /\ (i + 1) - 1 = i
        BY <1>1
  <2> QED BY <1>1, <1>2, <2>1
<1>4. ASSUME NEW d \in Nat, d \in Reach PROVE d + 1 \in Reach
  <2> SUFFICES ASSUME i + 1 + (d + 1) <= Len(x) PROVE End(x[i]) <= x[i + 1 + (d + 1)].start
      OBVIOUS
  <2>1. i + 1 + d \in 1..Len(x) /\ i + 1 + (d + 1) \in 2..Len(x) /\ (i + 1 + (d + 1)) - 1 = i + 1 + d
        BY <1>1
  <2>2. End(x[i]) <= x[i + 1 + d].start
        BY <1>4, <2>1
  <2>3. x[i + 1 + (d + 1)].start = End(x[i + 1 + d])
        BY <1>1, <2>1
  <2>4. /\ End(x[i + 1 + d]) \in Nat /\ x[i + 1 + d].start \in Nat /\ End(x[i]) \in Nat
        /\ x[i + 1 + d].start <= End(x[i + 1 + d])
        BY <1>2, <2>1
  <2> HIDE DEF Reach
  <2> QED BY ONLY <2>2, <2>3, <2>4
<1>5. j - i - 1 \in Reach
  <2>1. j - i - 1 \in Nat
        BY <1>1
  <2>2. Nat \subseteq Reach
    <3> HIDE DEF Reach
    <3> QED BY <1>3, <1>4, Upwards
  <2> QED BY <2>1, <2>2
<1> QED BY <1>1, <1>5

-----------------------------------------------------------------------------
(* Sizes. *)

\* size_t arithmetic: nothing happens to what fits, a negative difference wraps.
LEMMA Modulo ==
    ASSUME NEW m \in Nat, NEW a \in Int
    PROVE  /\ a >= 0 /\ a < m => a % m = a
           /\ a < 0 /\ a + m >= 0 => a % m = a + m
           /\ m > 0 => a % m \in 0..(m - 1)
OBVIOUS

Open == item \in 1..Len(script)

\* The item, and the last of its fields.
LEMMA ItemTypes ==
    ASSUME script \in Scripts, Open
    PROVE  /\ item \in DOMAIN script /\ S = script[item]
           /\ Fields(S) \in Nat \ {0} /\ Last0 = Fields(S) - 1 /\ Last0 \in Nat
           /\ Last(S.fields) = S.fields[Fields(S)]
           /\ Variable(S) => Last0 - 1 \in 0..(Fields(S) - 1) /\ Sz(S, Last0 - 1) \in Nat
BY ScriptTypes, MessageTypes, LastField DEF S, Last0, Open

\* No size is negative, whatever is in memory (calc_field_sz).
LEMMA SizeTypes ==
    ASSUME script \in Scripts, Open
    PROVE  /\ \A f \in 0..Last0 : calc_field_sz(f) \in Nat
           /\ \A f \in 0..Last0 : ~(Variable(S) /\ f = Last0) => calc_field_sz(f) = Sz(S, f)
           /\ Oversize \in BOOLEAN
<1>1. S.value \in Nat /\ \A f \in 0..Last0 : Sz(S, f) \in Nat
      BY ItemTypes, MessageTypes
<1>2. extract_integer \in Nat
      BY <1>1 DEF extract_integer
<1>3. Variable(S) => Sz(S, Last0 - 1) \in Nat
      BY ItemTypes
<1>4. Variable(S) => extract_elementcount \in Nat
  <2> SUFFICES ASSUME Variable(S) PROVE extract_elementcount \in Nat
      OBVIOUS
  <2>1. SizeT \in Nat /\ SizeT > 1 /\ SizeT - 1 \in Nat
        BY MessageReadAssumption
  <2>2. (extract_integer - Sz(S, Last0 - 1)) % SizeT \in Nat
        BY <1>2, <1>3, <2>1, Modulo
  <2> QED BY <1>2, <2>1, <2>2 DEF extract_elementcount
<1> QED BY <1>1, <1>4 DEF calc_field_sz, Oversize

\* What is read of the message so far lies at its place.
Upto(n) == \A a \in 0..(n - 1) : a \in DOMAIN buf /\ buf[a] = Origin(S) + a

\* With the fields before it in place, the size of a variable field is what the
\* client sends of it, or too large (extract_elementcount).
LEMMA CountRight ==
    script \in Scripts /\ Open /\ Variable(S) /\ Upto(Before(S, Last0))
        => /\ Legal(S) => calc_field_sz(Last0) = S.payload /\ S.payload < SizeT - 1
           /\ ~Legal(S) => calc_field_sz(Last0) = SizeT - 1
<1> SUFFICES ASSUME script \in Scripts, Open, Variable(S), Upto(Before(S, Last0))
             PROVE  /\ Legal(S) => calc_field_sz(Last0) = S.payload /\ S.payload < SizeT - 1
                    /\ ~Legal(S) => calc_field_sz(Last0) = SizeT - 1
    OBVIOUS
<1>1. S.value \in 0..(SizeT - 1) /\ Self(S) \in Nat /\ S.payload \in Nat
      BY ItemTypes, MessageTypes
<1>2. Before(S, Last0) \in Nat /\ Before(S, Last0 - 1) \in Nat
      BY ItemTypes, MessageTypes
<1>3. extract_integer = S.value
      BY <1>2 DEF extract_integer, Upto
<1>4. Laid(S)
      BY ItemTypes, LayoutAssumption
<1>5. Self(S) + kMaxBufCount < SizeT /\ (Legal(S) => S.value = S.payload + Self(S))
      BY <1>4 DEF Laid
<1>6. Self(S) = IF S.fields[Fields(S)].type = "redundant" THEN Sz(S, Last0 - 1) ELSE 0
  <2>1. Last0 - 1 = Fields(S) - 2
        BY ItemTypes
  <2> QED BY <2>1, ItemTypes DEF Self
<1>7. Legal(S) = (S.value >= Self(S) /\ S.value - Self(S) <= kMaxBufCount)
      BY DEF Legal
<1> DEFINE result == IF S.fields[Fields(S)].type = "redundant"
                     THEN (extract_integer - Sz(S, Last0 - 1)) % SizeT
                     ELSE extract_integer
<1>8. /\ S.value >= Self(S) => result = S.value - Self(S)
      /\ S.value < Self(S) => result = S.value - Self(S) + SizeT
  <2> DEFINE v == S.value
             d == Self(S)
  <2>1. v \in Nat /\ d \in Nat /\ v < SizeT /\ d < SizeT /\ SizeT \in Nat /\ v - d \in Int
        BY <1>1, <1>5, MessageReadAssumption
  <2> HIDE DEF v, d
  <2>2. /\ v >= d => (v - d) % SizeT = v - d
        /\ v < d => (v - d) % SizeT = v - d + SizeT
    <3> DEFINE w == v - d
    <3>1. w \in Int /\ (v >= d => w >= 0 /\ w < SizeT) /\ (v < d => w < 0 /\ w + SizeT >= 0)
          BY <2>1
    <3> HIDE DEF w
    <3>2. (v >= d => w % SizeT = w) /\ (v < d => w % SizeT = w + SizeT)
          BY <2>1, <3>1, Modulo
    <3> QED BY <3>2 DEF w
  <2>3. CASE S.fields[Fields(S)].type = "redundant"
    <3>1. d = Sz(S, Last0 - 1) /\ result = (v - d) % SizeT
          BY <1>3, <1>6, <2>3 DEF v, d
    <3> QED BY <2>1, <2>2, <3>1 DEF v, d
  <2>4. CASE S.fields[Fields(S)].type # "redundant"
    <3>1. d = 0 /\ result = v
          BY <1>3, <1>6, <2>4 DEF v, d
    <3> QED BY <2>1, <3>1 DEF v, d
  <2> QED BY <2>3, <2>4
<1>9. extract_elementcount = IF result > kMaxBufCount THEN SizeT - 1 ELSE result
      BY DEF extract_elementcount
<1> HIDE DEF result
<1>10. calc_field_sz(Last0) = extract_elementcount
       BY DEF calc_field_sz
<1>11. ASSUME Legal(S) PROVE calc_field_sz(Last0) = S.payload /\ S.payload < SizeT - 1
  <2>1. S.value >= Self(S) /\ S.value - Self(S) <= kMaxBufCount /\ S.value = S.payload + Self(S)
        BY <1>5, <1>7, <1>11
  <2>2. S.value - Self(S) = S.payload /\ result = S.value - Self(S)
        BY <1>1, <1>8, <2>1
  <2> QED BY <1>1, <1>9, <1>10, <2>1, <2>2, MessageReadAssumption
<1>12. ASSUME ~Legal(S) PROVE calc_field_sz(Last0) = SizeT - 1
  <2>1. ~(S.value >= Self(S) /\ S.value - Self(S) <= kMaxBufCount)
        BY <1>7, <1>12
  <2>2. result > kMaxBufCount
        BY <1>1, <1>5, <1>8, <2>1, MessageReadAssumption
  <2> QED BY <1>9, <1>10, <2>2
<1> QED BY <1>11, <1>12

\* What a turn asks for is never negative, and what it gets is no more than that
\* and than what has arrived (resume_read's readsz).
LEMMA ReadTypes ==
    ASSUME script \in Scripts, Open, field \in 0..Last0, offset \in Nat,
           arrived \in Nat, pos \in 0..arrived
    PROVE  /\ Pending \in Nat /\ readsz \in 0..Pending
           /\ Taken \in Nat /\ Taken <= readsz /\ Taken <= arrived - pos
           /\ Taken = readsz \/ Taken = arrived - pos
<1>1. field = Last0 => Pending \in Nat
      BY SizeTypes DEF Pending
<1>2. field # Last0 => Pending \in Nat
  <2> DEFINE T == IF Variable(S) THEN Last0 ELSE Fields(S)
  <2>1. T \in field..Fields(S) /\ field \in 0..Fields(S)
        BY ItemTypes, MessageTypes
  <2>2. Before(S, field) <= Before(S, T) /\ Before(S, T) \in Nat /\ Before(S, field) \in Nat
        BY <2>1, ItemTypes, MessageTypes, Rising
  <2> QED BY <2>2 DEF Pending
<1>3. readsz \in 0..Pending
      BY <1>1, <1>2 DEF readsz
<1> QED BY <1>1, <1>2, <1>3 DEF Taken

-----------------------------------------------------------------------------
(* Memory. *)

\* Whole words and a spare one are enough for what is counted, and more for more.
LEMMA Words ==
    ASSUME NEW m \in Nat, NEW n \in Nat
    PROVE  /\ (m \div WordSize + SpareWords) * WordSize \in Nat
           /\ m <= (m \div WordSize + SpareWords) * WordSize
           /\ m <= n => (m \div WordSize + SpareWords) * WordSize <= (n \div WordSize + SpareWords) * WordSize
<1> DEFINE q == m \div WordSize
           p == n \div WordSize
<1>1. WordSize \in Nat \ {0} /\ SpareWords \in Nat \ {0}
      BY MessageReadAssumption
<1>2. q \in Nat /\ m < (q + 1) * WordSize /\ q * WordSize <= m
      BY <1>1
<1>3. p \in Nat /\ n < (p + 1) * WordSize
      BY <1>1
<1> HIDE DEF p, q
<1>4. \A a, b, w \in Nat : a <= b => a * w <= b * w
      OBVIOUS
<1>5. q + 1 <= q + SpareWords /\ (q + SpareWords) * WordSize \in Nat
      BY <1>1, <1>2
<1>6. (q + 1) * WordSize <= (q + SpareWords) * WordSize
      BY <1>1, <1>2, <1>4, <1>5
<1>7. m <= n => (q + SpareWords) * WordSize <= (p + SpareWords) * WordSize
  <2> SUFFICES ASSUME m <= n PROVE q <= p
      BY <1>1, <1>2, <1>3, <1>4
  <2> SUFFICES ASSUME p + 1 <= q PROVE FALSE
      BY <1>2, <1>3
  <2>1. (p + 1) * WordSize <= q * WordSize
        BY <1>1, <1>2, <1>3, <1>4
  <2> QED BY <1>1, <1>2, <1>3, <2>1
<1> QED BY <1>1, <1>2, <1>5, <1>6, <1>7 DEF p, q

\* The fixed fields have room (alloc_buf).
LEMMA AllocatedTypes ==
    ASSUME script \in Scripts, Open
    PROVE  Allocated \in Nat /\ Before(S, Fields(S)) <= Allocated
<1>1. Before(S, Fields(S)) \in Nat
  <2>1. item \in DOMAIN script /\ S = script[item] /\ Fields(S) \in 0..Fields(S)
        BY ItemTypes
  <2> QED BY <2>1, MessageTypes
<1> QED BY <1>1, Words DEF Allocated

\* What lies in memory lies in the allocation, which is the current message's when
\* bytes are sorted into it, and no larger than that when it is copied.
Housed ==
    /\ DOMAIN buf \subseteq 0..(bufsz - 1)
    /\ Open /\ at \in {"sort", "deliver"} => bufsz = Allocated
    /\ Open /\ DOMAIN buf # {} => bufsz <= Allocated

\* The bytes in memory stay where they are.
SameMemory == DOMAIN buf' = DOMAIN buf /\ \A a \in DOMAIN buf : buf'[a] = buf[a]

\* The copy loses nothing (alloc_buf).
LEMMA CopiesAll == Housed /\ alloc_buf => SameMemory
BY DEF Housed, alloc_buf, SameMemory, Restrict

-----------------------------------------------------------------------------
(* Types, wherever segments end. *)

\* While a message is read there is one to read, and a field of it.
TypeInv ==
    /\ TypeOK
    /\ arrived \in Nat
    /\ item > Len(script) => at \in {"idle", "closed", "lost"}
    /\ Open /\ at \in {"idle", "turn", "sort"} => field <= Last0

\* A step that leaves the stream and m_struct alone is about the same message.
LEMMA SameItem ==
    ASSUME script' = script, item' = item
    PROVE  S' = S /\ Last0' = Last0 /\ Open' = Open
BY DEF S, Last0, Open

\* Segments end at places of the stream.
LEMMA CutTypes ==
    ASSUME script \in Scripts, NEW n \in Cuts
    PROVE  n \in Int
<1>1. CASE SplitInsideField
  <2>1. Len(script) \in DOMAIN script
        BY ScriptTypes
  <2>2. End(Last(script)) \in Nat
        BY <2>1, ScriptTypes, MessageEnd
  <2> QED BY <1>1, <2>2 DEF Cuts
<1>2. CASE ~SplitInsideField
  <2>1. PICK k \in 1..Len(script) :
            LET s == script[k]
            IN n = End(s) \/ \E f \in (s.first + 1)..Fields(s) : n = Origin(s) + Before(s, f)
        BY <1>2, ScriptTypes DEF Cuts
  <2> DEFINE s == script[k]
  <2>2. k \in DOMAIN script
        BY ScriptTypes
  <2>3. End(s) \in Nat /\ Origin(s) \in Int /\ s.first \in Nat /\ Fields(s) \in Nat
        /\ \A f \in 0..Fields(s) : Before(s, f) \in Nat
        BY <2>2, MessageEnd, MessageTypes
  <2>4. CASE n = End(s)
        BY <2>3, <2>4
  <2>5. CASE n # End(s)
    <3>1. PICK f \in (s.first + 1)..Fields(s) : n = Origin(s) + Before(s, f)
          BY <2>1, <2>5
    <3> HIDE DEF s
    <3>2. f \in 0..Fields(s)
          BY ONLY <2>3, f \in (s.first + 1)..Fields(s)
    <3>3. Before(s, f) \in Nat
          BY <2>3, <3>2
    <3> QED BY ONLY <2>3, <3>1, <3>3
  <2> QED BY <2>4, <2>5
<1> QED BY <1>1, <1>2

\* The loop of resume_read starts with a field of the message it is given.
LEMMA TypeInit == Init => TypeInv
<1> SUFFICES ASSUME Init PROVE TypeInv
    OBVIOUS
<1>1. Len(script) \in Nat \ {0} /\ item = 1 /\ Open
      BY ScriptTypes DEF Init, Open
<1>2. Last0 \in Nat /\ Fields(S) \in Nat
      BY <1>1, ItemTypes DEF Init
<1> QED BY <1>1, <1>2 DEF Init, TypeInv, TypeOK

LEMMA TypeStep == TypeInv /\ [Next]_vars => TypeInv'
<1> SUFFICES ASSUME TypeInv, [Next]_vars PROVE TypeInv'
    OBVIOUS
<1> USE DEF TypeInv, TypeOK
<1>l. Len(script) \in Nat \ {0}
      BY ScriptTypes
<1>o. Open <=> item <= Len(script)
      BY <1>l DEF Open
<1>1. CASE UNCHANGED vars
      BY <1>1, SameItem DEF vars, streamVars
<1>2. CASE Arrive
  <2>1. PICK n \in Cuts : n > arrived /\ arrived' = n
        BY <1>2 DEF Arrive
  <2>2. n \in Nat
        BY <2>1, CutTypes
  <2> QED BY <1>2, <2>1, <2>2, SameItem DEF Arrive
<1>m. Open => Allocated \in Nat
      BY AllocatedTypes
<1>3. CASE Dispatch \/ TurnRefuses \/ TurnBlocks \/ TurnFails \/ SortDies \/ Hup
  <2>1. /\ script' = script /\ UNCHANGED <<arrived, pos, item, field, offset, nread, mempos>>
        /\ at' \in {"idle", "turn", "closed", "lost"}
        /\ (at = "idle" /\ item <= Len(script)) \/ at = "turn" \/ at' = "lost"
        BY <1>3 DEF Dispatch, TurnRefuses, TurnBlocks, TurnFails, SortDies, Hup, streamVars
  <2>2. bufsz' = bufsz \/ (at = "turn" /\ bufsz' = Allocated)
        BY <1>3 DEF Dispatch, TurnRefuses, TurnBlocks, TurnFails, SortDies, Hup, alloc_buf
  <2>3. S' = S /\ Last0' = Last0 /\ Open' = Open
        BY <2>1, SameItem
  <2>4. bufsz' \in Nat
        BY <1>m, <1>o, <2>2
  <2> QED BY <1>o, <2>1, <2>3, <2>4
<1>4. CASE TurnReads
  <2>1. Open /\ field \in 0..Last0
        BY <1>4, <1>o, <1>l DEF TurnReads
  <2>2. Taken \in Nat /\ Taken <= arrived - pos
        BY <2>1, ReadTypes
  <2>3. Before(S, field) \in Nat
    <3>1. item \in DOMAIN script /\ S = script[item] /\ Last0 = Fields(S) - 1 /\ Fields(S) \in Nat
          BY <2>1, ItemTypes
    <3>2. \A f \in 0..Fields(S) : Before(S, f) \in Nat
          BY <3>1, MessageTypes
    <3>3. field \in 0..Fields(S)
          BY ONLY <2>1, <3>1
    <3> QED BY <3>2, <3>3
  <2> QED BY <1>4, <1>m, <1>o, <2>1, <2>2, <2>3, SameItem DEF TurnReads, alloc_buf, streamVars
<1>5. CASE Sort
  <2>1. Open /\ field \in 0..Last0 /\ at = "sort"
        BY <1>5, <1>o, <1>l DEF Sort
  <2> DEFINE wiresz == calc_field_sz(field)
             n == field_nread
  <2>2. wiresz \in Nat /\ Sz(S, field) \in Nat /\ Last0 \in Nat /\ Fields(S) = Last0 + 1
        BY <2>1, SizeTypes, ItemTypes, MessageTypes
  <2>3. n \in Nat /\ nread - n \in Nat
    <3>1. n = IF wiresz < nread THEN wiresz ELSE nread
          BY DEF field_nread
    <3> HIDE DEF wiresz, n
    <3> QED BY <2>2, <3>1
  <2>4. nread' = nread - n /\ UNCHANGED <<streamVars, pos, item, bufsz>>
        BY <1>5 DEF Sort
  <2>5. \/ offset' = offset + n /\ at' = "turn" /\ UNCHANGED <<field, mempos>>
        \/ field < Last0 /\ field' = field + 1 /\ offset' = 0 /\ mempos' = mempos + offset + Sz(S, field)
           /\ UNCHANGED at
        \/ field = Last0 /\ field' = field + 1 /\ at' = "deliver" /\ UNCHANGED <<offset, mempos>>
        BY <1>5 DEF Sort
  <2> HIDE DEF n
  <2>6. script' = script /\ item' = item /\ arrived' = arrived /\ pos' = pos /\ bufsz' = bufsz
        BY <2>4 DEF streamVars
  <2>7. S' = S /\ Last0' = Last0 /\ Open' /\ item' <= Len(script')
        BY <1>o, <2>1, <2>6, SameItem
  <2>8. CASE field' = field
        BY <2>1, <2>2, <2>3, <2>4, <2>5, <2>6, <2>7, <2>8
  <2>9. CASE field' = field + 1 /\ field < Last0
    <3>1. offset' \in Nat /\ mempos' \in Nat /\ at' = "sort"
          BY <2>1, <2>2, <2>5, <2>9
    <3>2. field' \in 0..Last0
          BY <2>1, <2>2, <2>9
    <3> QED BY <2>2, <2>3, <2>4, <2>6, <2>7, <3>1, <3>2
  <2>10. CASE field' = field + 1 /\ field = Last0
        BY <2>1, <2>2, <2>3, <2>4, <2>5, <2>6, <2>7, <2>10
  <2> QED BY <2>5, <2>8, <2>9, <2>10
<1>6. CASE Deliver
  <2>1. Open /\ script' = script /\ item' = item + 1 /\ offset' = 0
        /\ UNCHANGED <<arrived, pos, bufsz, nread, mempos>>
        BY <1>6, <1>o DEF Deliver, streamVars
  <2>2. CASE item < Len(script)
    <3>1. Open' /\ S' = script[item + 1] /\ field' = S'.first /\ at' = "turn"
          BY <1>6, <1>l, <2>1, <2>2 DEF Deliver, Open, S
    <3>2. item + 1 \in DOMAIN script
          BY <1>l, <2>2, ScriptTypes
    <3>3. S'.first \in 0..(Fields(S') - 1) /\ Fields(S') \in Nat
          BY <3>1, <3>2, MessageTypes
    <3>4. field' <= Last0' /\ field' \in 0..Fields(S')
      <4>1. Last0' = Fields(S') - 1 /\ field' = S'.first
            BY <3>1 DEF Last0
      <4> QED BY ONLY <3>3, <4>1
    <3>5. item' \in 1..(Len(script') + 1) /\ item' <= Len(script')
      <4>1. item \in 1..(Len(script) + 1)
            OBVIOUS
      <4> QED BY ONLY <1>l, <2>1, <2>2, <4>1
    <3> QED BY <2>1, <3>1, <3>4, <3>5
  <2>3. CASE item = Len(script)
        BY <1>6, <1>l, <2>1, <2>3 DEF Deliver, Open
  <2> QED BY <1>o, <1>l, <2>1, <2>2, <2>3
<1>7. CASE DeliverLast
  <2>1. Open /\ script' = script /\ item' = item + 1 /\ offset' = 0 /\ field' = 0 /\ at' = "closed"
        /\ UNCHANGED <<arrived, pos, bufsz, nread, mempos>>
        BY <1>7, <1>o DEF DeliverLast, streamVars
  <2>2. item' <= Len(script) => Fields(S') \in Nat
    <3>1. item' <= Len(script) => item' \in DOMAIN script /\ S' = script[item']
          BY <1>l, <2>1, ScriptTypes DEF S
    <3> QED BY <3>1, MessageTypes
  <2> QED BY <1>o, <1>l, <2>1, <2>2
<1> QED BY <1>1, <1>2, <1>3, <1>4, <1>5, <1>6, <1>7 DEF Next, Read

\* Every variable keeps its type, and no more is read than has arrived, wherever
\* segments end (resume_read).
THEOREM TypeCorrect == Spec => []TypeOK
<1>1. TypeInv => TypeOK
      BY DEF TypeInv
<1> QED BY <1>1, TypeInit, TypeStep, PTL DEF Spec

-----------------------------------------------------------------------------
(* The allocation and the questions a turn asks, wherever segments end. *)

LEMMA HousedInit == Init => Housed
BY DEF Init, Housed

\* A read that goes on behind a header needs more memory than the header.
LEMMA RoomForMore ==
    ASSUME script \in Scripts, Open, item < Len(script), script[item + 1].first > 0, item' = item + 1,
           script' = script
    PROVE  Allocated <= Allocated'
<1> DEFINE s == script[item]
           t == script[item + 1]
<1>1. item \in DOMAIN script /\ item + 1 \in DOMAIN script /\ (item + 1) - 1 = item /\ item + 1 > 1
      BY ScriptTypes DEF Open
<1>2. Before(t, t.first) = Before(s, Fields(s))
      BY <1>1, LayoutAssumption
<1>3. t.first \in 0..Fields(t) /\ Fields(t) \in t.first..Fields(t) /\ Fields(t) \in 0..Fields(t)
      /\ Fields(s) \in 0..Fields(s)
  <2>1. Fields(t) \in Nat /\ t.first \in 0..(Fields(t) - 1) /\ Fields(s) \in Nat
        BY <1>1, MessageTypes
  <2> HIDE DEF s, t
  <2> QED BY <2>1
<1>4. Before(t, t.first) <= Before(t, Fields(t)) /\ Before(t, Fields(t)) \in Nat
      /\ Before(s, Fields(s)) \in Nat
      BY <1>1, <1>3, Rising, MessageTypes
<1>5. S = s /\ S' = t
      BY DEF S
<1> HIDE DEF s, t
<1> QED BY <1>2, <1>4, <1>5, Words DEF Allocated

LEMMA HousedStep == TypeInv /\ Housed /\ [Next]_vars => Housed'
<1> SUFFICES ASSUME TypeInv, Housed, [Next]_vars PROVE Housed'
    OBVIOUS
<1>t. script \in Scripts /\ bufsz \in Nat /\ Len(script) \in Nat /\ (Open <=> item <= Len(script))
      /\ (at \in {"turn", "sort", "deliver"} => Open)
      BY ScriptTypes DEF TypeInv, TypeOK, Open
<1>1. CASE Arrive \/ Dispatch \/ TurnRefuses \/ SortDies \/ Hup \/ UNCHANGED vars
  <2>1. UNCHANGED <<script, item, buf, bufsz>>
        /\ (at' \in {"sort", "deliver"} => at \in {"sort", "deliver"})
        BY <1>1 DEF Arrive, Dispatch, TurnRefuses, SortDies, Hup, vars, streamVars
  <2>2. Open' = Open /\ Allocated' = Allocated
        BY <2>1 DEF Open, Allocated, S
  <2> QED BY <2>1, <2>2 DEF Housed
<1>2. CASE TurnBlocks \/ TurnReads \/ TurnFails
  <2>1. at = "turn" /\ UNCHANGED <<script, item>> /\ alloc_buf
        BY <1>2 DEF TurnBlocks, TurnReads, TurnFails, streamVars
  <2>2. Open' = Open /\ Allocated' = Allocated /\ Allocated \in Nat
        BY <1>t, <2>1, AllocatedTypes DEF Open, Allocated, S
  <2>3. bufsz' = Allocated /\ DOMAIN buf' = DOMAIN buf
        BY <2>1, CopiesAll DEF alloc_buf, SameMemory
  <2>4. DOMAIN buf' \subseteq 0..(bufsz' - 1)
    <3> SUFFICES ASSUME NEW a \in DOMAIN buf PROVE a \in 0..(bufsz' - 1)
        BY <2>3
    <3>1. a \in 0..(bufsz - 1) /\ bufsz <= Allocated
          BY <1>t, <2>1 DEF Housed
    <3> QED BY <1>t, <2>2, <2>3, <3>1
  <2> QED BY <2>2, <2>3, <2>4 DEF Housed
<1>3. CASE Sort
  <2>1. /\ at = "sort" /\ UNCHANGED <<script, item, bufsz>>
        /\ buf' = Copied(mempos + offset, field_nread)
        BY <1>3 DEF Sort, streamVars
  <2>2. Open' = Open /\ Allocated' = Allocated /\ bufsz = Allocated /\ Allocated \in Nat
        BY <1>t, <2>1, AllocatedTypes DEF Open, Allocated, S, Housed
  <2>3. DOMAIN buf' \subseteq DOMAIN buf \cup 0..(bufsz - 1)
        BY <2>1 DEF Copied
  <2> QED BY <2>1, <2>2, <2>3 DEF Housed
<1>4. CASE Deliver \/ DeliverLast
  <2>1. /\ at = "deliver" /\ UNCHANGED <<script, bufsz>> /\ item' = item + 1
        /\ at' \notin {"sort", "deliver"}
        /\ buf' = <<>> \/ (buf' = buf /\ item < Len(script) /\ script[item + 1].first > 0)
        BY <1>4 DEF Deliver, DeliverLast, Kept, streamVars
  <2>2. CASE buf' = <<>>
        BY <2>1, <2>2 DEF Housed
  <2>3. CASE buf' = buf /\ item < Len(script) /\ script[item + 1].first > 0
    <3>1. bufsz = Allocated /\ Allocated <= Allocated'
          BY <1>t, <2>1, <2>3, RoomForMore DEF Housed
    <3> QED BY <2>1, <2>3, <3>1 DEF Housed
  <2> QED BY <2>1, <2>2, <2>3
<1> QED BY <1>1, <1>2, <1>3, <1>4 DEF Next, Read

-----------------------------------------------------------------------------
(* The cursor, if segments end where fields do: a segment that ends inside a    *)
(* field breaks it, as the run message_split shows.                             *)

\* Where the current message may be cut.
Edge(p) == p = End(S) \/ \E f \in 0..Fields(S) : p = Origin(S) + Before(S, f)

\* Between events and between turns, m_field is where the stream is, and what
\* lies before it is in memory.
Resting ==
    /\ nread = 0
    /\ pos = Origin(S) + Before(S, field)
    /\ Oversize \/ readsz > 0

\* In the middle of a read, what is not sorted yet begins with the field, and ends
\* with one: with the one before a variable field whose size is not known or is
\* too large.
Sorting ==
    /\ pos - nread = Origin(S) + Before(S, field)
    /\ mempos = Before(S, field)
    /\ Edge(pos)
    /\ Variable(S) /\ (field < Last0 \/ ~Legal(S)) => pos <= Origin(S) + Before(S, Last0)

\* What the message has in the allocation is in its place.
Intact(n) == \A a \in 0..(n - 1) : a < bufsz => a \in DOMAIN buf /\ buf[a] = Origin(S) + a

Finished ==
    /\ nread = 0 /\ pos = End(S) /\ Legal(S)
    /\ Before(S, Fields(S)) <= bufsz
    /\ Intact(End(S) - Origin(S))

Aligned ==
    /\ TypeInv
    /\ Housed
    /\ arrived = 0 \/ arrived \in Cuts
    /\ offset = 0
    /\ Open => pos <= End(S)
    /\ Open /\ at \in {"idle", "turn", "sort"} => field >= S.first /\ Upto(Before(S, field))
    /\ Open /\ at \in {"idle", "turn"} => Resting
    /\ at = "sort" => Sorting
    /\ at = "deliver" => Finished

\* A cut within a message is one of its own: other messages' are elsewhere.
LEMMA CutInside ==
    ASSUME script \in Scripts, Open, SplitInsideField = FALSE,
           NEW n \in Cuts, S.start < n, n < End(S)
    PROVE  Edge(n)
<1>1. PICK k \in 1..Len(script) :
          LET s == script[k]
          IN n = End(s) \/ \E f \in (s.first + 1)..Fields(s) : n = Origin(s) + Before(s, f)
      BY ScriptTypes DEF Cuts
<1>2. k \in DOMAIN script /\ Len(script) \in Nat /\ item \in 1..Len(script) /\ S = script[item]
      BY ScriptTypes DEF Open, S
<1> DEFINE s == script[k]
<1>3. End(s) \in Nat /\ Origin(s) \in Int /\ s.first \in 0..Fields(s) /\ Fields(s) \in Nat
      /\ s.start \in Nat /\ s.payload \in Nat /\ \A f \in 0..Fields(s) : Before(s, f) \in Nat
  <2>1. Fields(s) \in Nat /\ s.first \in 0..(Fields(s) - 1)
        BY <1>2, MessageTypes
  <2>2. End(s) \in Nat /\ Origin(s) \in Int
        BY <1>2, MessageEnd
  <2>3. s.start \in Nat /\ s.payload \in Nat /\ \A f \in 0..Fields(s) : Before(s, f) \in Nat
        BY <1>2, MessageTypes
  <2> HIDE DEF s
  <2> QED BY <2>1, <2>2, <2>3
<1>4. s.start <= n /\ n <= End(s)
  <2>1. CASE n = End(s)
        BY <1>2, <1>3, <2>1, MessageEnd
  <2>2. CASE n # End(s)
    <3>1. PICK f \in (s.first + 1)..Fields(s) : n = Origin(s) + Before(s, f)
          BY <1>1, <2>2
    <3>2. f \in s.first..Fields(s) /\ f \in 0..Fields(s) /\ Fields(s) \in f..Fields(s)
      <4> HIDE DEF s
      <4>1. PICK first, last : first = s.first /\ last = Fields(s)
            OBVIOUS
      <4>2. last \in Nat /\ first \in 0..last /\ f \in (first + 1)..last
            BY ONLY <1>3, <4>1, f \in (s.first + 1)..Fields(s), Zenon
      <4>3. f \in first..last /\ f \in 0..last /\ last \in f..last
            BY ONLY <4>2
      <4> QED BY ONLY <4>1, <4>3, Zenon
    <3>3. Before(s, s.first) <= Before(s, f) /\ Before(s, f) <= Before(s, Fields(s))
          BY <1>2, <1>3, <3>2, Rising
    <3>4. Origin(s) + Before(s, s.first) = s.start /\ End(s) = Origin(s) + Before(s, Fields(s)) + s.payload
          BY <1>2, MessageEnd
    <3>5. Before(s, s.first) \in Nat /\ Before(s, f) \in Nat /\ Before(s, Fields(s)) \in Nat
          BY <1>3, <3>2
    <3>6. End(s) \in Nat /\ Origin(s) \in Int /\ s.payload \in Nat
          BY <1>3
    <3> HIDE DEF s
    <3>7. n = Origin(s) + Before(s, f)
          BY <3>1
    <3>8. PICK start, first, mid, last, end, origin, payload :
              /\ start = s.start /\ first = Before(s, s.first) /\ mid = Before(s, f)
              /\ last = Before(s, Fields(s)) /\ end = End(s) /\ origin = Origin(s)
              /\ payload = s.payload
          OBVIOUS
    <3>9. /\ first <= mid /\ mid <= last /\ origin + first = start /\ end = origin + last + payload
          /\ first \in Nat /\ mid \in Nat /\ last \in Nat
          /\ end \in Nat /\ origin \in Int /\ payload \in Nat /\ n = origin + mid
          BY ONLY <3>3, <3>4, <3>5, <3>6, <3>7, <3>8, Zenon
    <3>10. start <= n /\ n <= end
           BY ONLY <3>9
    <3> QED BY ONLY <3>8, <3>10, Zenon
  <2> QED BY <2>1, <2>2
<1>5. S.start \in Nat /\ End(S) \in Nat
      BY <1>2, MessageEnd, MessageTypes
<1>6. ~(k < item)
  <2> SUFFICES ASSUME k < item PROVE FALSE
      OBVIOUS
  <2>1. item \in (k + 1)..Len(script)
        BY <1>2
  <2>2. End(s) <= S.start
        BY <1>2, <2>1, Apart
  <2> QED BY <1>2, <1>3, <1>4, <1>5, <2>2, CutTypes
<1>7. ~(item < k)
  <2> SUFFICES ASSUME item < k PROVE FALSE
      OBVIOUS
  <2>1. k \in (item + 1)..Len(script)
        BY <1>2
  <2>2. End(S) <= s.start
        BY <1>2, <2>1, Apart
  <2> QED BY <1>2, <1>3, <1>4, <1>5, <2>2, CutTypes
<1>8. s = S
      BY <1>2, <1>6, <1>7
<1> QED BY <1>1, <1>3, <1>8 DEF Edge

\* Within a field there is no edge but where it begins.
LEMMA EdgeOfField ==
    ASSUME script \in Scripts, Open, field \in 0..Last0, NEW p \in Int, Edge(p),
           Origin(S) + Before(S, field) <= p, p < Origin(S) + Before(S, field + 1)
    PROVE  p = Origin(S) + Before(S, field)
<1>1. item \in DOMAIN script /\ S = script[item] /\ Fields(S) \in Nat /\ Last0 = Fields(S) - 1
      /\ field \in 0..Fields(S) /\ field + 1 \in 0..Fields(S) /\ Fields(S) \in (field + 1)..Fields(S)
      BY ItemTypes
<1>2. Origin(S) \in Int /\ S.payload \in Nat /\ End(S) = Origin(S) + Before(S, Fields(S)) + S.payload
      /\ \A f \in 0..Fields(S) : Before(S, f) \in Nat
      BY <1>1, MessageEnd, MessageTypes
<1>3. Before(S, field + 1) <= Before(S, Fields(S))
      BY <1>1, Rising
<1>4. p # End(S)
      BY <1>1, <1>2, <1>3
<1>5. PICK f \in 0..Fields(S) : p = Origin(S) + Before(S, f)
      BY <1>4 DEF Edge
<1>6. CASE f <= field
  <2>1. Before(S, f) <= Before(S, field)
        BY <1>1, <1>6, Rising
  <2> QED BY <1>1, <1>2, <1>5, <2>1
<1>7. CASE f > field
  <2>1. Before(S, field + 1) <= Before(S, f)
        BY <1>1, <1>7, Rising
  <2> QED BY <1>1, <1>2, <1>5, <2>1
<1> QED BY <1>1, <1>6, <1>7

\* A turn asks for something, of any field but an empty variable one (readsz).
LEMMA Asks ==
    script \in Scripts /\ Open /\ offset = 0 /\ field \in 0..Last0 /\ ~(Variable(S) /\ field = Last0)
        => readsz > 0
<1> SUFFICES ASSUME script \in Scripts, Open, offset = 0, field \in 0..Last0,
                    ~(Variable(S) /\ field = Last0)
             PROVE  readsz > 0
    OBVIOUS
<1>1. item \in DOMAIN script /\ S = script[item] /\ Fields(S) \in Nat \ {0} /\ Last0 = Fields(S) - 1
      /\ field \in 0..(Fields(S) - 1) /\ field + 1 \in 0..Fields(S)
      BY ItemTypes
<1>2. /\ \A f \in 0..Fields(S) : Before(S, f) \in Nat
      /\ Sz(S, field) \in Nat /\ Before(S, field + 1) = Before(S, field) + Sz(S, field)
      BY <1>1, MessageTypes
<1>3. Sz(S, field) # 0
  <2>1. Laid(S)
        BY <1>1, LayoutAssumption
  <2>2. (Sz(S, field) = 0) = (Variable(S) /\ field = Fields(S) - 1)
        BY <1>1, <2>1 DEF Laid
  <2> QED BY <1>1, <2>2
<1>4. Pending \in Nat /\ Pending > 0
  <2>1. CASE field = Last0
        BY <1>2, <1>3, <2>1, SizeTypes DEF Pending
  <2>2. CASE field # Last0
    <3> DEFINE T == IF Variable(S) THEN Last0 ELSE Fields(S)
    <3>1. T \in (field + 1)..Fields(S) /\ T \in 0..Fields(S)
          BY <1>1, <2>2
    <3>2. Before(S, field + 1) <= Before(S, T)
          BY <1>1, <3>1, Rising
    <3>3. Pending = Before(S, T) - Before(S, field)
          BY <2>2 DEF Pending
    <3>4. Before(S, T) \in Nat /\ Before(S, field) \in Nat /\ Before(S, field + 1) \in Nat
          BY <1>1, <1>2, <3>1
    <3> HIDE DEF T
    <3> QED BY <1>2, <1>3, <3>2, <3>3, <3>4
  <2> QED BY <2>1, <2>2
<1> QED BY <1>4 DEF readsz

\* A message that is not refused is asked for up to its end, or up to a variable
\* field whose size is yet to come.
LEMMA Target ==
    ASSUME script \in Scripts, Open, offset = 0, field \in 0..Last0, Upto(Before(S, field)),
           pos = Origin(S) + Before(S, field), ~Oversize
    PROVE  /\ readsz = Pending /\ readsz \in Nat
           /\ pos + readsz <= End(S) /\ Edge(pos + readsz)
           /\ Variable(S) /\ (field < Last0 \/ ~Legal(S)) => pos + readsz <= Origin(S) + Before(S, Last0)
<1>1. item \in DOMAIN script /\ S = script[item] /\ Fields(S) \in Nat \ {0} /\ Last0 = Fields(S) - 1
      /\ field \in 0..(Fields(S) - 1) /\ Last0 \in 0..Fields(S)
      BY ItemTypes
<1>2. /\ \A f \in 0..Fields(S) : Before(S, f) \in Nat
      /\ Origin(S) \in Int /\ S.payload \in Nat /\ End(S) \in Nat
      /\ End(S) = Origin(S) + Before(S, Fields(S)) + S.payload
      /\ ~Variable(S) => End(S) = Origin(S) + Before(S, Fields(S))
      /\ Variable(S) => Before(S, Fields(S)) = Before(S, Last0)
      BY <1>1, MessageEnd, MessageTypes
<1>3. calc_field_sz(field) \in Nat
      BY SizeTypes
<1>4. CASE field = Last0 /\ Variable(S)
  <2>1. Legal(S) /\ calc_field_sz(Last0) = S.payload
        BY <1>4, CountRight DEF Oversize
  <2>2. Pending = S.payload
        BY <1>4, <2>1 DEF Pending
  <2>3. readsz = S.payload
        BY <1>2, <2>2 DEF readsz
  <2>4. pos + readsz = End(S)
        BY <1>1, <1>2, <1>4, <2>3
  <2> QED BY <1>2, <1>4, <2>1, <2>2, <2>3, <2>4 DEF Edge
<1>5. CASE field = Last0 /\ ~Variable(S)
  <2>1. Pending = Sz(S, Last0) /\ Sz(S, Last0) \in Nat
        BY <1>3, <1>5, SizeTypes DEF Pending
  <2>2. Before(S, Fields(S)) = Before(S, Last0) + Sz(S, Last0)
    <3>1. Last0 \in 0..(Fields(S) - 1) /\ Last0 + 1 = Fields(S)
          BY <1>1
    <3> QED BY <1>1, <3>1, MessageTypes
  <2>3. readsz = Sz(S, Last0)
        BY <2>1 DEF readsz
  <2>4. pos + readsz = End(S)
        BY <1>1, <1>2, <1>5, <2>1, <2>2, <2>3
  <2> QED BY <1>2, <1>5, <2>1, <2>3, <2>4 DEF Edge
<1>6. CASE field # Last0
  <2> DEFINE T == IF Variable(S) THEN Last0 ELSE Fields(S)
  <2>1. T \in field..Fields(S) /\ T \in 0..Fields(S) /\ field \in 0..Fields(S)
        BY <1>1
  <2>2. Before(S, field) <= Before(S, T) /\ Before(S, T) \in Nat /\ Before(S, field) \in Nat
        BY <1>1, <1>2, <2>1, Rising
  <2>3. Pending = Before(S, T) - Before(S, field)
        BY <1>6 DEF Pending
  <2>4. readsz = Before(S, T) - Before(S, field)
        BY <2>2, <2>3 DEF readsz
  <2>5. pos + readsz = Origin(S) + Before(S, T)
        BY <1>2, <2>2, <2>4
  <2>6. Origin(S) + Before(S, T) <= End(S)
    <3>1. Before(S, Fields(S)) \in Nat /\ Before(S, T) <= Before(S, Fields(S))
      <4>1. Fields(S) \in T..Fields(S) /\ Fields(S) \in 0..Fields(S)
            BY <1>1, <2>1
      <4> HIDE DEF T
      <4> QED BY <1>1, <1>2, <2>1, <4>1, Rising
    <3> HIDE DEF T
    <3> QED BY <1>2, <2>2, <3>1
  <2>7. Edge(pos + readsz)
        BY <2>1, <2>5 DEF Edge
  <2>8. Variable(S) => T = Last0
        OBVIOUS
  <2>9. Before(S, Last0) \in Nat
        BY <1>1, <1>2
  <2> HIDE DEF T
  <2> QED BY <1>2, <2>2, <2>3, <2>4, <2>5, <2>6, <2>7, <2>8, <2>9
<1> QED BY <1>4, <1>5, <1>6

\* The lemmas on the message being read, after a step.
LEMMA AsksNext ==
    (script \in Scripts /\ Open /\ offset = 0 /\ field \in 0..Last0 /\ ~(Variable(S) /\ field = Last0)
        => readsz > 0)'
BY Asks, PTL

LEMMA CountNext ==
    (script \in Scripts /\ Open /\ Variable(S) /\ Upto(Before(S, Last0))
        => /\ Legal(S) => calc_field_sz(Last0) = S.payload /\ S.payload < SizeT - 1
           /\ ~Legal(S) => calc_field_sz(Last0) = SizeT - 1)'
BY CountRight, PTL

\* A step that leaves the cursor alone, too, rests where it did.
LEMMA SameCursor ==
    ASSUME UNCHANGED <<script, item, field, offset>>, SameMemory
    PROVE  /\ S' = S /\ Last0' = Last0 /\ Open' = Open /\ Cuts' = Cuts
           /\ Oversize' = Oversize /\ readsz' = readsz
           /\ \A n : Upto(n)' = Upto(n)
           /\ \A p : Edge(p)' = Edge(p)
<1>1. S' = S /\ Last0' = Last0 /\ Open' = Open /\ Cuts' = Cuts
      BY DEF S, Last0, Open, Cuts
<1>2. extract_integer' = extract_integer
      BY <1>1 DEF extract_integer, SameMemory
<1>3. extract_elementcount' = extract_elementcount
      BY <1>1, <1>2 DEF extract_elementcount
<1>4. \A f : calc_field_sz(f)' = calc_field_sz(f)
      BY <1>1, <1>3 DEF calc_field_sz
<1>5. Oversize' = Oversize /\ readsz' = readsz
      BY <1>1, <1>4 DEF Oversize, readsz, Pending
<1>6. \A n : Upto(n)' = Upto(n)
      BY <1>1 DEF Upto, SameMemory
<1> QED BY <1>1, <1>5, <1>6 DEF Edge

-----------------------------------------------------------------------------
(* The questions a turn asks, wherever segments end. *)

\* A field that has not been begun is asked for.
Asking == Open /\ at \in {"idle", "turn"} /\ offset = 0 => Oversize \/ readsz > 0

AsksInv == TypeInv /\ Housed /\ Asking

LEMMA AskingInit == Init => Asking
<1> SUFFICES ASSUME Init PROVE readsz > 0
    BY DEF Asking
<1>1. script \in Scripts /\ item = 1 /\ Open /\ item \in DOMAIN script /\ field = 0 /\ offset = 0
      BY ScriptTypes DEF Init, Open
<1>2. S.first \in Nat /\ (Variable(S) => Last0 > 0) /\ Last0 \in Nat
      BY <1>1, ItemTypes, MessageTypes
<1> QED BY <1>1, <1>2, Asks

LEMMA AskingStep == AsksInv /\ [Next]_vars => Asking'
<1> SUFFICES ASSUME AsksInv, [Next]_vars PROVE Asking'
    OBVIOUS
<1>t. script \in Scripts /\ Len(script) \in Nat /\ (Open <=> item <= Len(script))
      /\ (at \in {"turn", "sort", "deliver"} => Open) /\ TypeInv' /\ offset \in Nat /\ nread \in Nat
      BY ScriptTypes, TypeStep DEF AsksInv, TypeInv, TypeOK, Open
<1>1. CASE Arrive \/ Dispatch \/ TurnRefuses \/ TurnBlocks \/ TurnReads \/ TurnFails \/ SortDies \/ Hup
           \/ UNCHANGED vars
  <2>1. /\ UNCHANGED <<script, item, field, offset>>
        /\ at' \in {"idle", "turn"} => at \in {"idle", "turn"}
        /\ UNCHANGED buf \/ alloc_buf
        BY <1>1 DEF Arrive, Dispatch, TurnRefuses, TurnBlocks, TurnReads, TurnFails, SortDies, Hup, vars,
           streamVars
  <2>2. SameMemory
        BY <2>1, CopiesAll DEF AsksInv, SameMemory
  <2>3. Open' = Open /\ Oversize' = Oversize /\ readsz' = readsz
        BY <2>1, <2>2, SameCursor
  <2> QED BY <2>1, <2>3 DEF AsksInv, Asking
<1>2. CASE Sort
  <2> SUFFICES ASSUME at' = "turn", offset' = 0 PROVE readsz' > 0
      BY <1>2 DEF Sort, Asking
  <2> DEFINE n == field_nread
             wiresz == calc_field_sz(field)
  <2>1. /\ at = "sort" /\ UNCHANGED <<script, item, field>> /\ buf' = Copied(mempos + offset, n)
        /\ LeftOff(n, wiresz) /\ offset' = offset + n
        BY <1>2 DEF Sort, streamVars
  <2>2. Open /\ field \in 0..Last0 /\ wiresz \in Nat
    <3>1. Open /\ field \in 0..Last0
          BY <1>t, <2>1 DEF AsksInv, TypeInv, TypeOK
    <3> QED BY <1>t, <3>1, SizeTypes
  <2>3. n \in Nat
    <3>1. n = IF wiresz < nread THEN wiresz ELSE nread
          BY DEF field_nread
    <3> HIDE DEF n, wiresz
    <3> QED BY <1>t, <2>2, <3>1
  <2> HIDE DEF n
  <2>4. n = 0 /\ offset = 0
        BY <1>t, <2>1, <2>3
  <2>5. wiresz > 0
        BY <2>1, <2>2, <2>4 DEF LeftOff
  <2>6. SameMemory
    <3>1. mempos \in Nat /\ (mempos + offset)..(mempos + offset + n - 1) = {}
          BY <1>t, <2>4 DEF AsksInv, TypeInv, TypeOK
    <3> QED BY <2>1, <3>1 DEF Copied, SameMemory
  <2>7. readsz' = readsz
        BY <2>1, <2>4, <2>6, SameCursor
  <2>8. CASE field = Last0
    <3>1. Pending = wiresz
          BY <2>8 DEF Pending
    <3> HIDE DEF wiresz
    <3> QED BY <2>2, <2>4, <2>5, <2>7, <3>1 DEF readsz
  <2>9. CASE field # Last0
        BY <1>t, <2>2, <2>4, <2>7, <2>9, Asks
  <2> QED BY <2>8, <2>9
<1>3. CASE Deliver \/ DeliverLast
  <2> SUFFICES ASSUME Open', at' \in {"idle", "turn"} PROVE readsz' > 0
      BY DEF Asking
  <2>1. script' = script /\ item' = item + 1 /\ offset' = 0 /\ at = "deliver" /\ item \in 1..Len(script)
        BY <1>3, <1>t DEF Deliver, DeliverLast, Open, streamVars
  <2>2. item < Len(script) /\ item + 1 \in DOMAIN script
        BY <1>t, <2>1, ScriptTypes DEF Open
  <2>3. field' = script[item + 1].first
        BY <1>3, <2>1, <2>2 DEF Deliver, DeliverLast
  <2> DEFINE s == script[item + 1]
  <2>4. s.first \in 0..(Fields(s) - 1) /\ Fields(s) \in Nat /\ (Variable(s) => s.first < Fields(s) - 1)
        BY <1>t, <2>2, MessageTypes
  <2>5. S' = s /\ Last0' = Fields(s) - 1
        BY <2>1 DEF S, Last0
  <2>6. script' \in Scripts /\ field' \in 0..Last0' /\ ~(Variable(S') /\ field' = Last0')
    <3> HIDE DEF s
    <3>1. field' = s.first
          BY <2>3 DEF s
    <3> QED BY <1>t, <2>1, <2>4, <2>5, <3>1
  <2> QED BY <2>1, <2>6, AsksNext
<1> QED BY <1>1, <1>2, <1>3 DEF Next, Read

LEMMA AlwaysAsking == Spec => []AsksInv
<1>1. Init => AsksInv
      BY TypeInit, HousedInit, AskingInit DEF AsksInv
<1>2. AsksInv /\ [Next]_vars => AsksInv'
      BY TypeStep, HousedStep, AskingStep DEF AsksInv
<1> QED BY <1>1, <1>2, PTL DEF Spec

\* The copy of m_bufsz bytes into new memory always fits it, whatever the field tables
\* and wherever segments end (alloc_buf).
THEOREM CopyBounded == Spec => []CopyFits
<1>1. AsksInv => CopyFits
      BY ScriptTypes DEF AsksInv, TypeInv, TypeOK, Housed, CopyFits, Open
<1> QED BY <1>1, AlwaysAsking, PTL

\* Wherever segments end, a turn of resume_read that asks the socket for nothing has
\* left off inside a field: the defect at client_base.cpp:300 (message_split) is the
\* only way for the loop to spin.
THEOREM TurnsAsk == Spec => []AsksUnlessCut
<1>1. AsksInv => AsksUnlessCut
      BY ScriptTypes DEF AsksInv, TypeInv, TypeOK, Asking, AsksUnlessCut, Open
<1> QED BY <1>1, AlwaysAsking, PTL

-----------------------------------------------------------------------------
LEMMA AlignedInit == SplitInsideField = FALSE /\ Init => Aligned
<1> SUFFICES ASSUME SplitInsideField = FALSE, Init PROVE Aligned
    OBVIOUS
<1>1. TypeInv
      BY TypeInit
<1>2. /\ script \in Scripts /\ Open /\ item \in DOMAIN script /\ S = script[item] /\ Last0 \in Nat
      /\ item = 1 /\ pos = 0 /\ nread = 0 /\ field = 0 /\ offset = 0 /\ arrived = 0 /\ at = "idle"
  <2>1. script \in Scripts /\ item = 1 /\ Open
        BY ScriptTypes DEF Init, Open
  <2> QED BY <2>1, ItemTypes DEF Init
<1>3. S.start = 0 /\ S.first = 0 /\ End(S) \in Nat /\ Origin(S) \in Int /\ Before(S, 0) \in Nat
  <2>1. S.first \in Nat /\ 0 \in 0..Fields(S)
        BY <1>2, MessageTypes
  <2>2. S.first > 0 => item > 1
        BY <1>2, LayoutAssumption
  <2> QED BY <1>2, <2>1, <2>2, ScriptTypes, MessageEnd, MessageTypes
<1>4. Before(S, 0) = 0
  <2>1. Laid(S) /\ 0 \in 0..Fields(S)
        BY <1>2, LayoutAssumption, MessageTypes
  <2> QED BY <2>1 DEF Laid
<1>5. Origin(S) + Before(S, 0) = 0
      BY <1>2, <1>3, <1>4, MessageEnd
<1>6. readsz > 0
  <2>1. ~(Variable(S) /\ field = Last0)
        BY <1>2, <1>3, MessageTypes, ItemTypes
  <2> QED BY <1>2, <2>1, Asks
<1>7. Upto(Before(S, field))
      BY <1>2, <1>4 DEF Upto
<1> QED BY <1>1, <1>2, <1>3, <1>5, <1>6, <1>7, HousedInit DEF Aligned, Resting

\* Steps that move no byte.
LEMMA StepsAside ==
    ASSUME Aligned, TypeInv', Housed',
           Dispatch \/ TurnRefuses \/ TurnBlocks \/ TurnFails \/ SortDies \/ Hup \/ UNCHANGED vars
    PROVE  Aligned'
<1> USE DEF Dispatch, TurnRefuses, TurnBlocks, TurnFails, SortDies, Hup, vars, streamVars
<1>1. UNCHANGED <<script, arrived, pos, item, field, offset, nread, mempos>>
      OBVIOUS
<1>2. at' = at \/ (at' \in {"idle", "turn"} /\ at \in {"idle", "turn"}) \/ at' \in {"closed", "lost"}
      OBVIOUS
<1>3. UNCHANGED <<buf, bufsz>> \/ (alloc_buf /\ at' # "deliver")
      OBVIOUS
<1> USE DEF Aligned
<1>4. SameMemory
      BY <1>3, CopiesAll DEF SameMemory
<1>5. /\ S' = S /\ Last0' = Last0 /\ Open' = Open /\ Cuts' = Cuts
      /\ Oversize' = Oversize /\ readsz' = readsz
      /\ \A n : Upto(n)' = Upto(n)
      /\ \A p : Edge(p)' = Edge(p)
      BY <1>1, <1>4, SameCursor
<1>6. Resting' = Resting /\ Sorting' = Sorting
      BY <1>1, <1>5 DEF Resting, Sorting
<1>7. at' = "deliver" => Finished' = Finished
      BY <1>1, <1>3, <1>5 DEF Finished, Intact
<1>8. at' \in {"idle", "turn", "sort"} => at \in {"idle", "turn", "sort"}
      BY <1>2
<1>9. (at' \in {"idle", "turn"} => at \in {"idle", "turn"}) /\ (at' = "sort" => at = "sort")
      /\ (at' = "deliver" => at = "deliver")
      BY <1>2
<1> QED BY <1>1, <1>5, <1>6, <1>7, <1>8, <1>9

LEMMA StepArrive ==
    ASSUME Aligned, TypeInv', Housed', Arrive
    PROVE  Aligned'
<1>1. UNCHANGED <<script, pos, item, field, offset, buf, bufsz, nread, mempos, at>> /\ arrived' \in Cuts
      BY DEF Arrive
<1>m. SameMemory
      BY <1>1 DEF SameMemory
<1>2. /\ S' = S /\ Last0' = Last0 /\ Open' = Open /\ Cuts' = Cuts
      /\ Oversize' = Oversize /\ readsz' = readsz
      /\ \A n : Upto(n)' = Upto(n)
      /\ \A p : Edge(p)' = Edge(p)
      BY <1>1, <1>m, SameCursor
<1>3. Resting' = Resting /\ Sorting' = Sorting /\ Finished' = Finished
      BY <1>1, <1>2 DEF Resting, Sorting, Finished, Intact
<1> QED BY <1>1, <1>2, <1>3 DEF Aligned

\* A read ends at a segment's end or where it was meant to.
LEMMA StepReads ==
    ASSUME SplitInsideField = FALSE, Aligned, TypeInv', Housed', TurnReads
    PROVE  Aligned'
<1>1. /\ at = "turn" /\ at' = "sort" /\ ~Oversize /\ nread' = Taken /\ pos' = pos + Taken
      /\ mempos' = Before(S, field) /\ pos < arrived
      /\ UNCHANGED <<script, arrived, item, field, offset>> /\ alloc_buf
      BY DEF TurnReads, streamVars
<1>m. SameMemory
      BY <1>1, CopiesAll DEF Aligned
<1>2. /\ script \in Scripts /\ Open /\ field \in 0..Last0 /\ offset = 0 /\ arrived \in Nat /\ pos \in 0..arrived
      /\ Resting /\ field >= S.first /\ Upto(Before(S, field))
  <2>1. item \in 1..Len(script)
        BY <1>1, ScriptTypes DEF Aligned, TypeInv, TypeOK
  <2> QED BY <1>1, <2>1 DEF Aligned, TypeInv, TypeOK, Open
<1>3. pos = Origin(S) + Before(S, field)
      BY <1>2 DEF Resting
<1>4. /\ readsz \in Nat /\ pos + readsz <= End(S) /\ Edge(pos + readsz)
      /\ Variable(S) /\ (field < Last0 \/ ~Legal(S)) => pos + readsz <= Origin(S) + Before(S, Last0)
      BY <1>1, <1>2, <1>3, Target
<1>5. /\ Taken \in Nat /\ Taken <= readsz /\ (Taken = readsz \/ pos + Taken = arrived)
      BY <1>2, ReadTypes
<1>6. /\ item \in DOMAIN script /\ S = script[item] /\ Fields(S) \in Nat /\ Last0 = Fields(S) - 1
      /\ S.first \in 0..Last0 /\ S.start \in Nat /\ Origin(S) \in Int /\ End(S) \in Nat
      /\ Origin(S) + Before(S, S.first) = S.start
      /\ \A f \in 0..Fields(S) : Before(S, f) \in Nat
      BY <1>2, ItemTypes, MessageTypes, MessageEnd
<1>7. S.start <= pos
  <2>1. S.first \in 0..Fields(S) /\ field \in S.first..Fields(S) /\ field \in 0..Fields(S)
        BY <1>2, <1>6
  <2>2. Before(S, S.first) <= Before(S, field) /\ Before(S, S.first) \in Nat /\ Before(S, field) \in Nat
        BY <1>2, <1>6, <2>1, Rising
  <2> QED BY <1>3, <1>6, <2>2
<1>8. Edge(pos')
  <2>1. CASE Taken = readsz
        BY <1>1, <1>4, <2>1
  <2>2. CASE Taken # readsz
    <3>1. arrived \in Cuts /\ pos' = arrived
          BY <1>1, <1>2, <1>5, <2>2 DEF Aligned
    <3>2. S.start < arrived /\ arrived < End(S)
          BY <1>1, <1>2, <1>4, <1>5, <1>6, <1>7, <2>2
    <3> QED BY <1>2, <3>1, <3>2, CutInside
  <2> QED BY <2>1, <2>2
<1>9. /\ S' = S /\ Last0' = Last0 /\ Open' = Open /\ Cuts' = Cuts
      /\ \A n : Upto(n)' = Upto(n)
      /\ \A p : Edge(p)' = Edge(p)
      BY <1>1, <1>m, SameCursor
<1>10. pos' <= End(S)
       BY <1>1, <1>2, <1>4, <1>5, <1>6
<1>11. Sorting'
  <2>1. pos' - nread' = Origin(S) + Before(S, field)
        BY <1>1, <1>2, <1>3, <1>5
  <2>2. Last0 \in 0..Fields(S)
        BY <1>2, <1>6
  <2>3. Before(S, Last0) \in Nat
        BY <1>6, <2>2
  <2>4. Variable(S) /\ (field < Last0 \/ ~Legal(S)) => pos' <= Origin(S) + Before(S, Last0)
        BY <1>1, <1>2, <1>4, <1>5, <1>6, <2>3
  <2> QED BY <1>1, <1>8, <1>9, <2>1, <2>4 DEF Sorting
<1> QED BY <1>1, <1>2, <1>9, <1>10, <1>11 DEF Aligned

\* A field is put together, or its bytes are all still to come.
LEMMA StepSort ==
    ASSUME Aligned, TypeInv', Housed', Sort
    PROVE  Aligned'
<1> DEFINE wiresz == calc_field_sz(field)
           n == field_nread
<1>1. /\ at = "sort" /\ UNCHANGED <<script, arrived, pos, item, bufsz>> /\ nread' = nread - n
      /\ buf' = Copied(mempos + offset, n)
      BY DEF Sort, streamVars
<1>s. \/ /\ LeftOff(n, wiresz)
         /\ offset' = offset + n /\ at' = "turn" /\ UNCHANGED <<field, mempos>>
      \/ /\ ~LeftOff(n, wiresz) /\ field < Last0
         /\ field' = field + 1 /\ offset' = 0 /\ mempos' = mempos + offset + Sz(S, field) /\ UNCHANGED at
      \/ /\ ~LeftOff(n, wiresz) /\ field = Last0
         /\ field' = field + 1 /\ at' = "deliver" /\ UNCHANGED <<offset, mempos>>
      BY DEF Sort
<1>2. /\ script \in Scripts /\ Open /\ field \in 0..Last0 /\ offset = 0 /\ nread \in Nat /\ pos \in Nat
      /\ Sorting /\ field >= S.first /\ Upto(Before(S, field)) /\ pos <= End(S)
  <2>1. item \in 1..Len(script)
        BY <1>1, ScriptTypes DEF Aligned, TypeInv, TypeOK
  <2> QED BY <1>1, <2>1 DEF Aligned, TypeInv, TypeOK, Open
<1>3. /\ item \in DOMAIN script /\ S = script[item] /\ Fields(S) \in Nat /\ Last0 = Fields(S) - 1
      /\ S.payload \in Nat /\ Origin(S) \in Int /\ End(S) \in Nat
      /\ \A f \in 0..Fields(S) : Before(S, f) \in Nat
      /\ End(S) = Origin(S) + Before(S, Fields(S)) + S.payload
      /\ ~Variable(S) => End(S) = Origin(S) + Before(S, Fields(S))
      /\ Variable(S) => Before(S, Fields(S)) = Before(S, Last0)
      BY <1>2, ItemTypes, MessageTypes, MessageEnd
<1>4. field \in 0..Fields(S) /\ field + 1 \in 0..Fields(S) /\ field \in 0..(Fields(S) - 1)
      /\ Before(S, field) \in Nat /\ Before(S, field + 1) \in Nat
      BY <1>2, <1>3
<1>5. Sz(S, field) \in Nat /\ Before(S, field + 1) = Before(S, field) + Sz(S, field)
      BY <1>2, <1>3, <1>4, MessageTypes
<1>6. wiresz \in Nat /\ n \in Nat /\ n <= wiresz /\ n <= nread
  <2>1. wiresz \in Nat
        BY <1>2, SizeTypes
  <2>2. n = IF wiresz < nread THEN wiresz ELSE nread
        BY DEF field_nread
  <2> HIDE DEF wiresz, n
  <2> QED BY <1>2, <2>1, <2>2
<1>w. n = IF wiresz < nread THEN wiresz ELSE nread
      BY DEF field_nread
<1>7. mempos = Before(S, field) /\ pos - nread = Origin(S) + Before(S, field) /\ Edge(pos)
      BY <1>2 DEF Sorting
<1>8. S' = S /\ Last0' = Last0 /\ Open' /\ Cuts' = Cuts /\ \A p : Edge(p)' = Edge(p)
      BY <1>1, <1>2 DEF S, Last0, Open, Cuts, Edge
\* The fixed fields have room.
<1>r. bufsz \in Nat /\ Before(S, Fields(S)) <= bufsz /\ Before(S, Fields(S)) \in Nat
      /\ Before(S, field) <= Before(S, Fields(S)) /\ Before(S, field + 1) <= Before(S, Fields(S))
  <2>1. bufsz = Allocated /\ Allocated \in Nat /\ Before(S, Fields(S)) <= Allocated
        BY <1>1, <1>2, AllocatedTypes DEF Aligned, Housed
  <2>2. Fields(S) \in field..Fields(S) /\ Fields(S) \in (field + 1)..Fields(S) /\ Fields(S) \in 0..Fields(S)
        BY <1>2, <1>3
  <2> QED BY <1>2, <1>3, <1>4, <2>1, <2>2, Rising
\* The bytes put at mem are the ones that belong there.
<1>9. \A a \in 0..(Before(S, field) + n - 1) : a < bufsz => a \in DOMAIN buf' /\ buf'[a] = Origin(S) + a
  <2> SUFFICES ASSUME NEW a \in 0..(Before(S, field) + n - 1), a < bufsz
               PROVE  a \in DOMAIN buf' /\ buf'[a] = Origin(S) + a
      OBVIOUS
  <2> DEFINE mem == mempos + offset
             put == mem..(mem + n - 1) \cap 0..(bufsz - 1)
  <2>1. mem = Before(S, field) /\ buf' = Copied(mem, n)
        BY <1>1, <1>2, <1>4, <1>7
  <2>2. a \in DOMAIN buf' <=> a \in DOMAIN buf \/ a \in put
        BY <2>1 DEF Copied
  <2>3. a \in DOMAIN buf' => buf'[a] = IF a \in put THEN pos - nread + (a - mem) ELSE buf[a]
        BY <2>1 DEF Copied
  <2> HIDE DEF mem, n
  <2>4. CASE a < mem
    <3>1. a \notin put /\ a \in DOMAIN buf /\ buf[a] = Origin(S) + a
          BY <1>2, <1>4, <2>1, <2>4 DEF Upto
    <3> HIDE DEF put
    <3> QED BY <2>2, <2>3, <3>1
  <2>5. CASE a >= mem
    <3>1. a \in put
          BY <1>4, <1>6, <1>r, <2>1, <2>5
    <3>2. pos - nread + (a - mem) = Origin(S) + a
          BY <1>2, <1>3, <1>4, <1>7, <2>1
    <3> HIDE DEF put
    <3> QED BY <2>2, <2>3, <3>1, <3>2
  <2> QED BY <1>4, <2>1, <2>4, <2>5
<1> HIDE DEF n, wiresz
\* Either the whole field has been read, or nothing of it.
<1>10. nread < wiresz => nread = 0
  <2> SUFFICES ASSUME nread < wiresz PROVE nread = 0
      OBVIOUS
  <2>1. CASE ~(Variable(S) /\ field = Last0)
    <3>1. wiresz = Sz(S, field)
          BY <1>2, <2>1, SizeTypes DEF wiresz
    <3>2. Origin(S) + Before(S, field) <= pos /\ pos < Origin(S) + Before(S, field + 1)
          BY <1>2, <1>3, <1>4, <1>5, <1>7, <3>1
    <3>3. pos = Origin(S) + Before(S, field)
          BY <1>2, <1>7, <3>2, EdgeOfField
    <3> QED BY <1>2, <1>3, <1>4, <1>7, <3>3
  <2>2. CASE Variable(S) /\ field = Last0 /\ ~Legal(S)
    <3>1. pos <= Origin(S) + Before(S, field)
          BY <1>2, <2>2 DEF Sorting
    <3> QED BY <1>2, <1>3, <1>4, <1>7, <3>1
  <2>3. CASE Variable(S) /\ field = Last0 /\ Legal(S)
    <3>1. wiresz = S.payload
          BY <1>2, <2>3, CountRight DEF wiresz
    <3>2. pos # End(S)
          BY <1>2, <1>3, <1>4, <1>7, <2>3, <3>1
    <3>3. PICK f \in 0..Fields(S) : pos = Origin(S) + Before(S, f)
          BY <1>7, <3>2 DEF Edge
    <3>4. Before(S, f) <= Before(S, field)
      <4>1. Fields(S) \in f..Fields(S) /\ Fields(S) \in 0..Fields(S)
            BY <1>3
      <4>2. Before(S, f) <= Before(S, Fields(S))
            BY <1>2, <1>3, <4>1, Rising
      <4> QED BY <1>3, <2>3, <4>2
    <3>5. Before(S, f) \in Nat
          BY <1>3
    <3> QED BY <1>2, <1>3, <1>4, <1>7, <3>3, <3>4, <3>5
  <2> QED BY <2>1, <2>2, <2>3 DEF Legal
<1>11. CASE LeftOff(n, wiresz)
  <2>1. n < wiresz /\ field' = field /\ offset' = offset + n /\ at' = "turn" /\ mempos' = mempos
        BY <1>s, <1>11 DEF LeftOff
  <2>2. n = nread
        BY <1>2, <1>6, <1>w, <2>1
  <2>3. nread = 0 /\ n = 0 /\ nread' = 0 /\ offset' = 0
        BY <1>1, <1>2, <1>10, <2>1, <2>2
  <2>4. \A a \in 0..(Before(S, field) - 1) : a \in DOMAIN buf' /\ buf'[a] = Origin(S) + a
    <3> SUFFICES ASSUME NEW a \in 0..(Before(S, field) - 1) PROVE a \in DOMAIN buf' /\ buf'[a] = Origin(S) + a
        OBVIOUS
    <3>1. a < bufsz /\ a \in 0..(Before(S, field) + n - 1)
          BY <1>4, <1>r, <2>3
    <3> QED BY <1>9, <3>1
  <2>5. pos' = Origin(S) + Before(S, field)
        BY <1>1, <1>2, <1>7, <2>3
  <2>6. (Oversize \/ readsz > 0)'
    <3>1. CASE ~(Variable(S) /\ field = Last0)
      <4>1. script' \in Scripts /\ (field \in 0..Last0)' /\ ~(Variable(S) /\ field = Last0)'
            BY <1>1, <1>2, <1>8, <2>1, <3>1
      <4> QED BY <1>8, <2>3, <4>1, AsksNext
    <3>2. CASE Variable(S) /\ field = Last0 /\ ~Legal(S)
      <4>1. script' \in Scripts /\ Variable(S') /\ Upto(Before(S, Last0))' /\ ~Legal(S')
            BY <1>1, <1>2, <1>8, <2>4, <3>2 DEF Upto
      <4>2. calc_field_sz(Last0)' = SizeT - 1
            BY <1>8, <4>1, CountNext
      <4>3. Oversize'
            BY <1>8, <2>1, <3>2, <4>2 DEF Oversize
      <4> QED BY <4>3
    <3>3. CASE Variable(S) /\ field = Last0 /\ Legal(S)
      <4>1. wiresz = S.payload /\ S.payload > 0
            BY <1>2, <1>3, <2>1, <2>3, <3>3, CountRight DEF wiresz
      <4>2. script' \in Scripts /\ Variable(S') /\ Upto(Before(S, Last0))' /\ Legal(S')
            BY <1>1, <1>2, <1>8, <2>4, <3>3 DEF Upto
      <4>3. calc_field_sz(Last0)' = S.payload
            BY <1>8, <4>2, CountNext
      <4>4. Pending' = S.payload
            BY <1>8, <2>1, <3>3, <4>3 DEF Pending
      <4>5. readsz' = S.payload
            BY <1>3, <2>3, <4>1, <4>4 DEF readsz
      <4> QED BY <1>3, <4>1, <4>5
    <3> QED BY <3>1, <3>2, <3>3
  <2>7. Resting'
        BY <1>8, <2>1, <2>3, <2>5, <2>6 DEF Resting
  <2>8. Upto(Before(S, field))'
        BY <1>8, <2>1, <2>4 DEF Upto
  <2> QED BY <1>1, <1>2, <1>8, <2>1, <2>3, <2>7, <2>8 DEF Aligned
<1>12. CASE ~LeftOff(n, wiresz) /\ field < Last0
  <2>1. field' = field + 1 /\ offset' = 0 /\ mempos' = mempos + offset + Sz(S, field) /\ at' = "sort"
        BY <1>1, <1>3, <1>s, <1>12
  <2>2. wiresz = Sz(S, field) /\ n = wiresz
        BY <1>2, <1>6, <1>12, SizeTypes DEF wiresz, LeftOff
  <2>3. mempos' = Before(S, field + 1) /\ pos' - nread' = Origin(S) + Before(S, field + 1)
        BY <1>1, <1>2, <1>3, <1>4, <1>5, <1>7, <2>1, <2>2
  <2>4. Upto(Before(S, field))'
    <3>1. Before(S', field') = Before(S, field) + n
          BY <1>5, <1>8, <2>1, <2>2
    <3>2. \A a \in 0..(Before(S', field') - 1) : a \in DOMAIN buf' /\ buf'[a] = Origin(S') + a
      <4> SUFFICES ASSUME NEW a \in 0..(Before(S', field') - 1)
                   PROVE  a \in DOMAIN buf' /\ buf'[a] = Origin(S') + a
          OBVIOUS
      <4>1. a \in 0..(Before(S, field) + n - 1)
            BY <1>4, <1>6, <3>1
      <4>2. a < bufsz
        <5>1. PICK m, l : m = Before(S, field + 1) /\ l = Before(S, Fields(S))
              OBVIOUS
        <5>2. m = Before(S', field')
              BY <1>8, <2>1, <5>1
        <5>3. m \in Nat /\ l \in Nat /\ m <= l /\ l <= bufsz /\ bufsz \in Nat
              BY ONLY <1>4, <1>r, <5>1, Zenon
        <5>4. a \in 0..(m - 1)
              BY <5>2
        <5> QED BY ONLY <5>3, <5>4
      <4> QED BY <1>8, <1>9, <4>1, <4>2
    <3> QED BY <3>2 DEF Upto
  <2>5. Variable(S) => pos <= Origin(S) + Before(S, Last0)
        BY <1>2, <1>12 DEF Sorting
  <2>6. Sorting'
        BY <1>1, <1>7, <1>8, <2>1, <2>3, <2>5 DEF Sorting
  <2>7. field + 1 >= S.first
        BY <1>2, <1>3, MessageTypes
  <2> QED BY <1>1, <1>2, <1>8, <2>1, <2>4, <2>6, <2>7 DEF Aligned
<1>13. CASE ~LeftOff(n, wiresz) /\ field = Last0
  <2>1. field' = field + 1 /\ at' = "deliver" /\ offset' = offset
        BY <1>3, <1>s, <1>13
  <2>2. n = wiresz /\ wiresz <= nread
        BY <1>2, <1>6, <1>13 DEF LeftOff
  <2>3. End(S) = Origin(S) + Before(S, field) + wiresz /\ Legal(S)
    <3>1. CASE ~Variable(S)
      <4>1. wiresz = Sz(S, field) /\ field + 1 = Fields(S)
            BY <1>2, <1>3, <1>13, <3>1, SizeTypes DEF wiresz
      <4> QED BY <1>3, <1>4, <1>5, <3>1, <4>1 DEF Legal
    <3>2. CASE Variable(S) /\ ~Legal(S)
      <4>1. pos <= Origin(S) + Before(S, field) /\ wiresz = SizeT - 1
            BY <1>2, <1>13, <3>2, CountRight DEF Sorting, wiresz
      <4>2. nread = 0
            BY <1>2, <1>3, <1>4, <1>7, <4>1
      <4> QED BY <2>2, <4>1, <4>2, MessageReadAssumption
    <3>3. CASE Variable(S) /\ Legal(S)
      <4>1. wiresz = S.payload
            BY <1>2, <1>13, <3>3, CountRight DEF wiresz
      <4> QED BY <1>3, <1>13, <3>3, <4>1
    <3> QED BY <3>1, <3>2, <3>3
  <2>4. nread' = 0 /\ pos' = End(S)
        BY <1>1, <1>2, <1>3, <1>4, <1>6, <1>7, <2>2, <2>3
  <2>5. End(S) - Origin(S) = Before(S, field) + n
        BY <1>3, <1>4, <1>6, <2>2, <2>3
  <2>6. Finished'
    <3>1. End(S') - Origin(S') = Before(S, field) + n
          BY <1>8, <2>5
    <3>2. \A a \in 0..(End(S') - Origin(S') - 1) : a < bufsz' => a \in DOMAIN buf' /\ buf'[a] = Origin(S') + a
      <4> SUFFICES ASSUME NEW a \in 0..(End(S') - Origin(S') - 1), a < bufsz
                   PROVE  a \in DOMAIN buf' /\ buf'[a] = Origin(S') + a
          BY <1>1
      <4>1. a \in 0..(Before(S, field) + n - 1)
            BY <1>4, <1>6, <3>1
      <4> QED BY <1>8, <1>9, <4>1
    <3> QED BY <1>1, <1>8, <1>r, <2>3, <2>4, <3>2 DEF Finished, Intact
  <2> QED BY <1>1, <1>2, <1>8, <2>1, <2>6 DEF Aligned
<1> QED BY <1>s, <1>11, <1>12, <1>13

\* The next message begins where this one ends, or behind the header they share.
LEMMA StepDelivers ==
    ASSUME Aligned, TypeInv', Housed', Deliver \/ DeliverLast
    PROVE  Aligned'
<1>1. /\ at = "deliver" /\ UNCHANGED <<script, arrived, pos, bufsz, nread, mempos>>
      /\ item' = item + 1 /\ offset' = 0
      BY DEF Deliver, DeliverLast, streamVars
<1>2. /\ script \in Scripts /\ Open /\ item \in 1..Len(script) /\ Len(script) \in Nat
      /\ Finished /\ (arrived = 0 \/ arrived \in Cuts)
      BY <1>1, ScriptTypes DEF Aligned, TypeInv, TypeOK, Open
<1>3. Cuts' = Cuts
      BY <1>1 DEF Cuts
<1>4. CASE ~Open'
  <2>1. at' \in {"idle", "closed"}
        BY <1>1, <1>2, <1>4 DEF Deliver, DeliverLast, Open
  <2> QED BY <1>1, <1>2, <1>3, <1>4, <2>1 DEF Aligned
<1>5. CASE Open'
  <2> DEFINE s == script[item]
             t == script[item + 1]
  <2>1. item \in DOMAIN script /\ item + 1 \in DOMAIN script /\ item < Len(script)
        /\ item + 1 \in 2..Len(script) /\ (item + 1) - 1 = item
        BY <1>1, <1>2, <1>5, ScriptTypes DEF Open
  <2>2. S = s /\ S' = t /\ Last0' = Fields(t) - 1
        BY <1>1 DEF S, Last0
  <2>3. t.start = End(s)
        BY <1>2, <2>1, ScriptTypes
  <2>4. /\ t.start <= End(t) /\ t.start \in Nat /\ End(t) \in Nat /\ Origin(t) \in Int
        /\ Origin(t) + Before(t, t.first) = t.start
        BY <1>2, <2>1, MessageEnd, MessageTypes
  <2>5. pos' = Origin(t) + Before(t, t.first) /\ pos' <= End(t) /\ nread' = 0
        BY <1>1, <1>2, <2>2, <2>3, <2>4 DEF Finished
  <2>6. CASE DeliverLast
        BY <1>1, <1>2, <1>3, <2>2, <2>5, <2>6 DEF Aligned, DeliverLast
  <2>7. CASE Deliver
    <3>1. field' = t.first /\ at' = "turn" /\ buf' = Kept
          BY <2>1, <2>7 DEF Deliver
    <3>2. Upto(Before(S, field))'
      <4>1. t.first \in 0..(Fields(t) - 1) /\ Fields(t) \in Nat
            BY <1>2, <2>1, MessageTypes
      <4>2. CASE t.first = 0
        <5>1. Laid(t) /\ 0 \in 0..Fields(t)
              BY <1>2, <2>1, <4>1, LayoutAssumption
        <5>2. Before(t, t.first) = 0
              BY <4>2, <5>1 DEF Laid
        <5> QED BY <2>2, <3>1, <5>2 DEF Upto
      <4>3. CASE t.first # 0
        <5>1. s.first = 0 /\ ~Variable(s) /\ Before(t, t.first) = Before(s, Fields(s))
          <6>1. t.first > 0
                BY <4>1, <4>3
          <6> QED BY <1>2, <2>1, <6>1, LayoutAssumption
        <5>2. Laid(s) /\ 0 \in 0..Fields(s) /\ Fields(s) \in 0..Fields(s)
          <6>1. Fields(s) \in Nat
                BY <1>2, <2>1, MessageTypes
          <6> QED BY <1>2, <2>1, <6>1, LayoutAssumption
        <5>3. Before(s, s.first) = 0
              BY <5>1, <5>2 DEF Laid
        <5>4. End(s) = Origin(s) + Before(s, Fields(s)) /\ Origin(s) \in Int /\ Before(s, Fields(s)) \in Nat
              BY <1>2, <2>1, <5>1, <5>2, MessageEnd, MessageTypes
        <5>5. Origin(t) = Origin(s)
              BY <2>3, <2>4, <5>1, <5>4
        <5>6. Upto(Before(s, Fields(s)))
          <6>1. End(S) - Origin(S) = Before(s, Fields(s)) /\ Before(s, Fields(s)) <= bufsz
                BY <1>2, <2>2, <5>4 DEF Finished
          <6>2. bufsz \in Nat /\ Intact(Before(s, Fields(s)))
                BY <1>2, <6>1 DEF Aligned, TypeInv, TypeOK, Finished
          <6> HIDE DEF s
          <6> QED BY <5>4, <6>1, <6>2 DEF Intact, Upto
        <5>7. buf' = buf
              BY <2>1, <3>1, <4>1, <4>3 DEF Kept
        <5> QED BY <2>2, <3>1, <5>1, <5>5, <5>6, <5>7 DEF Upto
      <4> QED BY <4>2, <4>3
    <3>3. (Oversize \/ readsz > 0)'
      <4>1. t.first \in 0..(Fields(t) - 1) /\ Fields(t) \in Nat /\ (Variable(t) => t.first < Fields(t) - 1)
            BY <1>2, <2>1, MessageTypes
      <4>2. script' \in Scripts /\ field' \in 0..Last0' /\ ~(Variable(S') /\ field' = Last0')
            BY <1>1, <1>2, <2>2, <3>1, <4>1
      <4> QED BY <1>1, <1>5, <4>2, AsksNext
    <3>4. Resting'
          BY <2>2, <2>5, <3>1, <3>3 DEF Resting
    <3>5. field' >= t.first
          BY <1>2, <2>1, <3>1, MessageTypes
    <3> QED BY <1>1, <1>2, <1>3, <2>2, <2>5, <3>1, <3>2, <3>4, <3>5 DEF Aligned
  <2> QED BY <2>6, <2>7
<1> QED BY <1>4, <1>5

LEMMA AlignedStep == SplitInsideField = FALSE /\ Aligned /\ [Next]_vars => Aligned'
<1> SUFFICES ASSUME SplitInsideField = FALSE, Aligned, [Next]_vars PROVE Aligned'
    OBVIOUS
<1>1. TypeInv' /\ Housed'
      BY TypeStep, HousedStep DEF Aligned
<1> QED BY <1>1, StepsAside, StepArrive, StepReads, StepSort, StepDelivers DEF Next, Read

LEMMA AlwaysAligned == ASSUME SplitInsideField = FALSE PROVE Spec => []Aligned
<1>1. Init => Aligned
      BY AlignedInit
<1>2. Aligned /\ [Next]_vars => Aligned'
      BY AlignedStep
<1> QED BY <1>1, <1>2, PTL DEF Spec

-----------------------------------------------------------------------------
\* What the cursor's alignment says of the messages and of the loop.
LEMMA ReadsRight == Aligned => DeliveredIntact /\ CursorMatchesStream /\ ReadsOnlyCurrent /\ AsksUnlessCut /\ CopyFits
<1> SUFFICES ASSUME Aligned
             PROVE  DeliveredIntact /\ CursorMatchesStream /\ ReadsOnlyCurrent /\ AsksUnlessCut /\ CopyFits
    OBVIOUS
<1>1. DeliveredIntact
      BY DEF Aligned, Finished, Intact, DeliveredIntact
<1>2. CursorMatchesStream
  <2> SUFFICES ASSUME at \in {"idle", "turn"}, item <= Len(script)
               PROVE  pos = Origin(S) + Before(S, field) + offset
      BY DEF CursorMatchesStream
  <2>1. script \in Scripts /\ Open
        BY ScriptTypes DEF Aligned, TypeInv, TypeOK, Open
  <2>2. pos = Origin(S) + Before(S, field) /\ offset = 0 /\ pos \in Int
        BY <2>1 DEF Aligned, Resting, TypeInv, TypeOK
  <2> QED BY <2>2
<1>3. ReadsOnlyCurrent
      BY ScriptTypes DEF Aligned, Finished, ReadsOnlyCurrent, TypeInv, TypeOK, Open
<1>4. AsksUnlessCut /\ CopyFits
      BY ScriptTypes DEF Aligned, Resting, Housed, AsksUnlessCut, CopyFits, TypeInv, TypeOK, Open
<1> QED BY <1>1, <1>2, <1>3, <1>4

\* A handler gets its message's fixed fields, and as much of the payload as alloc_buf
\* has made room for, every byte at its place, a kept header's included, whatever the
\* field tables, if no segment ends inside a field.  Nothing is said of a payload
\* beyond that room, which is not the message's memory (message_memory).
THEOREM MessagesIntact == ASSUME SplitInsideField = FALSE PROVE Spec => []DeliveredIntact
BY ReadsRight, AlwaysAligned, PTL

\* m_field and m_offset survive EAGAIN: they are where the stream is (resume_read).
THEOREM CursorRight == ASSUME SplitInsideField = FALSE PROVE Spec => []CursorMatchesStream
BY ReadsRight, AlwaysAligned, PTL

\* resume_read leaves what follows the message in the socket, where set_crypt_key
\* may yet change the key it is decrypted with (resume_read's readsz).
THEOREM NothingAhead == ASSUME SplitInsideField = FALSE PROVE Spec => []ReadsOnlyCurrent
BY ReadsRight, AlwaysAligned, PTL

-----------------------------------------------------------------------------
(* The refinement of MessageStream. *)

State == CASE at = "closed" -> "refused" [] at = "lost" -> "lost" [] OTHER -> "open"

\* What the stream promises of the item.
LEMMA ItemPlan ==
    ASSUME script \in Scripts, Open
    PROVE  /\ Len(Plan) = Len(script) /\ item <= Len(script)
           /\ Plan[(item - 1) + 1] = [end |-> End(S), head |-> End(S) - S.payload, legal |-> Legal(S)]
<1>1. Len(script) \in Nat /\ DOMAIN script = 1..Len(script) /\ item \in 1..Len(script)
      BY ScriptTypes DEF Open
<1>2. DOMAIN Plan = 1..Len(script) /\ (item - 1) + 1 = item
      BY <1>1 DEF Plan
<1>3. Len(Plan) = Len(script)
  <2>1. Plan = [k \in 1..Len(script) |-> Plan[k]]
        BY <1>1 DEF Plan
  <2> HIDE DEF Plan
  <2> QED BY <1>1, <2>1
<1> QED BY <1>1, <1>2, <1>3 DEF Plan, S

\* A refused turn has seen the size field of an illegal message (client_base.cpp's
\* kMaxBufCount).
LEMMA RefusesIllegal ==
    ASSUME Aligned, TurnRefuses
    PROVE  Open /\ script \in Scripts /\ ~Legal(S) /\ arrived >= End(S) - S.payload
<1>1. /\ script \in Scripts /\ Open /\ field \in 0..Last0 /\ Upto(Before(S, field)) /\ Oversize
      /\ Resting /\ arrived \in Nat /\ pos \in 0..arrived
  <2>1. at = "turn" /\ Oversize
        BY DEF TurnRefuses
  <2>2. script \in Scripts /\ Open
        BY <2>1, ScriptTypes DEF Aligned, TypeInv, TypeOK, Open
  <2> QED BY <2>1, <2>2 DEF Aligned, TypeInv, TypeOK
<1>2. /\ item \in DOMAIN script /\ S = script[item] /\ Fields(S) \in Nat /\ Last0 = Fields(S) - 1
      /\ S.payload \in Nat /\ Origin(S) \in Int
      /\ End(S) = Origin(S) + Before(S, Fields(S)) + S.payload
      /\ Variable(S) => Before(S, Fields(S)) = Before(S, Last0)
      BY <1>1, ItemTypes, MessageTypes, MessageEnd
<1>3. Variable(S) /\ field = Last0
  <2> SUFFICES ASSUME ~(Variable(S) /\ field = Last0) PROVE FALSE
      OBVIOUS
  <2>1. Sz(S, field) = SizeT - 1
        BY <1>1, SizeTypes DEF Oversize
  <2>2. Laid(S) /\ field \in 0..(Fields(S) - 1) /\ Sz(S, field) \in Nat
        BY <1>1, <1>2, LayoutAssumption, MessageTypes
  <2>3. Sz(S, field) < SizeT - 1
        BY <2>2 DEF Laid
  <2> QED BY <2>1, <2>2, <2>3
<1>4. ~Legal(S)
  <2> SUFFICES ASSUME Legal(S) PROVE FALSE
      OBVIOUS
  <2>1. calc_field_sz(Last0) = S.payload /\ S.payload < SizeT - 1
        BY <1>1, <1>3, CountRight
  <2> QED BY <1>1, <1>2, <1>3, <2>1 DEF Oversize
<1>5. pos = End(S) - S.payload
  <2>1. Before(S, Last0) \in Nat
        BY <1>1, <1>2, <1>3, MessageTypes
  <2> QED BY <1>1, <1>2, <1>3, <2>1 DEF Resting
<1> QED BY <1>1, <1>2, <1>4, <1>5

\* Every step of resume_read is a step of the stream or none.
LEMMA StreamStep == Aligned /\ [Next]_vars => [Stream!Next]_(Stream!streamVars)
<1> SUFFICES ASSUME Aligned, [Next]_vars PROVE [Stream!Next]_(Stream!streamVars)
    OBVIOUS
<1> USE DEF Stream!streamVars
<1>t. script \in Scripts /\ Len(script) \in Nat /\ item \in 1..(Len(script) + 1) /\ arrived \in Nat
      /\ pos \in 0..arrived
      BY ScriptTypes DEF Aligned, TypeInv, TypeOK
<1>1. CASE UNCHANGED vars \/ Dispatch \/ TurnBlocks \/ TurnReads \/ Sort
  <2>1. UNCHANGED <<script, arrived, item>> /\ (at' = at \/ {at, at'} \subseteq {"idle", "turn", "sort", "deliver"})
        BY <1>1 DEF vars, streamVars, Dispatch, TurnBlocks, TurnReads, Sort
  <2>2. Plan' = Plan /\ State' = State
        BY <2>1 DEF Plan, State
  <2> QED BY <2>1, <2>2 DEF State
<1>2. CASE Arrive
  <2>1. UNCHANGED <<script, item, at>> /\ arrived' > arrived
        BY <1>2 DEF Arrive
  <2>2. Plan' = Plan
        BY <2>1 DEF Plan
  <2> QED BY <2>1, <2>2 DEF Stream!Next, Stream!Arrive
<1>3. CASE TurnFails \/ SortDies \/ Hup
  <2>1. UNCHANGED <<script, arrived, item>> /\ at \in {"idle", "turn", "sort"} /\ at' = "lost"
        BY <1>3 DEF TurnFails, SortDies, Hup, streamVars
  <2>2. Plan' = Plan
        BY <2>1 DEF Plan
  <2> QED BY <2>1, <2>2 DEF Stream!Next, Stream!Lose
<1>4. CASE TurnRefuses
  <2>1. UNCHANGED <<script, arrived, item>> /\ at = "turn" /\ at' = "closed"
        BY <1>4 DEF TurnRefuses, streamVars
  <2>2. Plan' = Plan
        BY <2>1 DEF Plan
  <2>3. Open /\ ~Legal(S) /\ arrived >= End(S) - S.payload
        BY <1>4, RefusesIllegal
  <2>4. /\ Len(Plan) = Len(script) /\ item - 1 < Len(Plan)
        /\ Plan[(item - 1) + 1].legal = Legal(S) /\ Plan[(item - 1) + 1].head = End(S) - S.payload
        BY <1>t, <2>3, ItemPlan
  <2> QED BY <2>1, <2>2, <2>3, <2>4 DEF Stream!Next, Stream!Refuse, Stream!Next1
<1>5. CASE Deliver \/ DeliverLast
  <2>1. UNCHANGED <<script, arrived>> /\ at = "deliver" /\ item' = item + 1 /\ at' \in {"turn", "idle", "closed"}
        BY <1>5 DEF Deliver, DeliverLast, streamVars
  <2>2. Plan' = Plan
        BY <2>1 DEF Plan
  <2>3. Finished /\ Open
        BY <1>t, <2>1 DEF Aligned, TypeInv, TypeOK, Open
  <2>4. Legal(S) /\ arrived >= End(S)
        BY <1>t, <2>3 DEF Finished
  <2>5. /\ Len(Plan) = Len(script) /\ item - 1 < Len(Plan)
        /\ Plan[(item - 1) + 1].legal = Legal(S) /\ Plan[(item - 1) + 1].end = End(S)
        BY <1>t, <2>3, ItemPlan
  <2>6. item' - 1 = (item - 1) + 1
        BY <1>t, <2>1
  <2> QED BY <2>1, <2>2, <2>4, <2>5, <2>6 DEF Stream!Next, Stream!Deliver, Stream!Next1
<1> QED BY <1>1, <1>2, <1>3, <1>4, <1>5 DEF Next, Read

\* The messages are delivered once each, in order, whole and legal, and only an
\* illegal one is refused: the safety part of ImplementsStream (client_base.cpp's
\* resume_read and handle_read).
THEOREM StreamSafety ==
    ASSUME SplitInsideField = FALSE
    PROVE  Spec => Stream!Init /\ [][Stream!Next]_(Stream!streamVars)
<1>1. Init => Stream!Init
      BY DEF Init, Stream!Init
<1>2. Aligned /\ [Next]_vars => [Stream!Next]_(Stream!streamVars)
      BY StreamStep
<1> QED BY <1>1, <1>2, AlwaysAligned, PTL DEF Spec
=============================================================================
