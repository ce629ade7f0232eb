----------------------------- MODULE Induction ------------------------------
(* Induction and recursion over the natural numbers for a set and a function    *)
(* instead of operators, which the provers cannot instantiate: the proofs about *)
(* field tables (ReadProofs), files read line by line (StartupProofs) and big   *)
(* numbers (KeyExchangeProofs) rest on them.  And division, which those read.    *)
EXTENDS Integers, WellFoundedInduction, TLAPS

Smaller == OpToRel(<, Nat)

\* The relation as a set of pairs.
LEMMA SmallerPairs == Smaller = {p \in Nat \X Nat : p[1] < p[2]}
BY Zenon DEF Smaller, OpToRel

\* What holds of 0 and, with n, of n + 1, holds of every number: the smallest
\* exception would have a predecessor.
LEMMA Upwards ==
    ASSUME NEW S, 0 \in S, \A n \in Nat : n \in S => n + 1 \in S
    PROVE  Nat \subseteq S
<1> DEFINE T == {n \in Nat : n \notin S}
<1> SUFFICES ASSUME T # {} PROVE FALSE
    OBVIOUS
<1>1. PICK x \in T : \A y \in T : ~(<<y, x>> \in Smaller)
  <2> HIDE DEF T
  <2>1. T \subseteq Nat
        BY DEF T
  <2>2. IsWellFoundedOn(Smaller, Nat)
        BY NatLessThanWellFounded, Zenon DEF Smaller
  <2> QED BY <2>1, <2>2, WFMin, Zenon
<1>2. x \in Nat /\ x # 0
      OBVIOUS
<1>3. x - 1 \in Nat /\ x - 1 \in S
  <2>1. x - 1 \in Nat /\ x - 1 < x
        BY <1>2
  <2>2. <<x - 1, x>> \in Smaller
        BY <1>2, <2>1, SmallerPairs
  <2>3. x - 1 \notin T
        BY <1>1, <2>2
  <2> QED BY <2>1, <2>3
<1> QED BY <1>1, <1>2, <1>3

\* f starts at d and goes on as F says.
Recursive(D, d, F, f) ==
    f \in [Nat -> D] /\ f[0] = d /\ \A n \in Nat : f[n + 1] = F[<<n + 1, f[n]>>]

\* Recursion over the natural numbers: a function with this value at 0 and this step
\* exists, being the union of its beginnings.
LEMMA Recursion ==
    ASSUME NEW D, NEW d \in D, NEW F \in [Nat \X D -> D]
    PROVE  \E f : Recursive(D, d, F, f)
<1> DEFINE Begins(m) == {g \in [0..m -> D] : g[0] = d /\ \A n \in 0..(m - 1) : g[n + 1] = F[<<n + 1, g[n]>>]}
           Reached == {m \in Nat : Begins(m) # {}}
<1>1. 0 \in Reached
  <2>1. [i \in 0..0 |-> d] \in Begins(0)
        OBVIOUS
  <2> QED BY <2>1
<1>2. ASSUME NEW m \in Nat, m \in Reached PROVE m + 1 \in Reached
  <2>1. PICK g \in Begins(m) : TRUE
        BY <1>2
  <2> DEFINE h == [i \in 0..(m + 1) |-> IF i \in 0..m THEN g[i] ELSE F[<<m + 1, g[m]>>]]
  <2>2. g[m] \in D /\ F[<<m + 1, g[m]>>] \in D
    <3>1. m \in 0..m /\ g \in [0..m -> D]
          OBVIOUS
    <3> QED BY <3>1
  <2>3. h \in [0..(m + 1) -> D]
        BY <2>2
  <2>4. h[0] = d
        BY <2>1
  <2>5. ASSUME NEW n \in 0..((m + 1) - 1) PROVE h[n + 1] = F[<<n + 1, h[n]>>]
    <3>1. CASE n = m
      <4>1. m \in 0..m /\ m \in 0..(m + 1) /\ m + 1 \in 0..(m + 1) /\ m + 1 \notin 0..m
            OBVIOUS
      <4>2. h[m] = g[m] /\ h[m + 1] = F[<<m + 1, g[m]>>]
            BY <4>1
      <4> HIDE DEF h
      <4> QED BY <3>1, <4>2
    <3>2. CASE n # m
      <4>1. n \in 0..(m - 1) /\ n \in 0..m /\ n + 1 \in 0..m /\ n + 1 \in 0..(m + 1)
            BY <3>2
      <4> QED BY <4>1
    <3> QED BY <3>1, <3>2
  <2>6. h \in Begins(m + 1)
        BY <2>3, <2>4, <2>5
  <2> HIDE DEF Begins
  <2> QED BY <2>6
<1>3. Nat \subseteq Reached
  <2> HIDE DEF Reached
  <2> QED BY <1>1, <1>2, Upwards
<1>4. ASSUME NEW m \in Nat, NEW k \in Nat, m <= k, NEW g \in Begins(m), NEW h \in Begins(k)
      PROVE  g[m] = h[m]
  <2> DEFINE Same == {i \in Nat : i <= m => g[i] = h[i]}
  <2>1. 0 \in Same
        OBVIOUS
  <2>2. ASSUME NEW i \in Nat, i \in Same PROVE i + 1 \in Same
    <3> SUFFICES ASSUME i + 1 <= m PROVE g[i + 1] = h[i + 1]
        OBVIOUS
    <3>1. g[i] = h[i] /\ i \in 0..(m - 1) /\ i \in 0..(k - 1)
          BY <1>4, <2>2
    <3> QED BY <3>1
  <2>3. Nat \subseteq Same
    <3> HIDE DEF Same
    <3> QED BY <2>1, <2>2, Upwards
  <2> QED BY <2>3
<1> DEFINE f == [n \in Nat |-> (CHOOSE g \in Begins(n) : TRUE)[n]]
<1>5. \A n \in Nat : (CHOOSE g \in Begins(n) : TRUE) \in Begins(n)
      BY <1>3
<1>6. \A n \in Nat : f[n] = (CHOOSE g \in Begins(n) : TRUE)[n]
      OBVIOUS
<1> HIDE DEF f
<1>7. f \in [Nat -> D]
  <2>1. \A n \in Nat : f[n] \in D
    <3> SUFFICES ASSUME NEW n \in Nat PROVE f[n] \in D
        OBVIOUS
    <3>1. PICK g : g = (CHOOSE x \in Begins(n) : TRUE)
          OBVIOUS
    <3>2. g \in Begins(n)
      <4> HIDE DEF Begins
      <4> QED BY <1>5, <3>1
    <3>3. g \in [0..n -> D] /\ n \in 0..n
          BY <3>2
    <3> QED BY <1>6, <3>1, <3>3
  <2> QED BY <2>1 DEF f
<1>8. f[0] = d
  <2>1. PICK g : g = (CHOOSE x \in Begins(0) : TRUE)
        OBVIOUS
  <2>2. 0 \in Nat
        OBVIOUS
  <2>3. g \in Begins(0) /\ f[0] = g[0]
    <3> HIDE DEF Begins
    <3> QED BY <1>5, <1>6, <2>1, <2>2
  <2> QED BY <2>3
<1>9. ASSUME NEW n \in Nat PROVE f[n + 1] = F[<<n + 1, f[n]>>]
  <2>1. PICK g : g = (CHOOSE x \in Begins(n) : TRUE)
        OBVIOUS
  <2>2. PICK h : h = (CHOOSE x \in Begins(n + 1) : TRUE)
        OBVIOUS
  <2>3. g \in Begins(n) /\ h \in Begins(n + 1) /\ f[n] = g[n] /\ f[n + 1] = h[n + 1]
    <3> HIDE DEF Begins
    <3>1. n + 1 \in Nat
          OBVIOUS
    <3> QED BY <1>5, <1>6, <2>1, <2>2, <3>1
  <2>4. g[n] = h[n]
    <3>1. n + 1 \in Nat /\ n <= n + 1
          OBVIOUS
    <3> HIDE DEF Begins
    <3> QED BY <1>4, <2>3, <3>1
  <2>5. h[n + 1] = F[<<n + 1, h[n]>>]
    <3>1. n \in 0..((n + 1) - 1)
          OBVIOUS
    <3> QED BY <2>3, <3>1
  <2> QED BY <2>3, <2>4, <2>5
<1> QED BY <1>7, <1>8, <1>9 DEF Recursive

\* The same as a definition by cases, the form of a recursive function.
LEMMA RecursionCases ==
    ASSUME NEW D, NEW d, NEW F, NEW f, Recursive(D, d, F, f)
    PROVE  \A i \in Nat : f[i] \in D /\ f[i] = IF i = 0 THEN d ELSE F[<<i, f[i - 1]>>]
<1>1. \A i \in Nat : i # 0 => i - 1 \in Nat /\ (i - 1) + 1 = i
      OBVIOUS
<1> QED BY <1>1 DEF Recursive

-----------------------------------------------------------------------------
(* Division. *)

LEMMA DivMod ==
    ASSUME NEW n \in Nat, n > 0, NEW c \in Int
    PROVE  c \div n \in Int /\ c % n \in 0..(n - 1) /\ c = n * (c \div n) + (c % n)
OBVIOUS

LEMMA DivNat ==
    ASSUME NEW n \in Nat, n > 0, NEW c \in Nat
    PROVE  c \div n \in Nat
OBVIOUS

LEMMA DivUnique ==
    ASSUME NEW n \in Nat, n > 0, NEW q \in Int, NEW p \in Int,
           NEW r \in 0..(n - 1), NEW s \in 0..(n - 1), n * q + r = n * p + s
    PROVE  q = p /\ r = s
OBVIOUS

LEMMA DivIs ==
    ASSUME NEW n \in Nat, n > 0, NEW q \in Int, NEW r \in 0..(n - 1), NEW c \in Int, c = n * q + r
    PROVE  c \div n = q /\ c % n = r
<1>1. c = n * (c \div n) + (c % n) /\ c \div n \in Int /\ c % n \in 0..(n - 1)
      BY DivMod
<1> QED BY <1>1, DivUnique

LEMMA DivSmall == ASSUME NEW n \in Nat, NEW c \in 0..(n - 1) PROVE c \div n = 0
OBVIOUS
=============================================================================
