------------------------- MODULE KeyExchangeProofs --------------------------
(* Theorems about KeyExchange: the numbers survive their byte orders, and both   *)
(* ends raise to the same power.                                                *)
EXTENDS KeyExchange, Induction

-----------------------------------------------------------------------------
(* Remainders. *)

\* A factor may be reduced first.
LEMMA ModTimes ==
    ASSUME NEW n \in Nat, n > 0, NEW c \in Int, NEW d \in Int
    PROVE  ((c % n) * d) % n = (c * d) % n
<1> DEFINE q == c \div n
           r == c % n
<1>1. c = n * q + r /\ q \in Int /\ r \in 0..(n - 1)
      BY DivMod
<1>2. r * d \in Int /\ q * d \in Int
      BY <1>1
<1> DEFINE p == (r * d) \div n
           s == (r * d) % n
<1>3. r * d = n * p + s /\ p \in Int /\ s \in 0..(n - 1)
      BY <1>2, DivMod
<1> HIDE DEF q, r, p, s
<1>4. c * d = n * (q * d) + r * d
      BY <1>1
<1>5. c * d = n * (q * d + p) + s /\ q * d + p \in Int /\ c * d \in Int
      BY <1>1, <1>2, <1>3, <1>4
<1>6. (c * d) % n = s
      BY <1>3, <1>5, DivIs
<1> QED BY <1>6 DEF s, r

LEMMA DivDiv ==
    ASSUME NEW c \in Nat, NEW m \in Nat, NEW n \in Nat, m > 0, n > 0
    PROVE  (c \div m) \div n = c \div (m * n)
<1> DEFINE q == c \div m
           r == c % m
<1>1. c = m * q + r /\ q \in Nat /\ r \in 0..(m - 1)
      BY DivMod, DivNat
<1> DEFINE p == q \div n
           s == q % n
<1>2. q = n * p + s /\ p \in Nat /\ s \in 0..(n - 1)
      BY <1>1, DivMod, DivNat
<1> HIDE DEF q, r, p, s
<1>3. c = (m * n) * p + (m * s + r)
      BY <1>1, <1>2
<1>4. m * s + r \in 0..(m * n - 1) /\ m * n \in Nat /\ m * n > 0
  <2>1. m * s <= m * (n - 1)
        BY <1>2
  <2>2. m * (n - 1) = m * n - m
        OBVIOUS
  <2> QED BY <1>1, <1>2, <2>1, <2>2
<1>5. c \div (m * n) = p
      BY <1>1, <1>2, <1>3, <1>4, DivIs
<1> QED BY <1>5 DEF p, q

\* A digit more.
LEMMA NextDigit ==
    \A c, m, n \in Nat : m > 0 /\ n > 0 => c \div m = n * (c \div (m * n)) + ((c \div m) % n)
<1> SUFFICES ASSUME NEW c \in Nat, NEW m \in Nat, NEW n \in Nat, m > 0, n > 0
             PROVE  c \div m = n * (c \div (m * n)) + ((c \div m) % n)
    OBVIOUS
<1>1. PICK q \in Nat : q = c \div m
      BY DivNat
<1>2. q = n * (q \div n) + (q % n)
      BY DivMod
<1>3. (c \div m) \div n = c \div (m * n)
      BY DivDiv
<1> QED BY <1>1, <1>2, <1>3

-----------------------------------------------------------------------------
(* What the recursive functions compute. *)

LEMMA PowerIs ==
    /\ Power[0] = 1
    /\ \A w \in Nat : Power[w] \in Nat \ {0} /\ Power[w + 1] = Base * Power[w]
<1> DEFINE Q(f) == f = [w \in Nat |-> IF w = 0 THEN 1 ELSE Base * f[w - 1]]
           D == Nat \ {0}
           F == [p \in Nat \X D |-> Base * p[2]]
<1>1. \A p \in Nat \X D : Base * p[2] \in D
      BY KeyExchangeAssumption
<1>2. F \in [Nat \X D -> D] /\ 1 \in D
      BY <1>1
<1>3. PICK f : Recursive(D, 1, F, f)
  <2> HIDE DEF D, F
  <2> QED BY <1>2, Recursion
<1>4. \A w \in Nat : f[w] \in D /\ f[w] = IF w = 0 THEN 1 ELSE F[<<w, f[w - 1]>>]
  <2> HIDE DEF D, F
  <2> QED BY <1>3, RecursionCases
<1>5. \A w \in Nat : f[w] = IF w = 0 THEN 1 ELSE Base * f[w - 1]
  <2> SUFFICES ASSUME NEW w \in Nat, w # 0 PROVE f[w] = Base * f[w - 1]
      BY <1>4
  <2>1. w - 1 \in Nat
        OBVIOUS
  <2> QED BY <1>4, <2>1
<1>6. Q(f)
      BY <1>3, <1>5 DEF Recursive
<1>7. Q(Power)
  <2>1. Power = CHOOSE g : Q(g)
        BY DEF Power
  <2> HIDE DEF Q
  <2> QED BY <1>6, <2>1
<1>8. \A w \in Nat : w + 1 \in Nat /\ w + 1 # 0 /\ (w + 1) - 1 = w
      OBVIOUS
<1>9. Power[0] = 1 /\ \A w \in Nat : Power[w + 1] = Base * Power[w]
      BY <1>7, <1>8
<1>10. Nat \subseteq {w \in Nat : Power[w] \in D}
  <2> DEFINE T == {w \in Nat : Power[w] \in D}
  <2>1. 0 \in T
        BY <1>9
  <2>2. \A w \in Nat : w \in T => w + 1 \in T
        BY <1>9, KeyExchangeAssumption
  <2> HIDE DEF T
  <2>3. Nat \subseteq T
        BY <2>1, <2>2, Upwards
  <2> QED BY <2>3 DEF T
<1> QED BY <1>9, <1>10

LEMMA PowerTypes ==
    /\ Base \in Nat /\ Base > 0
    /\ \A w \in Nat : Power[w] \in Nat /\ Power[w] > 0 /\ Power[w + 1] = Power[w] * Base
<1>1. Base \in Nat /\ Base > 0
      BY KeyExchangeAssumption
<1>2. ASSUME NEW w \in Nat PROVE Power[w] \in Nat /\ Power[w] > 0 /\ Power[w + 1] = Power[w] * Base
  <2>1. PICK p : p = Power[w]
        OBVIOUS
  <2>2. p \in Nat \ {0} /\ Power[w + 1] = Base * p
        BY <2>1, PowerIs
  <2> QED BY <1>1, <2>1, <2>2
<1> QED BY <1>1, <1>2

LEMMA ModExpIs ==
    ASSUME NEW a \in Nat, NEW n \in Nat, n > 0
    PROVE  /\ BN_mod_exp(a, 0, n) = 1 % n
           /\ \A e \in Nat : /\ BN_mod_exp(a, e, n) \in 0..(n - 1)
                             /\ BN_mod_exp(a, e + 1, n) = (BN_mod_exp(a, e, n) * a) % n
<1> DEFINE Q(f) == f = [i \in Nat |-> IF i = 0 THEN 1 % n ELSE (f[i - 1] * a) % n]
           D == 0..(n - 1)
           d == 1 % n
           F == [p \in Nat \X D |-> (p[2] * a) % n]
<1>1. \A p \in Nat \X D : (p[2] * a) % n \in D
      BY DivMod
<1>2. F \in [Nat \X D -> D] /\ d \in D
      BY <1>1, DivMod
<1>3. PICK f : Recursive(D, d, F, f)
  <2> HIDE DEF D, F, d
  <2> QED BY <1>2, Recursion
<1>4. \A i \in Nat : f[i] \in D /\ f[i] = IF i = 0 THEN d ELSE F[<<i, f[i - 1]>>]
  <2> HIDE DEF D, F, d
  <2> QED BY <1>3, RecursionCases
<1>5. \A i \in Nat : f[i] = IF i = 0 THEN 1 % n ELSE (f[i - 1] * a) % n
  <2> SUFFICES ASSUME NEW i \in Nat, i # 0 PROVE f[i] = (f[i - 1] * a) % n
      BY <1>4
  <2>1. i - 1 \in Nat
        OBVIOUS
  <2> QED BY <1>4, <2>1
<1>6. Q(f)
      BY <1>3, <1>5 DEF Recursive
<1> DEFINE g == CHOOSE h : Q(h)
<1>7. Q(g)
  <2> HIDE DEF Q
  <2> QED BY <1>6
<1>8. \A e : BN_mod_exp(a, e, n) = g[e]
      BY DEF BN_mod_exp
<1> HIDE DEF g
<1>9. \A e \in Nat : e + 1 \in Nat /\ e + 1 # 0 /\ (e + 1) - 1 = e
      OBVIOUS
<1>10. g[0] = 1 % n /\ \A e \in Nat : g[e + 1] = (g[e] * a) % n
      BY <1>7, <1>9
<1>11. Nat \subseteq {e \in Nat : g[e] \in D}
  <2> DEFINE T == {e \in Nat : g[e] \in D}
  <2>1. 0 \in T
        BY <1>10, DivMod
  <2>2. \A e \in Nat : e \in T => e + 1 \in T
        BY <1>10, DivMod
  <2> HIDE DEF T
  <2>3. Nat \subseteq T
        BY <2>1, <2>2, Upwards
  <2> QED BY <2>3 DEF T
<1> QED BY <1>8, <1>10, <1>11

\* The number after each byte.
LEMMA Bin2BnIs ==
    ASSUME NEW w \in Nat, NEW bytes \in Bytes(w)
    PROVE  \E value \in [0..w -> Nat] :
              /\ BN_bin2bn(bytes) = value[w]
              /\ value[0] = 0
              /\ \A i \in 0..(w - 1) : value[i + 1] = Base * value[i] + bytes[i + 1]
<1>1. Len(bytes) = w /\ \A i \in 1..w : bytes[i] \in Nat
  <2>1. bytes \in [1..w -> Byte]
        BY DEF Bytes
  <2>2. Byte \subseteq Nat
        BY KeyExchangeAssumption DEF Byte
  <2>3. \A i \in 1..w : bytes[i] \in Byte
        BY <2>1
  <2>4. Len(bytes) = w
        BY <2>1
  <2> QED BY <2>2, <2>3, <2>4
<1> DEFINE Q(f) == f = [i \in 0..Len(bytes) |-> IF i = 0 THEN 0 ELSE Base * f[i - 1] + bytes[i]]
           F == [p \in Nat \X Nat |-> Base * p[2] + (IF p[1] \in 1..w THEN bytes[p[1]] ELSE 0)]
<1>2. \A p \in Nat \X Nat : Base * p[2] + (IF p[1] \in 1..w THEN bytes[p[1]] ELSE 0) \in Nat
  <2> TAKE p \in Nat \X Nat
  <2>1. p[2] \in Nat /\ Base \in Nat
        BY KeyExchangeAssumption
  <2>2. PICK m, n, d : m = Base /\ n = p[2] /\ d = (IF p[1] \in 1..w THEN bytes[p[1]] ELSE 0)
        OBVIOUS
  <2>3. m \in Nat /\ n \in Nat
        BY ONLY <2>1, <2>2, Zenon
  <2>4. d \in Nat
        BY ONLY <1>1, <2>2
  <2>5. m * n + d \in Nat
        BY ONLY <2>3, <2>4
  <2> QED BY ONLY <2>2, <2>5, Zenon
<1>3. F \in [Nat \X Nat -> Nat]
      BY <1>2
<1>4. PICK f : Recursive(Nat, 0, F, f)
  <2> DEFINE D == Nat
  <2>1. F \in [Nat \X D -> D] /\ 0 \in D
        BY <1>3
  <2> HIDE DEF F, D
  <2>2. \E f : Recursive(D, 0, F, f)
        BY <2>1, Recursion
  <2> QED BY <2>2 DEF D
<1>5. \A i \in Nat : f[i] \in Nat /\ f[i] = IF i = 0 THEN 0 ELSE F[<<i, f[i - 1]>>]
  <2> HIDE DEF F
  <2> QED BY <1>4, RecursionCases
<1>6. \A i \in 0..w : f[i] = IF i = 0 THEN 0 ELSE Base * f[i - 1] + bytes[i]
  <2> SUFFICES ASSUME NEW i \in 0..w, i # 0 PROVE f[i] = Base * f[i - 1] + bytes[i]
      BY <1>5
  <2>1. i - 1 \in Nat /\ i \in 1..w /\ i \in Nat
        OBVIOUS
  <2> QED BY <1>5, <2>1
<1> DEFINE g == [i \in 0..w |-> f[i]]
<1>7. Q(g)
  <2>1. \A i \in 0..w : i # 0 => i - 1 \in 0..w
        OBVIOUS
  <2>2. \A i \in 0..w : g[i] = IF i = 0 THEN 0 ELSE Base * g[i - 1] + bytes[i]
        BY <1>6, <2>1
  <2>3. g = [i \in 0..w |-> g[i]]
        OBVIOUS
  <2> HIDE DEF g
  <2> QED BY <1>1, <2>2, <2>3
<1> DEFINE h == CHOOSE x : Q(x)
<1>8. Q(h)
  <2> HIDE DEF Q
  <2> QED BY <1>7
<1>9. BN_bin2bn(bytes) = h[w]
      BY <1>1 DEF BN_bin2bn
<1> HIDE DEF h
<1>10. \A i \in 0..(w - 1) : i + 1 \in 0..w /\ i + 1 # 0 /\ (i + 1) - 1 = i
      OBVIOUS
<1>11. h[0] = 0 /\ \A i \in 0..(w - 1) : h[i + 1] = Base * h[i] + bytes[i + 1]
      BY <1>1, <1>8, <1>10
<1>12. h = [i \in 0..w |-> h[i]]
      BY <1>1, <1>8
<1>13. \A i \in 0..w : h[i] \in Nat
  <2> DEFINE T == {i \in Nat : i <= w => h[i] \in Nat}
  <2>1. 0 \in T
        BY <1>11
  <2>2. ASSUME NEW i \in Nat, i \in T PROVE i + 1 \in T
    <3> SUFFICES ASSUME i + 1 <= w PROVE h[i + 1] \in Nat
        OBVIOUS
    <3>1. i \in 0..(w - 1) /\ i + 1 \in 1..w /\ h[i] \in Nat
          BY <2>2
    <3>2. h[i + 1] = Base * h[i] + bytes[i + 1] /\ bytes[i + 1] \in Nat /\ Base * h[i] \in Nat
          BY <1>1, <1>11, <3>1, KeyExchangeAssumption
    <3> QED BY <3>2
  <2> HIDE DEF T
  <2>3. Nat \subseteq T
        BY <2>1, <2>2, Upwards
  <2> QED BY <2>3 DEF T
<1>14. h \in [0..w -> Nat]
      BY <1>12, <1>13
<1> QED BY <1>9, <1>11, <1>14

-----------------------------------------------------------------------------
(* Numbers and their bytes. *)

\* A number's digits give the number back (BN_bn2bin, BN_bin2bn).
LEMMA RoundTrip ==
    ASSUME NEW w \in Nat, NEW v \in Nat, v < Power[w], NEW bytes \in Bytes(w),
           \A i \in 1..w : bytes[i] = (v \div Power[w - i]) % Base
    PROVE  BN_bin2bn(bytes) = v
<1>1. PICK value \in [0..w -> Nat] :
              /\ BN_bin2bn(bytes) = value[w]
              /\ value[0] = 0
              /\ \A i \in 0..(w - 1) : value[i + 1] = Base * value[i] + bytes[i + 1]
      BY Bin2BnIs
<1> DEFINE T == {i \in Nat : i <= w => value[i] = v \div Power[w - i]}
<1>2. 0 \in T
  <2>1. PICK p \in Nat : p = Power[w] /\ p > 0
        BY PowerTypes
  <2>2. v \in 0..(p - 1)
        BY <2>1
  <2>3. v \div p = 0
        BY <2>2, DivSmall
  <2>4. w - 0 = w
        OBVIOUS
  <2> QED BY <1>1, <2>1, <2>3, <2>4
<1>3. ASSUME NEW i \in Nat, i \in T PROVE i + 1 \in T
  <2> SUFFICES ASSUME i + 1 <= w PROVE value[i + 1] = v \div Power[w - (i + 1)]
      OBVIOUS
  <2>1. PICK j \in Nat : j = w - (i + 1) /\ w - i = j + 1
        OBVIOUS
  <2>2. i \in 0..(w - 1) /\ i + 1 \in 1..w /\ value[i] = v \div Power[j + 1]
        BY <1>3, <2>1
  <2>3. bytes[i + 1] = (v \div Power[j]) % Base
        BY <2>1, <2>2
  <2>4. Power[j] \in Nat /\ Power[j] > 0 /\ Power[j + 1] = Power[j] * Base /\ Base \in Nat /\ Base > 0
        BY PowerTypes
  <2>5. v \div Power[j] = Base * (v \div (Power[j] * Base)) + ((v \div Power[j]) % Base)
    <3>1. PICK p, q : p = Power[j] /\ q = Base
          OBVIOUS
    <3>2. p \in Nat /\ q \in Nat /\ p > 0 /\ q > 0
          BY <2>4, <3>1
    <3>3. PICK c : c = v
          OBVIOUS
    <3>4. c \in Nat
          BY ONLY <3>3, v \in Nat
    <3>5. c \div p = q * (c \div (p * q)) + ((c \div p) % q)
          BY ONLY <3>2, <3>4, NextDigit, Zenon
    <3> QED BY ONLY <3>1, <3>3, <3>5, Zenon
  <2>6. value[i + 1] = Base * value[i] + bytes[i + 1]
        BY <1>1, <2>2
  <2> QED BY ONLY <2>1, <2>2, <2>3, <2>4, <2>5, <2>6
<1>4. Nat \subseteq T
  <2> HIDE DEF T
  <2> QED BY <1>2, <1>3, Upwards
<1>5. value[w] = v \div Power[0]
      BY <1>4
<1>6. v = 1 * v + 0
      OBVIOUS
<1>7. v \div 1 = v
      BY <1>6, DivIs
<1> QED BY <1>1, <1>5, <1>7, PowerIs

\* Longer numbers are larger.
LEMMA PowersRise == ASSUME NEW i \in Nat, NEW j \in Nat, i <= j PROVE Power[i] <= Power[j]
<1> DEFINE T == {d \in Nat : Power[i] <= Power[i + d]}
<1>1. 0 \in T
      BY PowerIs
<1>2. ASSUME NEW d \in Nat, d \in T PROVE d + 1 \in T
  <2>1. PICK k \in Nat : k = i + d /\ i + (d + 1) = k + 1
        OBVIOUS
  <2>2. Power[i] <= Power[k] /\ Power[k] \in Nat /\ Power[i] \in Nat /\ Power[k + 1] = Base * Power[k]
        BY <1>2, <2>1, PowerIs
  <2>3. Power[k] <= Base * Power[k]
        BY <2>2, KeyExchangeAssumption
  <2> QED BY <2>1, <2>2, <2>3, PowerIs
<1>3. Nat \subseteq T
  <2> HIDE DEF T
  <2> QED BY <1>1, <1>2, Upwards
<1>4. j - i \in Nat /\ i + (j - i) = j
      OBVIOUS
<1> QED BY <1>3, <1>4

LEMMA NumBytesIs ==
    ASSUME NEW v \in Nat, v < Power[Width]
    PROVE  /\ BN_num_bytes(v) \in 0..Width
           /\ v < Power[BN_num_bytes(v)]
           /\ BN_num_bytes(v) > 0 => v >= Power[BN_num_bytes(v) - 1]
<1> DEFINE P(u) == v < Power[u] /\ (u > 0 => v >= Power[u - 1])
           T == {w \in Nat : v < Power[w] => \E u \in 0..w : P(u)}
<1>1. 0 \in T
      BY PowerIs
<1>2. ASSUME NEW w \in Nat, w \in T PROVE w + 1 \in T
  <2> SUFFICES ASSUME v < Power[w + 1] PROVE \E u \in 0..(w + 1) : P(u)
      OBVIOUS
  <2>1. Power[w] \in Nat /\ (w + 1) - 1 = w
        BY PowerIs
  <2>2. CASE v < Power[w]
        BY <1>2, <2>2
  <2>3. CASE ~(v < Power[w])
    <3>1. w + 1 \in 0..(w + 1) /\ P(w + 1)
          BY <2>1, <2>3
    <3> QED BY <3>1
  <2> QED BY <2>2, <2>3
<1>3. Nat \subseteq T
  <2> HIDE DEF T
  <2> QED BY <1>1, <1>2, Upwards
<1>4. \E u \in 0..Width : P(u)
      BY <1>3, KeyExchangeAssumption
<1>5. BN_num_bytes(v) = CHOOSE u \in 0..Width : P(u)
      BY DEF BN_num_bytes
<1> QED BY <1>4, <1>5

LEMMA FullWidth == ASSUME NEW v \in Primes PROVE v \in Nat /\ v > 0 /\ v < Power[Width] /\ BN_num_bytes(v) = Width
<1>1. v \in Power[Width - 1]..(Power[Width] - 1) /\ Width \in Nat /\ Width - 1 \in Nat
      BY KeyExchangeAssumption
<1>2. v \in Nat /\ v > 0 /\ v < Power[Width] /\ v >= Power[Width - 1]
      BY <1>1, PowerIs
<1>3. PICK nb : nb = BN_num_bytes(v)
      OBVIOUS
<1>4. nb \in 0..Width /\ v < Power[nb]
      BY <1>2, <1>3, NumBytesIs
<1>5. ASSUME nb # Width PROVE FALSE
  <2>1. nb \in Nat /\ nb <= Width - 1
        BY <1>1, <1>4, <1>5
  <2>2. Power[nb] <= Power[Width - 1] /\ Power[nb] \in Nat /\ Power[Width - 1] \in Nat
        BY <1>1, <2>1, PowersRise, PowerIs
  <2> QED BY <1>2, <1>4, <2>2
<1> QED BY <1>2, <1>3, <1>5

\* An array is an array of bytes, whatever was on the stack, and one that is filled
\* reads back (generate_keys, load_key).
LEMMA StoredIs ==
    ASSUME NEW v \in Nat, v < Power[Width], NEW stack \in Bytes(Width)
    PROVE  /\ Stored(v, stack) \in Bytes(Width)
           /\ BN_num_bytes(v) = Width => BN_bin2bn(Stored(v, stack)) = v
<1> DEFINE out == Stored(v, stack)
<1>1. PICK nb : nb = BN_num_bytes(v)
      OBVIOUS
<1>2. nb \in 0..Width /\ Width \in Nat
      BY <1>1, NumBytesIs, KeyExchangeAssumption
<1>3. BN_bn2bin(v) = [i \in 1..nb |-> (v \div Power[nb - i]) % Base]
      BY <1>1 DEF BN_bn2bin
<1>4. \A i \in 1..nb : BN_bn2bin(v)[i] = (v \div Power[nb - i]) % Base
      BY <1>3
<1>5. \A c \in Nat : c % Base \in Byte
  <2>1. Base \in Nat /\ Base > 0
        BY PowerTypes
  <2>2. \A m, c \in Nat : m > 0 => c % m \in 0..(m - 1)
        OBVIOUS
  <2> QED BY <2>1, <2>2 DEF Byte
<1>6. ASSUME NEW i \in 1..nb PROVE BN_bn2bin(v)[i] \in Byte
  <2>1. nb - i \in Nat
        BY <1>2
  <2>2. PICK p \in Nat : p = Power[nb - i] /\ p > 0
        BY <2>1, PowerTypes
  <2>3. v \div p \in Nat
        BY <2>2, DivNat
  <2> QED BY <1>4, <1>5, <2>2, <2>3
<1>7. out = [i \in 1..Width |-> IF i <= nb THEN BN_bn2bin(v)[i] ELSE stack[i]]
      BY <1>1 DEF Stored
<1>8. \A i \in 1..Width : (IF i <= nb THEN BN_bn2bin(v)[i] ELSE stack[i]) \in Byte
      BY <1>2, <1>6 DEF Bytes
<1>9. out \in Bytes(Width)
      BY <1>7, <1>8 DEF Bytes
<1>10. ASSUME nb = Width PROVE BN_bin2bn(out) = v
  <2>1. \A i \in 1..Width : out[i] = BN_bn2bin(v)[i]
        BY <1>2, <1>7, <1>10
  <2>2. \A i \in 1..Width : out[i] = (v \div Power[Width - i]) % Base
        BY <1>4, <1>10, <2>1
  <2> HIDE DEF out
  <2> QED BY <1>2, <1>9, <2>2, RoundTrip
<1> QED BY <1>1, <1>9, <1>10

\* The seeds travel the other way round (BN_bn2lebinpad, BN_lebin2bn).
LEMMA PaddedIs ==
    ASSUME NEW v \in Nat, v < Power[Width]
    PROVE  /\ BN_bn2lebinpad(v, Width) \in Bytes(Width)
           /\ BN_lebin2bn(BN_bn2lebinpad(v, Width)) = v
<1> DEFINE out == BN_bn2lebinpad(v, Width)
<1>1. Width \in Nat
      BY KeyExchangeAssumption
<1>2. out = [i \in 1..Width |-> (v \div Power[i - 1]) % Base]
      BY DEF BN_bn2lebinpad
<1>3. \A c \in Nat : c % Base \in Byte
  <2>1. Base \in Nat /\ Base > 0
        BY PowerTypes
  <2>2. \A m, c \in Nat : m > 0 => c % m \in 0..(m - 1)
        OBVIOUS
  <2> QED BY <2>1, <2>2 DEF Byte
<1>4. ASSUME NEW i \in 1..Width PROVE (v \div Power[i - 1]) % Base \in Byte
  <2>1. i - 1 \in Nat
        BY <1>1
  <2>2. PICK p \in Nat : p = Power[i - 1] /\ p > 0
        BY <2>1, PowerTypes
  <2>3. v \div p \in Nat
        BY <2>2, DivNat
  <2> QED BY <1>3, <2>2, <2>3
<1>5. out \in Bytes(Width)
      BY <1>2, <1>4 DEF Bytes
<1>6. \A i \in 1..Width : out[i] = (v \div Power[i - 1]) % Base
      BY <1>2
<1>7. Len(out) = Width
      BY <1>1, <1>2
<1> HIDE DEF out
<1> DEFINE back == Reverse(out)
<1>8. back = [i \in 1..Width |-> out[(Width - i) + 1]]
      BY <1>7 DEF Reverse
<1>9. \A i \in 1..Width : (Width - i) + 1 \in 1..Width /\ ((Width - i) + 1) - 1 = Width - i
      BY <1>1
<1>10. \A i \in 1..Width : back[i] = (v \div Power[Width - i]) % Base
      BY <1>6, <1>8, <1>9
<1>11. back \in Bytes(Width)
      BY <1>5, <1>8, <1>9 DEF Bytes
<1> HIDE DEF back
<1>12. BN_bin2bn(back) = v
      BY <1>1, <1>10, <1>11, RoundTrip
<1> QED BY <1>5, <1>12 DEF BN_lebin2bn, out, back

-----------------------------------------------------------------------------
(* Powers of powers. *)

LEMMA ExponentsAdd ==
    ASSUME NEW a \in Nat, NEW n \in Nat, n > 0, NEW e \in Nat
    PROVE  \A f \in Nat : BN_mod_exp(a, e + f, n) = (BN_mod_exp(a, e, n) * BN_mod_exp(a, f, n)) % n
<1> DEFINE E(k) == BN_mod_exp(a, k, n)
           T == {f \in Nat : E(e + f) = (E(e) * E(f)) % n}
<1>1. \A k \in Nat : E(k) \in 0..(n - 1) /\ E(k + 1) = (E(k) * a) % n
      BY ModExpIs
<1>2. E(0) = 1 % n
      BY ModExpIs
<1> HIDE DEF E
<1>3. 0 \in T
  <2>1. PICK x \in 0..(n - 1) : x = E(e)
        BY <1>1
  <2>2. ((1 % n) * x) % n = (1 * x) % n
        BY ModTimes
  <2>3. (1 * x) % n = x
        BY DivIs
  <2>4. (1 % n) * x = x * (1 % n)
    <3>1. 1 % n \in Int
          BY DivMod
    <3> QED BY <3>1
  <2>5. e + 0 = e
        OBVIOUS
  <2> QED BY <1>2, <2>1, <2>2, <2>3, <2>4, <2>5
<1>4. ASSUME NEW f \in Nat, f \in T PROVE f + 1 \in T
  <2>1. PICK x \in 0..(n - 1) : x = E(e)
        BY <1>1
  <2>2. PICK z \in 0..(n - 1) : z = E(f)
        BY <1>1
  <2>3. E(e + f) = (x * z) % n
        BY <1>4, <2>1, <2>2
  <2>4. E((e + f) + 1) = (E(e + f) * a) % n
        BY <1>1
  <2>5. x * z \in Int /\ z * a \in Int
        OBVIOUS
  <2>6. (((x * z) % n) * a) % n = ((x * z) * a) % n
        BY <2>5, ModTimes
  <2>7. E(f + 1) = (z * a) % n
        BY <1>1, <2>2
  <2>8. (((z * a) % n) * x) % n = ((z * a) * x) % n
        BY <2>5, ModTimes
  <2>9. (z * a) * x = (x * z) * a
        OBVIOUS
  <2>10. x * ((z * a) % n) = ((z * a) % n) * x
    <3>1. (z * a) % n \in Int
          BY <2>5, DivMod
    <3> QED BY <3>1
  <2>11. e + (f + 1) = (e + f) + 1
        OBVIOUS
  <2> QED BY <2>1, <2>3, <2>4, <2>6, <2>7, <2>8, <2>9, <2>10, <2>11
<1>5. Nat \subseteq T
  <2> HIDE DEF T
  <2> QED BY <1>3, <1>4, Upwards
<1> QED BY <1>5 DEF E

LEMMA ExponentsMultiply ==
    ASSUME NEW a \in Nat, NEW n \in Nat, n > 0, NEW e \in Nat
    PROVE  \A f \in Nat : BN_mod_exp(BN_mod_exp(a, e, n), f, n) = BN_mod_exp(a, e * f, n)
<1> DEFINE E(k) == BN_mod_exp(a, k, n)
           x == E(e)
           T == {f \in Nat : BN_mod_exp(x, f, n) = E(e * f)}
<1>1. x \in Nat
      BY ModExpIs
<1> HIDE DEF x
<1>2. BN_mod_exp(x, 0, n) = 1 % n /\ \A f \in Nat : BN_mod_exp(x, f + 1, n) = (BN_mod_exp(x, f, n) * x) % n
      BY <1>1, ModExpIs
<1>3. E(0) = 1 % n
      BY ModExpIs
<1>4. 0 \in T
  <2>1. e * 0 = 0
        OBVIOUS
  <2> QED BY <1>2, <1>3, <2>1
<1>5. ASSUME NEW f \in Nat, f \in T PROVE f + 1 \in T
  <2>1. e * (f + 1) = (e * f) + e /\ e * f \in Nat
        OBVIOUS
  <2>2. E((e * f) + e) = (E(e * f) * E(e)) % n
        BY <2>1, ExponentsAdd
  <2> QED BY <1>2, <1>5, <2>1, <2>2 DEF x
<1>6. Nat \subseteq T
  <2> HIDE DEF T
  <2> QED BY <1>4, <1>5, Upwards
<1> QED BY <1>6 DEF x

\* What both ends compute: "g**K%N" raised to b, and g**b%N raised to K.
LEMMA PowersCommute ==
    ASSUME NEW a \in Nat, NEW n \in Nat, n > 0, NEW e \in Nat, NEW f \in Nat
    PROVE  BN_mod_exp(BN_mod_exp(a, e, n), f, n) = BN_mod_exp(BN_mod_exp(a, f, n), e, n)
<1>1. e * f = f * e
      OBVIOUS
<1> QED BY <1>1, ExponentsMultiply

-----------------------------------------------------------------------------
(* The invariant: what every array holds, as a number. *)

\* The number the client sends.
Sent == BN_mod_exp(made.g, b, made.n)

Derived ==
    /\ phase # "none" =>
        /\ BN_bin2bn(config.k) = made.k /\ BN_bin2bn(config.n) = made.n
        /\ BN_num_bytes(X) = Width => BN_bin2bn(config.x) = X
    /\ phase \in {"loaded", "connected", "keyed", "agreed"} => keys.k = made.k /\ keys.n = made.n
    /\ phase \in {"connected", "keyed", "agreed"} => y = BN_bn2lebinpad(Sent, Width)
    /\ phase \in {"keyed", "agreed"} =>
        key = Mixed(BN_bn2lebinpad(BN_mod_exp(Sent, made.k, made.n), Width), srv_seed)
    /\ phase = "agreed" /\ BN_num_bytes(X) = Width =>
        cli_key = Mixed(BN_bn2lebinpad(BN_mod_exp(X, b, made.n), Width), srv_seed)

Agreeing == TypeOK /\ Derived

\* The numbers of a run are of the widths the arrays have.
LEMMA Ranges ==
    ASSUME NEW g \in Bases, NEW k \in Primes, NEW n \in Primes, NEW e \in Nat
    PROVE  /\ g \in Nat /\ k \in Nat /\ n \in Nat /\ n > 0
           /\ BN_mod_exp(g, e, n) \in Nat /\ BN_mod_exp(g, e, n) < Power[Width]
           /\ \A f \in Nat : BN_mod_exp(BN_mod_exp(g, e, n), f, n) \in Nat
                             /\ BN_mod_exp(BN_mod_exp(g, e, n), f, n) < Power[Width]
<1>1. g \in Nat /\ k \in Nat /\ n \in Nat /\ n > 0 /\ n < Power[Width]
      BY FullWidth, KeyExchangeAssumption
<1>2. Power[Width] \in Nat
      BY PowerTypes, KeyExchangeAssumption
<1>3. \A a \in Nat, f \in Nat : BN_mod_exp(a, f, n) \in Nat /\ BN_mod_exp(a, f, n) < Power[Width]
  <2> SUFFICES ASSUME NEW a \in Nat, NEW f \in Nat
               PROVE  BN_mod_exp(a, f, n) \in Nat /\ BN_mod_exp(a, f, n) < Power[Width]
      OBVIOUS
  <2>1. BN_mod_exp(a, f, n) \in 0..(n - 1)
        BY <1>1, ModExpIs
  <2> QED BY <1>1, <1>2, <2>1
<1> QED BY <1>1, <1>3

\* Mixing gives a key's bytes.
LEMMA MixedIs ==
    ASSUME NEW v \in Nat, v < Power[Width], NEW srvSeed \in Bytes(KeySize)
    PROVE  Mixed(BN_bn2lebinpad(v, Width), srvSeed) \in Bytes(KeySize)
<1>1. \A i \in 1..KeySize : i \in 1..Width
      BY KeyExchangeAssumption
<1>2. \A i \in 1..KeySize : BN_bn2lebinpad(v, Width)[i] \in Byte /\ srvSeed[i] \in Byte
      BY <1>1, PaddedIs DEF Bytes
<1>3. \A i \in 1..KeySize : ByteXor(BN_bn2lebinpad(v, Width)[i], srvSeed[i]) \in Byte
      BY <1>2, KeyExchangeAssumption
<1> QED BY <1>3 DEF Mixed, Bytes

LEMMA GenerateStep == ASSUME Agreeing, generate_keys PROVE Agreeing'
<1>1. PICK g \in Bases, k \in Primes, n \in Primes, stack \in Bytes(Width) :
          /\ made' = [g |-> g, k |-> k, n |-> n]
          /\ config' = [k |-> Stored(k, stack), n |-> Stored(n, stack),
                        x |-> Stored(BN_mod_exp(g, k, n), stack)]
      BY DEF generate_keys
<1>2. phase' = "stored"
      BY DEF generate_keys
<1>3. /\ k \in Nat /\ k < Power[Width] /\ BN_num_bytes(k) = Width
      /\ n \in Nat /\ n < Power[Width] /\ BN_num_bytes(n) = Width
      BY FullWidth
<1>4. PICK v : v = BN_mod_exp(g, k, n)
      OBVIOUS
<1>5. v \in Nat /\ v < Power[Width]
      BY <1>3, <1>4, Ranges
<1>6. Stored(k, stack) \in Bytes(Width) /\ Stored(n, stack) \in Bytes(Width) /\ Stored(v, stack) \in Bytes(Width)
      BY <1>3, <1>5, StoredIs
<1>7. BN_bin2bn(Stored(k, stack)) = k /\ BN_bin2bn(Stored(n, stack)) = n
      BY <1>3, StoredIs
<1>8. BN_num_bytes(v) = Width => BN_bin2bn(Stored(v, stack)) = v
      BY <1>5, StoredIs
<1>9. made'.g = g /\ made'.k = k /\ made'.n = n /\ made' \in [g : Bases, k : Primes, n : Primes]
      BY <1>1
<1>10. /\ config'.k = Stored(k, stack) /\ config'.n = Stored(n, stack) /\ config'.x = Stored(v, stack)
       /\ config' \in [k : Bytes(Width), n : Bytes(Width), x : Bytes(Width)]
      BY <1>1, <1>4, <1>6
<1>11. X' = v
      BY <1>4, <1>9 DEF X
<1>12. TypeOK'
      BY <1>2, <1>9, <1>10 DEF TypeOK
<1>13. Derived'
      BY <1>2, <1>7, <1>8, <1>9, <1>10, <1>11 DEF Derived
<1> QED BY <1>12, <1>13 DEF Agreeing

\* The steps after generate_keys leave what it made.
LEMMA MadeStays ==
    ASSUME Agreeing, phase # "none", UNCHANGED <<made, config>>
    PROVE  /\ made \in [g : Bases, k : Primes, n : Primes]
           /\ made.g \in Bases /\ made.k \in Primes /\ made.n \in Primes
           /\ BN_bin2bn(config.k) = made.k /\ BN_bin2bn(config.n) = made.n
           /\ BN_num_bytes(X) = Width => BN_bin2bn(config.x) = X
           /\ X' = X /\ X = BN_mod_exp(made.g, made.k, made.n)
           /\ made' = made /\ config' = config
           /\ config \in [k : Bytes(Width), n : Bytes(Width), x : Bytes(Width)]
BY DEF Agreeing, TypeOK, Derived, X

LEMMA LoadStep == ASSUME Agreeing, load_keys PROVE Agreeing'
<1>1. /\ phase = "stored" /\ phase' = "loaded" /\ UNCHANGED <<made, config>>
      /\ keys' = [k |-> BN_bin2bn(config.k), n |-> BN_bin2bn(config.n)]
      BY DEF load_keys
<1>2. keys' = [k |-> made.k, n |-> made.n]
      BY <1>1, MadeStays
<1>3. made.k \in Nat /\ made.n \in Nat
      BY <1>1, MadeStays, FullWidth
<1>4. TypeOK'
      BY <1>1, <1>2, <1>3, MadeStays DEF TypeOK
<1>5. Derived'
      BY <1>1, <1>2, MadeStays DEF Derived
<1> QED BY <1>4, <1>5 DEF Agreeing

LEMMA ConnectStep == ASSUME Agreeing, ClientConnects PROVE Agreeing'
<1>1. /\ phase = "loaded" /\ phase' = "connected" /\ UNCHANGED <<made, config, keys>>
      /\ b' \in Secrets
      /\ y' = BN_bn2lebinpad(BN_mod_exp(made.g, b', BN_bin2bn(config.n)), Width)
      BY DEF ClientConnects
<1>2. y' = BN_bn2lebinpad(Sent', Width) /\ Sent' = BN_mod_exp(made.g, b', made.n)
      BY <1>1, MadeStays DEF Sent
<1>3. Sent' \in Nat /\ Sent' < Power[Width]
      BY <1>1, <1>2, MadeStays, Ranges, KeyExchangeAssumption
<1>4. y' \in Bytes(Width)
      BY <1>2, <1>3, PaddedIs
<1>5. keys \in [k : Nat, n : Nat] /\ keys.k = made.k /\ keys.n = made.n
      BY <1>1 DEF Agreeing, TypeOK, Derived
<1>6. TypeOK'
      BY <1>1, <1>4, <1>5, MadeStays DEF TypeOK
<1>7. Derived'
      BY <1>1, <1>2, <1>5, MadeStays DEF Derived
<1> QED BY <1>6, <1>7 DEF Agreeing

LEMMA ServerStep == ASSUME Agreeing, make_server_key PROVE Agreeing'
<1>1. /\ phase = "connected" /\ phase' = "keyed" /\ UNCHANGED <<made, config, keys, b, y>>
      /\ srv_seed' \in Bytes(KeySize)
      /\ key' = Mixed(BN_bn2lebinpad(BN_mod_exp(BN_lebin2bn(y), keys.k, keys.n), Width), srv_seed')
      BY DEF make_server_key
<1>2. /\ keys \in [k : Nat, n : Nat] /\ keys.k = made.k /\ keys.n = made.n
      /\ b \in Secrets /\ y \in Bytes(Width) /\ y = BN_bn2lebinpad(Sent, Width)
      BY <1>1 DEF Agreeing, TypeOK, Derived
<1>3. b \in Nat /\ Sent = BN_mod_exp(made.g, b, made.n) /\ Sent' = Sent
      BY <1>1, <1>2, KeyExchangeAssumption DEF Sent
<1>4. Sent \in Nat /\ Sent < Power[Width]
      BY <1>1, <1>3, MadeStays, Ranges
<1>5. BN_lebin2bn(y) = Sent
      BY <1>2, <1>4, PaddedIs
<1>6. PICK v : v = BN_mod_exp(Sent, made.k, made.n)
      OBVIOUS
<1>7. key' = Mixed(BN_bn2lebinpad(v, Width), srv_seed')
      BY <1>1, <1>2, <1>5, <1>6
<1>8. v \in Nat /\ v < Power[Width]
  <2>1. made.k \in Nat
        BY <1>1, MadeStays, FullWidth
  <2> QED BY <1>1, <1>3, <1>6, <2>1, MadeStays, Ranges
<1>9. key' \in Bytes(KeySize)
      BY <1>1, <1>7, <1>8, MixedIs
<1>10. TypeOK'
      BY <1>1, <1>2, <1>9, MadeStays DEF TypeOK
<1>11. Derived'
      BY <1>1, <1>2, <1>3, <1>6, <1>7, MadeStays DEF Derived
<1> QED BY <1>10, <1>11 DEF Agreeing

LEMMA ClientStep == ASSUME Agreeing, ClientKeys PROVE Agreeing'
<1>1. /\ phase = "keyed" /\ phase' = "agreed" /\ UNCHANGED <<made, config, keys, b, y, srv_seed, key>>
      /\ cli_key' = Mixed(BN_bn2lebinpad(BN_mod_exp(BN_bin2bn(config.x), b, BN_bin2bn(config.n)), Width), srv_seed)
      BY DEF ClientKeys
<1>2. /\ keys \in [k : Nat, n : Nat] /\ keys.k = made.k /\ keys.n = made.n
      /\ b \in Secrets /\ y \in Bytes(Width) /\ y = BN_bn2lebinpad(Sent, Width)
      /\ srv_seed \in Bytes(KeySize) /\ key \in Bytes(KeySize)
      /\ key = Mixed(BN_bn2lebinpad(BN_mod_exp(Sent, made.k, made.n), Width), srv_seed)
      BY <1>1 DEF Agreeing, TypeOK, Derived
<1>3. Sent' = Sent /\ b \in Nat
      BY <1>1, <1>2, KeyExchangeAssumption DEF Sent
<1>4. cli_key' \in Bytes(KeySize)
  <2>1. BN_bin2bn(config.x) \in Nat
    <3>1. config.x \in Bytes(Width) /\ Width \in Nat
          BY <1>1, MadeStays, KeyExchangeAssumption
    <3>2. \E value \in [0..Width -> Nat] : BN_bin2bn(config.x) = value[Width]
          BY <3>1, Bin2BnIs
    <3> QED BY <3>1, <3>2
  <2>2. PICK v : v = BN_mod_exp(BN_bin2bn(config.x), b, made.n)
        OBVIOUS
  <2>3. v \in 0..(made.n - 1) /\ made.n \in Nat /\ made.n > 0 /\ made.n < Power[Width] /\ Power[Width] \in Nat
    <3>1. made.n \in Nat /\ made.n > 0 /\ made.n < Power[Width]
          BY <1>1, MadeStays, FullWidth
    <3>2. Power[Width] \in Nat
          BY PowerTypes, KeyExchangeAssumption
    <3> QED BY <1>3, <2>1, <2>2, <3>1, <3>2, ModExpIs
  <2>4. v \in Nat /\ v < Power[Width]
        BY <2>3
  <2>5. cli_key' = Mixed(BN_bn2lebinpad(v, Width), srv_seed)
        BY <1>1, <2>2, MadeStays
  <2> QED BY <1>2, <2>4, <2>5, MixedIs
<1>5. BN_num_bytes(X) = Width => cli_key' = Mixed(BN_bn2lebinpad(BN_mod_exp(X, b, made.n), Width), srv_seed)
      BY <1>1, MadeStays
<1>6. TypeOK'
      BY <1>1, <1>2, <1>4, MadeStays DEF TypeOK
<1>7. Derived'
      BY <1>1, <1>2, <1>3, <1>5, MadeStays DEF Derived
<1> QED BY <1>6, <1>7 DEF Agreeing

LEMMA AgreeingInit == Init => Agreeing
BY DEF Init, Agreeing, TypeOK, Derived

LEMMA AgreeingStep == Agreeing /\ [Next]_vars => Agreeing'
<1> SUFFICES ASSUME Agreeing, [Next]_vars PROVE Agreeing'
    OBVIOUS
<1>1. CASE UNCHANGED vars
      BY <1>1 DEF vars, Agreeing, TypeOK, Derived, Sent, X
<1>2. CASE NextClient
      BY <1>2 DEF NextClient, Agreeing, TypeOK, Derived, X
<1> QED BY <1>1, <1>2, GenerateStep, LoadStep, ConnectStep, ServerStep, ClientStep DEF Next

-----------------------------------------------------------------------------
\* Every array is filled with bytes, whatever was on the stack, and no number is wider
\* than its array, whatever the primes and the secrets (generate_keys,
\* make_server_key).
THEOREM TypeCorrect == Spec => []TypeOK
<1>1. Agreeing => TypeOK
      BY DEF Agreeing
<1> QED BY <1>1, AgreeingInit, AgreeingStep, PTL DEF Spec

\* Daemon and client derive the same session key for all primes of the full width, all
\* bases, secrets and seeds, and all widths of numbers and keys, if X fills its array
\* (generate_keys, make_server_key).
THEOREM SameKey == Spec => []KeysAgree
<1>1. Agreeing => KeysAgree
  <2> SUFFICES ASSUME Agreeing, phase = "agreed", BN_num_bytes(X) = Width PROVE key = cli_key
      BY DEF KeysAgree
  <2>1. /\ key = Mixed(BN_bn2lebinpad(BN_mod_exp(Sent, made.k, made.n), Width), srv_seed)
        /\ cli_key = Mixed(BN_bn2lebinpad(BN_mod_exp(X, b, made.n), Width), srv_seed)
        /\ made.g \in Bases /\ made.k \in Primes /\ made.n \in Primes /\ b \in Secrets
        BY DEF Agreeing, TypeOK, Derived
  <2>2. made.g \in Nat /\ made.k \in Nat /\ made.n \in Nat /\ made.n > 0 /\ b \in Nat
        BY <2>1, FullWidth, KeyExchangeAssumption
  <2>3. BN_mod_exp(Sent, made.k, made.n) = BN_mod_exp(X, b, made.n)
        BY <2>2, PowersCommute DEF Sent, X
  <2> QED BY <2>1, <2>3
<1> QED BY <1>1, AgreeingInit, AgreeingStep, PTL DEF Spec
=============================================================================
