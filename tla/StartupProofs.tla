---------------------------- MODULE StartupProofs ----------------------------
(* Proofs about the start of the daemon (Startup), for every table of numbers,  *)
(* order of the maps, first theme.ini, sequence of key pairs and list of        *)
(* addresses within the assumptions that Config, Listener and Startup state.    *)
EXTENDS Startup, Induction, SequenceTheorems

-----------------------------------------------------------------------------
(* Reading a file line by line *)

\* g[i] is the state after the first i lines, for i up to n.
Reading(values, file, n, g) ==
    g = [i \in 0..n |-> IF i = 0 THEN [section |-> "", values |-> values]
                                 ELSE ReadLine(g[i - 1], file[i])]

\* The lines can be read one after the other.
LEMMA ReadingExists ==
    ASSUME NEW values, NEW file
    PROVE  \A n \in Nat : \E g : Reading(values, file, n, g)
<1> DEFINE S == {n \in Nat : \E g : Reading(values, file, n, g)}
<1>1. 0 \in S
  <2> DEFINE g == [i \in 0..0 |-> [section |-> "", values |-> values]]
  <2>1. Reading(values, file, 0, g)
        BY DEF Reading
  <2> QED BY <2>1
<1>2. ASSUME NEW n \in Nat, n \in S PROVE n + 1 \in S
  <2>1. PICK g : Reading(values, file, n, g)
        BY <1>2
  <2> DEFINE h == [i \in 0..(n + 1) |-> IF i = n + 1 THEN ReadLine(g[n], file[n + 1]) ELSE g[i]]
             e(i) == IF i = 0 THEN [section |-> "", values |-> values]
                              ELSE ReadLine(h[i - 1], file[i])
  <2>2. \A i \in 0..n : g[i] = IF i = 0 THEN [section |-> "", values |-> values]
                                        ELSE ReadLine(g[i - 1], file[i])
        BY <2>1 DEF Reading
  <2>3. ASSUME NEW i \in 0..(n + 1) PROVE h[i] = e(i)
    <3>0. h[i] = IF i = n + 1 THEN ReadLine(g[n], file[n + 1]) ELSE g[i]
          OBVIOUS
    <3>1. CASE i = 0
      <4>1. 0 \in 0..n /\ 0 # n + 1
            OBVIOUS
      <4> QED BY <2>2, <3>0, <3>1, <4>1
    <3>2. CASE i # 0
      <4>1. i - 1 \in 0..n /\ i - 1 \in 0..(n + 1) /\ i - 1 # n + 1
            BY <3>2
      <4>2. h[i - 1] = g[i - 1]
            BY <4>1
      <4> HIDE DEF h
      <4>3. CASE i = n + 1
        <5>1. i - 1 = n
              BY <4>3
        <5> QED BY <3>0, <3>2, <4>2, <4>3, <5>1
      <4>4. CASE i # n + 1
        <5>1. i \in 0..n
              BY <4>4
        <5> QED BY <2>2, <3>0, <3>2, <4>2, <4>4, <5>1
      <4> QED BY <4>3, <4>4
    <3> QED BY <3>1, <3>2
  <2>4. h = [i \in 0..(n + 1) |-> e(i)]
    <3> HIDE DEF e
    <3> QED BY <2>3, Zenon
  <2>5. Reading(values, file, n + 1, h)
        BY <2>4 DEF Reading
  <2> HIDE DEF h
  <2> QED BY <2>5
<1>3. Nat \subseteq S
  <2> HIDE DEF S
  <2> QED BY <1>1, <1>2, Upwards
<1> QED BY <1>3

\* The state after a line depends on the lines up to it only.
LEMMA ReadingAgrees ==
    ASSUME NEW values, NEW f, NEW h, NEW m \in Nat, NEW n \in Nat, m <= n,
           NEW p, Reading(values, f, m, p), NEW q, Reading(values, h, n, q),
           \A i \in 1..m : f[i] = h[i]
    PROVE  p[m] = q[m]
<1> DEFINE S == {i \in Nat : i <= m => p[i] = q[i]}
<1>0. /\ \A i \in 0..m : p[i] = IF i = 0 THEN [section |-> "", values |-> values]
                                        ELSE ReadLine(p[i - 1], f[i])
      /\ \A i \in 0..n : q[i] = IF i = 0 THEN [section |-> "", values |-> values]
                                        ELSE ReadLine(q[i - 1], h[i])
      BY DEF Reading
<1>1. 0 \in S
  <2>1. 0 \in 0..m /\ 0 \in 0..n
        OBVIOUS
  <2> QED BY <1>0, <2>1
<1>2. ASSUME NEW i \in Nat, i \in S PROVE i + 1 \in S
  <2> SUFFICES ASSUME i + 1 <= m PROVE p[i + 1] = q[i + 1]
      OBVIOUS
  <2>1. i + 1 \in 0..m /\ i + 1 \in 0..n /\ i + 1 # 0 /\ (i + 1) - 1 = i /\ f[i + 1] = h[i + 1]
        OBVIOUS
  <2>2. p[i] = q[i]
        BY <1>2
  <2>3. p[i + 1] = ReadLine(p[i], f[i + 1])
        BY <1>0, <2>1
  <2>4. q[i + 1] = ReadLine(q[i], h[i + 1])
        BY <1>0, <2>1
  <2> QED BY <2>1, <2>2, <2>3, <2>4
<1>3. Nat \subseteq S
  <2> HIDE DEF S
  <2> QED BY <1>1, <1>2, Upwards
<1> QED BY <1>3

\* What ReadAll takes its result from.
LEMMA ReadAllReading ==
    ASSUME NEW values, NEW file, Len(file) \in Nat
    PROVE  \E g : Reading(values, file, Len(file), g) /\ ReadAll(values, file) = g[Len(file)]
<1> DEFINE g == CHOOSE g : Reading(values, file, Len(file), g)
<1>1. Reading(values, file, Len(file), g)
      BY ReadingExists, Zenon
<1>2. ReadAll(values, file) = g[Len(file)]
      BY Zenon DEF ReadAll, Reading
<1> QED BY <1>1, <1>2

\* A file without lines changes nothing,
LEMMA ReadNothing ==
    ASSUME NEW values
    PROVE  ReadAll(values, <<>>) = [section |-> "", values |-> values]
<1>1. PICK g : Reading(values, <<>>, 0, g) /\ ReadAll(values, <<>>) = g[0]
  <2>1. Len(<<>>) = 0
        OBVIOUS
  <2> QED BY <2>1, ReadAllReading
<1>2. 0 \in 0..0
      OBVIOUS
<1> QED BY <1>1, <1>2, Zenon DEF Reading

\* and a line more is read in the state that those before it leave.
LEMMA ReadOneMore ==
    ASSUME NEW values, NEW T, NEW file \in Seq(T), NEW line \in T
    PROVE  ReadAll(values, Append(file, line)) = ReadLine(ReadAll(values, file), line)
<1> DEFINE longer == Append(file, line)
           n == Len(file)
<1>1. n \in Nat /\ Len(longer) = n + 1 /\ longer[n + 1] = line /\ \A i \in 1..n : longer[i] = file[i]
      OBVIOUS
<1> HIDE DEF longer, n
<1>2. PICK p : Reading(values, file, n, p) /\ ReadAll(values, file) = p[n]
      BY <1>1, ReadAllReading DEF n
<1>3. PICK q : Reading(values, longer, n + 1, q) /\ ReadAll(values, longer) = q[n + 1]
  <2>1. Len(longer) \in Nat
        BY <1>1
  <2> QED BY <1>1, <2>1, ReadAllReading
<1>4. p[n] = q[n]
  <2>1. n <= n + 1 /\ n + 1 \in Nat /\ \A i \in 1..n : file[i] = longer[i]
        BY <1>1
  <2> QED BY <1>1, <1>2, <1>3, <2>1, ReadingAgrees
<1>5. q[n + 1] = ReadLine(q[n], longer[n + 1])
  <2>1. n + 1 \in 0..(n + 1) /\ n + 1 # 0 /\ (n + 1) - 1 = n
        BY <1>1
  <2> QED BY <1>3, <2>1 DEF Reading
<1> QED BY <1>1, <1>2, <1>3, <1>4, <1>5 DEF longer

-----------------------------------------------------------------------------
(* Configurations *)

LEMMA Table ==
    /\ Sections = {"lobby", "gate"}
    /\ Keys("lobby") = {"bindaddr", "extaddr", "port"}
    /\ Keys("gate") = {"crypt_k", "crypt_n", "crypt_x", "crypt_g", "authaddr"}
BY DEF Sections, Keys, s_daemonConfig

IsConfig(c) ==
    /\ c = [s \in Sections |-> [k \in Keys(s) |-> c[s][k]]]
    /\ \A s \in Sections : \A k \in Keys(s) : c[s][k] \in Text

\* What write stores of it is what set makes of the line again.
Stored(c) ==
    /\ IsConfig(c)
    /\ \A s \in Sections : \A k \in Keys(s) :
           c[s][k] \notin Bracketed /\ SetValue(s, k, c[s][k]) = c[s][k]

LEMMA SameConfig ==
    ASSUME NEW c, NEW d, IsConfig(c), IsConfig(d),
           \A s \in Sections : \A k \in Keys(s) : c[s][k] = d[s][k]
    PROVE  c = d
<1>1. \A s \in Sections : [k \in Keys(s) |-> c[s][k]] = [k \in Keys(s) |-> d[s][k]]
      OBVIOUS
<1>2. [s \in Sections |-> [k \in Keys(s) |-> c[s][k]]] = [s \in Sections |-> [k \in Keys(s) |-> d[s][k]]]
      BY <1>1
<1> QED BY <1>2 DEF IsConfig

\* The domains of a configuration, as the provers want them.
LEMMA ConfigDomains ==
    ASSUME NEW c, IsConfig(c)
    PROVE  /\ DOMAIN c = Sections
           /\ \A s \in Sections : DOMAIN c[s] = Keys(s)
<1>1. DOMAIN c = Sections
      BY DEF IsConfig
<1>2. ASSUME NEW s \in Sections PROVE DOMAIN c[s] = Keys(s)
  <2>1. c[s] = [k \in Keys(s) |-> c[s][k]]
        BY Zenon DEF IsConfig
  <2> QED BY <2>1
<1> QED BY <1>1, <1>2

LEMMA ChangedConfig ==
    ASSUME NEW c, IsConfig(c), NEW s \in Sections, NEW k \in Keys(s), NEW v \in Text
    PROVE  LET d == [c EXCEPT ![s][k] = v]
           IN /\ IsConfig(d)
              /\ d[s][k] = v
              /\ \A r \in Sections : \A j \in Keys(r) : <<r, j>> # <<s, k>> => d[r][j] = c[r][j]
<1> DEFINE d == [c EXCEPT ![s][k] = v]
<1>1. DOMAIN c = Sections /\ \A r \in Sections : DOMAIN c[r] = Keys(r)
      BY ConfigDomains
<1>2. d = [r \in Sections |-> IF r = s THEN [c[s] EXCEPT ![k] = v] ELSE c[r]]
      BY <1>1
<1>3. d[s][k] = v /\ \A j \in Keys(s) : j # k => d[s][j] = c[s][j]
      BY <1>1, <1>2
<1>4. \A r \in Sections : r # s => d[r] = c[r]
      BY <1>2
<1>5. DOMAIN d = Sections /\ \A r \in Sections : DOMAIN d[r] = Keys(r)
      BY <1>1, <1>2
<1>6. d = [r \in Sections |-> d[r]]
      BY <1>2
<1> HIDE DEF d
<1>7. \A r \in Sections : d[r] = [j \in Keys(r) |-> d[r][j]]
  <2> TAKE r \in Sections
  <2>1. CASE r = s
    <3>1. d[s] = [c[s] EXCEPT ![k] = v]
          BY <1>2
    <3>2. c[s] = [j \in Keys(s) |-> c[s][j]]
          BY Zenon DEF IsConfig
    <3> QED BY <1>1, <2>1, <3>1, <3>2
  <2>2. CASE r # s
    <3>1. c[r] = [j \in Keys(r) |-> c[r][j]]
          BY Zenon DEF IsConfig
    <3> QED BY <1>4, <2>2, <3>1
  <2> QED BY <2>1, <2>2
<1>8. d = [r \in Sections |-> [j \in Keys(r) |-> d[r][j]]]
      BY <1>6, <1>7
<1>9. \A r \in Sections : \A j \in Keys(r) : d[r][j] \in Text
      BY <1>3, <1>4 DEF IsConfig
<1>10. IsConfig(d)
       BY <1>8, <1>9 DEF IsConfig
<1> QED BY <1>3, <1>4, <1>10 DEF d

LEMMA SetValueStored ==
    ASSUME NEW s \in Sections, NEW k \in Keys(s), NEW v \in Text, v \notin Bracketed
    PROVE  /\ SetValue(s, k, v) \in Text /\ SetValue(s, k, v) \notin Bracketed
           /\ SetValue(s, k, SetValue(s, k, v)) = SetValue(s, k, v)
<1>1. "0" \in Text /\ "0" # "" /\ "0" \notin Bracketed
      BY ConfigAssumption, Zenon
<1>2. CASE v # "" \/ s_daemonConfig[s][k].type = "string"
      BY <1>2, Zenon DEF SetValue
<1>3. CASE ~(v # "" \/ s_daemonConfig[s][k].type = "string")
  <2>1. SetValue(s, k, v) = "0" /\ SetValue(s, k, "0") = "0"
        BY <1>1, <1>3, Zenon DEF SetValue
  <2> QED BY <1>1, <2>1
<1> QED BY <1>2, <1>3

LEMMA DefaultsStored == Stored(Defaults)
<1>1. \A s \in Sections : \A k \in Keys(s) : Defaults[s][k] = s_daemonConfig[s][k].value
      BY DEF Defaults
<1>2. \A s \in Sections : \A k \in Keys(s) :
          s_daemonConfig[s][k].value # "" \/ s_daemonConfig[s][k].type = "string"
  <2>1. /\ s_daemonConfig["lobby"]["bindaddr"].type = "string"
        /\ s_daemonConfig["lobby"]["extaddr"].type = "string"
        /\ s_daemonConfig["lobby"]["port"].value = "14617"
        BY DEF s_daemonConfig, Def
  <2>2. /\ s_daemonConfig["gate"]["crypt_k"].type = "string"
        /\ s_daemonConfig["gate"]["crypt_n"].type = "string"
        /\ s_daemonConfig["gate"]["crypt_x"].type = "string"
        /\ s_daemonConfig["gate"]["authaddr"].type = "string"
        /\ s_daemonConfig["gate"]["crypt_g"].value = "4"
        BY DEF s_daemonConfig, Def
  <2> QED BY <2>1, <2>2, Table
<1>3. Defaults = [s \in Sections |-> [k \in Keys(s) |-> Defaults[s][k]]]
      BY <1>1 DEF Defaults
<1>4. \A s \in Sections : \A k \in Keys(s) :
          SetValue(s, k, s_daemonConfig[s][k].value) = s_daemonConfig[s][k].value
      BY <1>2, Zenon DEF SetValue
<1>5. \A s \in Sections : \A k \in Keys(s) : s_daemonConfig[s][k].value \in Text \ Bracketed
      BY ConfigAssumption
<1>6. \A s \in Sections : \A k \in Keys(s) : Defaults[s][k] \in Text /\ Defaults[s][k] \notin Bracketed
      BY <1>1, <1>5
<1>7. \A s \in Sections : \A k \in Keys(s) : SetValue(s, k, Defaults[s][k]) = Defaults[s][k]
      BY <1>1, <1>4, Zenon
<1>8. IsConfig(Defaults)
      BY <1>3, <1>6, Zenon DEF IsConfig
<1> QED BY <1>6, <1>7, <1>8, Zenon DEF Stored

\* The state of read() between two lines.
IsState(state) ==
    state = [section |-> state.section, values |-> state.values] /\ Stored(state.values)

LEMMA ReadLineStored ==
    ASSUME NEW state, IsState(state), NEW line \in Lines
    PROVE  IsState(ReadLine(state, line))
<1>1. line.name \in Text /\ line.value \in Text
      BY DEF Lines
<1>2. CASE ReadLine(state, line) \in {state, [state EXCEPT !.section = line.name],
                                      [state EXCEPT !.section = Inside[line.value]]}
      BY <1>2 DEF IsState
<1>3. CASE ReadLine(state, line) = [state EXCEPT !.values = SetLine(@, state.section, line)]
           /\ line.value \notin Bracketed
  <2> DEFINE s == state.section
             k == line.name
             c == state.values
  <2>1. ReadLine(state, line) = [section |-> s, values |-> SetLine(c, s, line)]
        BY <1>3 DEF IsState
  <2>2. Stored(SetLine(c, s, line))
    <3>1. CASE ~(s \in Sections /\ k \in Keys(s))
          BY <3>1 DEF SetLine, IsState
    <3>2. CASE s \in Sections /\ k \in Keys(s)
      <4> DEFINE v == SetValue(s, k, line.value)
                 d == [c EXCEPT ![s][k] = v]
      <4>1. v \in Text /\ v \notin Bracketed /\ SetValue(s, k, v) = v
            BY <1>1, <1>3, <3>2, SetValueStored
      <4>2. SetLine(c, s, line) = d
            BY <3>2 DEF SetLine
      <4>3. IsConfig(c) /\ \A r \in Sections : \A j \in Keys(r) :
                c[r][j] \notin Bracketed /\ SetValue(r, j, c[r][j]) = c[r][j]
            BY DEF IsState, Stored
      <4> HIDE DEF v, s, k, c
      <4>4. /\ IsConfig(d) /\ d[s][k] = v
            /\ \A r \in Sections : \A j \in Keys(r) : <<r, j>> # <<s, k>> => d[r][j] = c[r][j]
            BY <3>2, <4>1, <4>3, ChangedConfig
      <4> HIDE DEF d
      <4>5. \A r \in Sections : \A j \in Keys(r) :
                d[r][j] \notin Bracketed /\ SetValue(r, j, d[r][j]) = d[r][j]
        <5> TAKE r \in Sections
        <5> TAKE j \in Keys(r)
        <5>1. CASE r = s /\ j = k
              BY <4>1, <4>4, <5>1
        <5>2. CASE ~(r = s /\ j = k)
          <6>1. d[r][j] = c[r][j]
                BY <4>4, <5>2
          <6> QED BY <4>3, <6>1
        <5> QED BY <5>1, <5>2
      <4> QED BY <4>2, <4>4, <4>5 DEF Stored, s, k, c
    <3> QED BY <3>1, <3>2
  <2> QED BY <2>1, <2>2 DEF IsState
<1> QED BY <1>2, <1>3 DEF ReadLine

\* Whatever a file has in it, what is read can be stored.
LEMMA ReadStored ==
    ASSUME NEW file \in Seq(Lines)
    PROVE  IsState(ReadAll(Defaults, file))
<1>1. PICK g : Reading(Defaults, file, Len(file), g) /\ ReadAll(Defaults, file) = g[Len(file)]
  <2>1. Len(file) \in Nat
        OBVIOUS
  <2> QED BY <2>1, ReadAllReading
<1> DEFINE S == {i \in Nat : i <= Len(file) => IsState(g[i])}
<1>2. \A i \in 0..Len(file) : g[i] = IF i = 0 THEN [section |-> "", values |-> Defaults]
                                             ELSE ReadLine(g[i - 1], file[i])
      BY <1>1 DEF Reading
<1>3. 0 \in S
  <2>1. 0 \in 0..Len(file)
        OBVIOUS
  <2>2. g[0] = [section |-> "", values |-> Defaults]
        BY <1>2, <2>1, Zenon
  <2>3. IsState([section |-> "", values |-> Defaults])
        BY DefaultsStored DEF IsState
  <2> HIDE DEF IsState
  <2> QED BY <2>2, <2>3
<1>4. ASSUME NEW i \in Nat, i \in S PROVE i + 1 \in S
  <2> SUFFICES ASSUME i + 1 <= Len(file) PROVE IsState(g[i + 1])
      OBVIOUS
  <2>1. i + 1 \in 0..Len(file) /\ i + 1 # 0 /\ (i + 1) - 1 = i /\ file[i + 1] \in Lines /\ IsState(g[i])
        BY <1>4
  <2>2. g[i + 1] = ReadLine(g[i], file[i + 1])
        BY <1>2, <2>1
  <2> QED BY <2>1, <2>2, ReadLineStored
<1>5. Nat \subseteq S
  <2> HIDE DEF S
  <2> QED BY <1>3, <1>4, Upwards
<1>6. Len(file) \in S
      BY <1>5
<1> QED BY <1>1, <1>6

-----------------------------------------------------------------------------
(* Writing a configuration line by line *)

\* One of the first n places is the item's.
Tells(layout, n, s, k) == \E i \in 1..n : layout[i] = [section |-> s, key |-> k]

\* What the first n lines tell of c.
Told(layout, n, c) ==
    [s \in Sections |-> [k \in Keys(s) |-> IF Tells(layout, n, s, k) THEN c[s][k] ELSE Defaults[s][k]]]

\* The state in which read() has read them.
StateAfter(layout, n, c) ==
    [section |-> IF n = 0 THEN "" ELSE layout[n].section, values |-> Told(layout, n, c)]

\* A layout, place by place.
LEMMA LayoutShape ==
    ASSUME NEW layout \in Layouts
    PROVE  /\ Len(layout) \in Nat \ {0} /\ DOMAIN layout = 1..Len(layout)
           /\ \A i \in 1..Len(layout) :
                  /\ layout[i] = [section |-> layout[i].section, key |-> layout[i].key]
                  /\ layout[i].section \in Sections /\ layout[i].key \in Text
                  /\ layout[i].key # "" =>
                         /\ layout[i].key \in Keys(layout[i].section)
                         /\ i > 1 /\ layout[i - 1].section = layout[i].section
           /\ \A s \in Sections : \A k \in Keys(s) :
                  \E i \in 1..Len(layout) : layout[i] = [section |-> s, key |-> k]
<1> DEFINE n == Len(layout)
<1>1. /\ layout \in Seq(Places)
      /\ \A i \in DOMAIN layout : layout[i].key # "" =>
             /\ layout[i].key \in Keys(layout[i].section)
             /\ i > 1 /\ layout[i - 1].section = layout[i].section
      /\ \A s \in Sections : \A k \in Keys(s) :
             \E i \in DOMAIN layout : layout[i] = [section |-> s, key |-> k]
      BY LayoutsAssumption, Zenon
<1>2. n \in Nat /\ DOMAIN layout = 1..n /\ \A i \in 1..n : layout[i] \in Places
  <2>1. layout \in Seq(Places)
        BY <1>1
  <2> QED BY ONLY <2>1
<1>3. \E i \in DOMAIN layout : TRUE
  <2>1. "lobby" \in Sections /\ "port" \in Keys("lobby")
        BY Table
  <2> QED BY <1>1, <2>1
<1> HIDE DEF n
<1>4. n # 0
      BY <1>2, <1>3
<1>5. \A p \in Places : p = [section |-> p.section, key |-> p.key] /\ p.section \in Sections /\ p.key \in Text
      BY DEF Places
<1>6. \A i \in 1..n : layout[i] = [section |-> layout[i].section, key |-> layout[i].key]
                       /\ layout[i].section \in Sections /\ layout[i].key \in Text
      BY <1>2, <1>5
<1>7. n \in Nat \ {0}
      BY ONLY <1>2, <1>4
<1>8. /\ \A i \in 1..n : layout[i].key # "" =>
             /\ layout[i].key \in Keys(layout[i].section)
             /\ i > 1 /\ layout[i - 1].section = layout[i].section
      /\ \A s \in Sections : \A k \in Keys(s) :
             \E i \in 1..n : layout[i] = [section |-> s, key |-> k]
      BY ONLY <1>1, <1>2, Zenon
<1>9. \A i \in 1..n :
          /\ layout[i] = [section |-> layout[i].section, key |-> layout[i].key]
          /\ layout[i].section \in Sections /\ layout[i].key \in Text
          /\ layout[i].key # "" =>
                 /\ layout[i].key \in Keys(layout[i].section)
                 /\ i > 1 /\ layout[i - 1].section = layout[i].section
      BY ONLY <1>6, <1>8, Zenon
<1> QED BY ONLY <1>2, <1>7, <1>8, <1>9, Zenon DEF n

LEMMA StateValues ==
    ASSUME NEW layout, NEW n, NEW c
    PROVE  StateAfter(layout, n, c).values = Told(layout, n, c)
BY DEF StateAfter

LEMMA ToldValues ==
    ASSUME NEW layout, NEW n, NEW c, NEW s \in Sections, NEW k \in Keys(s)
    PROVE  /\ Tells(layout, n, s, k) => Told(layout, n, c)[s][k] = c[s][k]
           /\ ~Tells(layout, n, s, k) => Told(layout, n, c)[s][k] = Defaults[s][k]
BY DEF Told

\* A part of it can be stored as well.
LEMMA ToldStored ==
    ASSUME NEW layout, NEW n, NEW c, Stored(c)
    PROVE  Stored(Told(layout, n, c))
<1> DEFINE d == Told(layout, n, c)
<1>1. \A s \in Sections : \A k \in Keys(s) : d[s][k] = c[s][k] \/ d[s][k] = Defaults[s][k]
      BY ToldValues
<1>2. d = [s \in Sections |-> [k \in Keys(s) |-> d[s][k]]]
      BY DEF Told
<1> HIDE DEF d
<1>3. Stored(Defaults)
      BY DefaultsStored
<1>4. \A s \in Sections : \A k \in Keys(s) :
          d[s][k] \in Text /\ d[s][k] \notin Bracketed /\ SetValue(s, k, d[s][k]) = d[s][k]
      BY <1>1, <1>3 DEF Stored, IsConfig
<1> QED BY <1>2, <1>4 DEF Stored, IsConfig, d

\* Nothing is told by no line,
LEMMA ToldNothing ==
    ASSUME NEW layout, NEW c, Stored(c)
    PROVE  Told(layout, 0, c) = Defaults
<1> DEFINE d == Told(layout, 0, c)
<1>1. \A s \in Sections : \A k \in Keys(s) : d[s][k] = Defaults[s][k]
  <2>1. \A s, k : ~Tells(layout, 0, s, k)
        BY DEF Tells
  <2> QED BY <2>1, ToldValues
<1>2. IsConfig(d) /\ IsConfig(Defaults)
      BY ToldStored, DefaultsStored DEF Stored
<1> QED BY <1>1, <1>2, SameConfig

\* and everything by all of them.
LEMMA ToldAll ==
    ASSUME NEW layout \in Layouts, NEW c, Stored(c)
    PROVE  Told(layout, Len(layout), c) = c
<1> DEFINE d == Told(layout, Len(layout), c)
<1>1. \A s \in Sections : \A k \in Keys(s) : d[s][k] = c[s][k]
  <2>1. \A s \in Sections : \A k \in Keys(s) : Tells(layout, Len(layout), s, k)
        BY LayoutShape, Zenon DEF Tells
  <2> QED BY <2>1, ToldValues
<1>2. IsConfig(d) /\ IsConfig(c)
      BY ToldStored DEF Stored
<1> QED BY <1>1, <1>2, SameConfig

\* The lines of a file as it is written.
LEMMA WrittenLines ==
    ASSUME NEW layout \in Layouts, NEW c, Stored(c)
    PROVE  /\ Len(layout) \in Nat \ {0}
           /\ write(layout, c) \in Seq(Lines) /\ Len(write(layout, c)) = Len(layout)
           /\ \A i \in 1..Len(layout) :
                  /\ write(layout, c)[i] = Line(layout[i], c)
                  /\ Line(layout[i], c) \in Lines /\ Line(layout[i], c).kind \in {"section", "item"}
<1>1. Len(layout) \in Nat \ {0} /\ DOMAIN layout = 1..Len(layout)
      BY LayoutShape, Zenon
<1>3. ASSUME NEW i \in 1..Len(layout)
      PROVE  Line(layout[i], c) \in Lines /\ Line(layout[i], c).kind \in {"section", "item"}
  <2>1. layout[i].section \in Sections /\ layout[i].key \in Text
        BY LayoutShape, Zenon
  <2>2. CASE layout[i].key = ""
    <3>1. layout[i].section \in Text /\ "" \in Text
          BY <2>1, ConfigAssumption
    <3> QED BY <2>2, <3>1 DEF Line, Header, Lines
  <2>3. CASE layout[i].key # ""
    <3>1. layout[i].key \in Keys(layout[i].section)
          BY <2>3, LayoutShape, Zenon
    <3>2. c[layout[i].section][layout[i].key] \in Text
          BY <2>1, <3>1 DEF Stored, IsConfig
    <3> QED BY <2>1, <2>3, <3>2 DEF Line, Item, Lines
  <2> QED BY <2>2, <2>3
<1>4. write(layout, c) = [i \in 1..Len(layout) |-> Line(layout[i], c)]
      BY <1>1 DEF write, Written
<1> QED BY <1>1, <1>3, <1>4

\* A line more tells of one item more, or opens the section of those that follow.
LEMMA ToldOneMore ==
    ASSUME NEW layout \in Layouts, NEW n \in Nat, n < Len(layout), NEW c, Stored(c)
    PROVE  ReadLine(StateAfter(layout, n, c), Line(layout[n + 1], c)) = StateAfter(layout, n + 1, c)
<1> DEFINE place == layout[n + 1]
           sec == place.section
           key == place.key
           now == Told(layout, n, c)
           next == Told(layout, n + 1, c)
<1>1. n + 1 \in 1..Len(layout) /\ n + 1 # 0 /\ (n + 1) - 1 = n
  <2>1. Len(layout) \in Nat
        BY LayoutShape
  <2> QED BY <2>1
<1>2. place = [section |-> sec, key |-> key] /\ sec \in Sections
      BY <1>1, LayoutShape, Zenon
<1>3. Stored(now) /\ Stored(next)
      BY ToldStored
<1>4. \A s \in Sections : \A k \in Keys(s) :
          next[s][k] = IF place = [section |-> s, key |-> k] THEN c[s][k] ELSE now[s][k]
  <2> TAKE s \in Sections
  <2> TAKE k \in Keys(s)
  <2>1. Tells(layout, n + 1, s, k) <=> (place = [section |-> s, key |-> k] \/ Tells(layout, n, s, k))
    <3> DEFINE p == [section |-> s, key |-> k]
    <3> HIDE DEF p
    <3>1. \A i : i \in 1..(n + 1) <=> (i \in 1..n \/ i = n + 1)
          OBVIOUS
    <3>2. (\E i \in 1..(n + 1) : layout[i] = p) <=> (place = p \/ \E i \in 1..n : layout[i] = p)
          BY <3>1, Zenon
    <3> QED BY <3>2, Zenon DEF p, Tells
  <2>2. /\ Tells(layout, n + 1, s, k) => next[s][k] = c[s][k]
        /\ ~Tells(layout, n + 1, s, k) => next[s][k] = Defaults[s][k]
        /\ Tells(layout, n, s, k) => now[s][k] = c[s][k]
        /\ ~Tells(layout, n, s, k) => now[s][k] = Defaults[s][k]
        BY ToldValues
  <2> HIDE DEF place, now, next
  <2> QED BY <2>1, <2>2
<1>5. StateAfter(layout, n + 1, c) = [section |-> sec, values |-> next]
      BY <1>1, Zenon DEF StateAfter
<1>6. CASE key = ""
  <2>1. \A s \in Sections : \A k \in Keys(s) : k # ""
        BY Table
  <2>2. now = next
    <3>1. \A s \in Sections : \A k \in Keys(s) : now[s][k] = next[s][k]
      <4> TAKE s \in Sections
      <4> TAKE k \in Keys(s)
      <4>1. place # [section |-> s, key |-> k]
        <5>1. key # k
              BY <1>6, <2>1
        <5> HIDE DEF place
        <5> QED BY <1>2, <5>1
      <4> QED BY <1>4, <4>1, Zenon
    <3> QED BY <1>3, <3>1, SameConfig DEF Stored
  <2>3. Line(place, c) = [kind |-> "section", name |-> sec, value |-> ""]
        BY <1>6 DEF Line, Header
  <2> HIDE DEF sec, next, now
  <2>4. ReadLine(StateAfter(layout, n, c), Line(place, c)) = [StateAfter(layout, n, c) EXCEPT !.section = sec]
    <3>1. \A state : \A line : line = [kind |-> "section", name |-> sec, value |-> ""]
              => ReadLine(state, line) = [state EXCEPT !.section = sec]
      <4> TAKE state
      <4> TAKE line
      <4> HAVE line = [kind |-> "section", name |-> sec, value |-> ""]
      <4>1. line.kind = "section" /\ line.kind # "comment" /\ line.name = sec
            OBVIOUS
      <4> QED BY <4>1, Zenon DEF ReadLine
    <3> QED BY <2>3, <3>1, Zenon
  <2>5. StateAfter(layout, n, c).values = now
        BY DEF StateAfter, now
  <2> QED BY <1>5, <2>2, <2>4, <2>5 DEF StateAfter
<1>7. CASE key # ""
  <2> DEFINE v == c[sec][key]
             d == [now EXCEPT ![sec][key] = v]
  <2>1. key \in Keys(sec) /\ n + 1 > 1 /\ layout[n].section = sec
    <3>1. key # "" => key \in Keys(sec) /\ n + 1 > 1 /\ layout[(n + 1) - 1].section = sec
          BY <1>1, LayoutShape, Zenon
    <3> HIDE DEF key, sec
    <3> QED BY <1>1, <1>7, <3>1
  <2>2. v \in Text /\ v \notin Bracketed /\ SetValue(sec, key, v) = v
        BY <1>2, <2>1 DEF Stored, IsConfig
  <2>3. Line(place, c) = [kind |-> "item", name |-> key, value |-> v]
        BY <1>7 DEF Line, Item
  <2>4. StateAfter(layout, n, c) = [section |-> sec, values |-> now]
    <3>1. n # 0
          BY <2>1
    <3> QED BY <2>1, <3>1, Zenon DEF StateAfter
  <2>5. d = next
    <3> HIDE DEF now, next, sec, key, v
    <3>1. /\ IsConfig(d) /\ d[sec][key] = v
          /\ \A s \in Sections : \A k \in Keys(s) : <<s, k>> # <<sec, key>> => d[s][k] = now[s][k]
          BY <1>2, <1>3, <2>1, <2>2, ChangedConfig DEF Stored
    <3> HIDE DEF d
    <3>2. \A s \in Sections : \A k \in Keys(s) : d[s][k] = next[s][k]
      <4> TAKE s \in Sections
      <4> TAKE k \in Keys(s)
      <4>1. CASE s = sec /\ k = key
            BY <1>2, <1>4, <3>1, <4>1 DEF v
      <4>2. CASE ~(s = sec /\ k = key)
        <5>1. place # [section |-> s, key |-> k]
              BY <1>2, <4>2
        <5>2. d[s][k] = now[s][k]
              BY <3>1, <4>2
        <5> QED BY <1>4, <5>1, <5>2
      <4> QED BY <4>1, <4>2
    <3> QED BY <1>3, <3>1, <3>2, SameConfig DEF Stored
  <2> HIDE DEF v, now, next, sec, key
  <2>6. SetLine(now, sec, [kind |-> "item", name |-> key, value |-> v]) = d
        BY <1>2, <2>1, <2>2 DEF SetLine
  <2>7. ReadLine([section |-> sec, values |-> now], [kind |-> "item", name |-> key, value |-> v])
            = [section |-> sec, values |-> d]
    <3> HIDE DEF d
    <3> QED BY <2>2, <2>6 DEF ReadLine
  <2> QED BY <1>5, <2>3, <2>4, <2>5, <2>7
<1> QED BY <1>6, <1>7

-----------------------------------------------------------------------------
(* Configurations the daemon can have *)

Valid(c) == Stored(c) /\ Usable(c) /\ Paired(c)

LEMMA DefaultsValid ==
    /\ Valid(Defaults) /\ Defaults["gate"]["crypt_k"] = ""
    /\ Defaults["gate"]["crypt_n"] = "" /\ Defaults["gate"]["crypt_x"] = ""
<1>1. /\ Defaults["gate"]["crypt_k"] = "" /\ Defaults["gate"]["crypt_n"] = ""
      /\ Defaults["gate"]["crypt_x"] = ""
  <2>1. /\ s_daemonConfig["gate"]["crypt_k"].value = "" /\ s_daemonConfig["gate"]["crypt_n"].value = ""
        /\ s_daemonConfig["gate"]["crypt_x"].value = ""
        BY DEF s_daemonConfig, Def
  <2> QED BY <2>1, Table DEF Defaults
<1>2. Paired(Defaults)
      BY <1>1 DEF Paired
<1> QED BY <1>1, <1>2, DefaultsStored, FilesAssumption DEF Valid

\* The first lines of a file tell of no half of another pair.
LEMMA ToldValid ==
    ASSUME NEW layout, NEW n, NEW c, Valid(c)
    PROVE  /\ Valid(Told(layout, n, c))
           /\ Told(layout, n, c)["gate"]["crypt_k"] \in {"", c["gate"]["crypt_k"]}
           /\ Told(layout, n, c)["gate"]["crypt_n"] \in {"", c["gate"]["crypt_n"]}
<1> DEFINE d == Told(layout, n, c)
<1>1. Stored(d)
      BY ToldStored DEF Valid
<1>2. \A s \in Sections : \A k \in Keys(s) : d[s][k] \in {c[s][k], Defaults[s][k]}
      BY ToldValues
<1>3. /\ d["lobby"]["port"] \in {c["lobby"]["port"], Defaults["lobby"]["port"]}
      /\ d["lobby"]["bindaddr"] \in {c["lobby"]["bindaddr"], Defaults["lobby"]["bindaddr"]}
      /\ d["gate"]["crypt_g"] \in {c["gate"]["crypt_g"], Defaults["gate"]["crypt_g"]}
      /\ d["gate"]["crypt_k"] \in {c["gate"]["crypt_k"], Defaults["gate"]["crypt_k"]}
      /\ d["gate"]["crypt_n"] \in {c["gate"]["crypt_n"], Defaults["gate"]["crypt_n"]}
      /\ d["gate"]["crypt_x"] \in {c["gate"]["crypt_x"], Defaults["gate"]["crypt_x"]}
      BY <1>2, Table
<1> HIDE DEF d
<1>4. Usable(d)
      BY <1>3, DefaultsValid DEF Valid, Usable
<1>5. Paired(d)
      BY <1>3, DefaultsValid DEF Valid, Paired
<1>6. d["gate"]["crypt_k"] \in {"", c["gate"]["crypt_k"]} /\ d["gate"]["crypt_n"] \in {"", c["gate"]["crypt_n"]}
      BY <1>3, DefaultsValid
<1> QED BY <1>1, <1>4, <1>5, <1>6 DEF Valid, d

\* generate_daemon_keys keeps a configuration valid, and sets X for its base.
LEMMA KeysSet ==
    ASSUME NEW c, Valid(c), NEW i \in DOMAIN Pairs
    PROVE  /\ Valid(SetKeys(c, Pairs[i])) /\ Based(SetKeys(c, Pairs[i]))
           /\ SetKeys(c, Pairs[i])["gate"]["crypt_n"] = Pairs[i]
<1> DEFINE p == Pairs[i]
           x == Shared(p, Number[c["gate"]["crypt_g"]])
           c1 == [c EXCEPT !["gate"]["crypt_k"] = p]
           c2 == [c1 EXCEPT !["gate"]["crypt_n"] = p]
           c3 == [c2 EXCEPT !["gate"]["crypt_x"] = x]
<1>1. SetKeys(c, p) = c3
      BY DEF SetKeys, set_string, get_uint
<1>2. p \in Text /\ p \notin Bracketed /\ x \in Text /\ x \notin Bracketed
  <2>1. c["gate"]["crypt_g"] \in DOMAIN Number
        BY DEF Valid, Usable
  <2>2. p \in Text
    <3>1. Pairs \in Seq(Text)
          BY PairsAssumption
    <3> QED BY ONLY <3>1, i \in DOMAIN Pairs
  <2>3. p \notin Bracketed
        BY PairsAssumption, Zenon
  <2>4. x \in Text \ Bracketed
        BY <2>1, PairsAssumption, Zenon
  <2> QED BY <2>2, <2>3, <2>4
<1>3. \A k \in {"crypt_k", "crypt_n", "crypt_x"} : \A v : SetValue("gate", k, v) = v
  <2>1. /\ s_daemonConfig["gate"]["crypt_k"].type = "string"
        /\ s_daemonConfig["gate"]["crypt_n"].type = "string"
        /\ s_daemonConfig["gate"]["crypt_x"].type = "string"
        BY DEF s_daemonConfig, Def
  <2> QED BY <2>1 DEF SetValue
<1>4. IsConfig(c)
      BY DEF Valid, Stored
<1>5. "gate" \in Sections /\ {"crypt_k", "crypt_n", "crypt_x", "crypt_g"} \subseteq Keys("gate")
      BY Table
<1> HIDE DEF p, x
<1>6. /\ IsConfig(c1) /\ c1["gate"]["crypt_k"] = p
      /\ \A s \in Sections : \A k \in Keys(s) : <<s, k>> # <<"gate", "crypt_k">> => c1[s][k] = c[s][k]
      BY <1>2, <1>4, <1>5, ChangedConfig
<1> HIDE DEF c1
<1>7. /\ IsConfig(c2) /\ c2["gate"]["crypt_n"] = p
      /\ \A s \in Sections : \A k \in Keys(s) : <<s, k>> # <<"gate", "crypt_n">> => c2[s][k] = c1[s][k]
      BY <1>2, <1>5, <1>6, ChangedConfig
<1> HIDE DEF c2
<1>8. /\ IsConfig(c3) /\ c3["gate"]["crypt_x"] = x
      /\ \A s \in Sections : \A k \in Keys(s) : <<s, k>> # <<"gate", "crypt_x">> => c3[s][k] = c2[s][k]
      BY <1>2, <1>5, <1>7, ChangedConfig
<1> HIDE DEF c3
<1>9. /\ c3["gate"]["crypt_k"] = p /\ c3["gate"]["crypt_n"] = p /\ c3["gate"]["crypt_x"] = x
      /\ \A s \in Sections : \A k \in Keys(s) :
             ~(s = "gate" /\ k \in {"crypt_k", "crypt_n", "crypt_x"}) => c3[s][k] = c[s][k]
      BY <1>5, <1>6, <1>7, <1>8
<1>10. Stored(c3)
  <2>1. \A s \in Sections : \A k \in Keys(s) :
            c3[s][k] \notin Bracketed /\ SetValue(s, k, c3[s][k]) = c3[s][k]
    <3> TAKE s \in Sections
    <3> TAKE k \in Keys(s)
    <3>1. CASE s = "gate" /\ k \in {"crypt_k", "crypt_n", "crypt_x"}
          BY <1>2, <1>3, <1>9, <3>1
    <3>2. CASE ~(s = "gate" /\ k \in {"crypt_k", "crypt_n", "crypt_x"})
          BY <1>9, <3>2 DEF Valid, Stored
    <3> QED BY <3>1, <3>2
  <2> QED BY <1>8, <2>1 DEF Stored
<1>11. /\ c3["lobby"]["port"] = c["lobby"]["port"] /\ c3["lobby"]["bindaddr"] = c["lobby"]["bindaddr"]
       /\ c3["gate"]["crypt_g"] = c["gate"]["crypt_g"]
       BY <1>9, Table
<1>12. Usable(c3)
       BY <1>11 DEF Valid, Usable
<1>13. Based(c3)
       BY <1>9, <1>11 DEF Based, get_uint, x
<1>14. Paired(c3)
  <2>1. c["gate"]["crypt_g"] \in DOMAIN Number
        BY DEF Valid, Usable
  <2> QED BY <1>9, <2>1 DEF Paired, x
<1> QED BY <1>1, <1>9, <1>10, <1>12, <1>13, <1>14 DEF Valid, p

-----------------------------------------------------------------------------
(* The inductive invariant *)

\* What moving the first line of rest to the end of done comes to.
Moved(T, done, rest) ==
    /\ Head(rest) \in T /\ Head(rest) = (done \o rest)[Len(done) + 1]
    /\ Append(done, Head(rest)) \in Seq(T) /\ Tail(rest) \in Seq(T)
    /\ Append(done, Head(rest)) \o Tail(rest) = done \o rest
    /\ Len(Append(done, Head(rest))) = Len(done) + 1 /\ Len(done) < Len(done \o rest)
    /\ Tail(rest) = <<>> => Append(done, Head(rest)) = done \o rest
    /\ \A i \in DOMAIN rest : rest[i] = (done \o rest)[Len(done) + i]

\* A line moves from what is to be written to what is.
LEMMA LineMoves ==
    ASSUME NEW T, NEW done \in Seq(T), NEW rest \in Seq(T), rest # <<>>
    PROVE  Moved(T, done, rest)
<1> DEFINE e == Head(rest)
           more == Append(done, e)
           left == Tail(rest)
<1>1. /\ Len(done) \in Nat /\ Len(rest) \in Nat \ {0} /\ DOMAIN rest = 1..Len(rest)
      /\ e \in T /\ e = rest[1]
  <2>1. e \in T
        BY HeadTailProperties
  <2>2. Len(done) \in Nat /\ Len(rest) \in Nat /\ DOMAIN rest = 1..Len(rest)
        BY LenProperties
  <2>3. Len(rest) # 0 /\ e = rest[1]
        OBVIOUS
  <2> QED BY <2>1, <2>2, <2>3
<1>2. left \in Seq(T) /\ Len(left) = Len(rest) - 1 /\ \A i \in 1..Len(left) : left[i] = rest[i + 1]
      BY HeadTailProperties
<1> HIDE DEF e
<1>3. /\ more \in Seq(T) /\ Len(more) = Len(done) + 1
      /\ \A i \in 1..Len(done) : more[i] = done[i]
      /\ more[Len(done) + 1] = e
      BY <1>1, AppendProperties
<1> HIDE DEF more, left
<1>4. /\ done \o rest \in Seq(T) /\ Len(done \o rest) = Len(done) + Len(rest)
      /\ \A i \in 1..(Len(done) + Len(rest)) :
             (done \o rest)[i] = IF i <= Len(done) THEN done[i] ELSE rest[i - Len(done)]
      BY ConcatProperties, Zenon
<1>5. /\ more \o left \in Seq(T) /\ Len(more \o left) = Len(more) + Len(left)
      /\ \A i \in 1..(Len(more) + Len(left)) :
             (more \o left)[i] = IF i <= Len(more) THEN more[i] ELSE left[i - Len(more)]
      BY <1>2, <1>3, ConcatProperties, Zenon
<1>6. Len(more \o left) = Len(done \o rest)
  <2>1. Len(more) + Len(left) = Len(done) + Len(rest)
        BY ONLY <1>1, <1>2, <1>3
  <2> QED BY ONLY <1>4, <1>5, <2>1
<1>7. ASSUME NEW i \in 1..(Len(done) + Len(rest)) PROVE (more \o left)[i] = (done \o rest)[i]
  <2>0. i \in 1..(Len(more) + Len(left))
        BY ONLY <1>1, <1>2, <1>3, <1>7
  <2>1. CASE i <= Len(done)
    <3>1. i \in 1..Len(done) /\ i <= Len(more)
          BY ONLY <1>1, <1>3, <1>7, <2>1
    <3>2. (more \o left)[i] = more[i] /\ (done \o rest)[i] = done[i]
          BY ONLY <1>4, <1>5, <1>7, <2>0, <2>1, <3>1, Zenon
    <3> QED BY ONLY <1>3, <3>1, <3>2, Zenon
  <2>2. CASE i = Len(done) + 1
    <3>1. i <= Len(more) /\ ~(i <= Len(done)) /\ i - Len(done) = 1
          BY ONLY <1>1, <1>3, <2>2
    <3>2. (more \o left)[i] = more[i] /\ (done \o rest)[i] = rest[i - Len(done)]
          BY ONLY <1>4, <1>5, <1>7, <2>0, <3>1, Zenon
    <3>3. rest[i - Len(done)] = rest[1] /\ more[i] = more[Len(done) + 1]
          BY ONLY <2>2, <3>1, Zenon
    <3> QED BY ONLY <1>1, <1>3, <3>2, <3>3, Zenon
  <2>3. CASE i > Len(done) + 1
    <3>1. /\ ~(i <= Len(more)) /\ ~(i <= Len(done))
          /\ i - Len(more) \in 1..Len(left) /\ (i - Len(more)) + 1 = i - Len(done)
          BY ONLY <1>1, <1>2, <1>3, <1>7, <2>3
    <3>2. (more \o left)[i] = left[i - Len(more)] /\ (done \o rest)[i] = rest[i - Len(done)]
          BY ONLY <1>4, <1>5, <1>7, <2>0, <3>1, Zenon
    <3>3. left[i - Len(more)] = rest[(i - Len(more)) + 1]
          BY ONLY <1>2, <3>1, Zenon
    <3> QED BY ONLY <3>1, <3>2, <3>3, Zenon
  <2>4. i <= Len(done) \/ i = Len(done) + 1 \/ i > Len(done) + 1
        BY ONLY <1>1, <1>7
  <2> QED BY <2>1, <2>2, <2>3, <2>4, Zenon
<1>8. more \o left = done \o rest
      BY <1>4, <1>5, <1>6, <1>7, SeqEqual
<1>9. left = <<>> => more \o left = more
      BY <1>3, ConcatEmptySeq, Zenon
<1>10. ASSUME NEW i \in 1..Len(rest) PROVE rest[i] = (done \o rest)[Len(done) + i]
  <2>1. /\ Len(done) + i \in 1..(Len(done) + Len(rest)) /\ ~(Len(done) + i <= Len(done))
        /\ (Len(done) + i) - Len(done) = i
        BY ONLY <1>1, <1>10
  <2> QED BY ONLY <1>4, <2>1, Zenon
<1>11. e = (done \o rest)[Len(done) + 1]
  <2>1. 1 \in 1..Len(rest)
        BY ONLY <1>1
  <2> QED BY <1>1, <1>10, <2>1, Zenon
<1>12. Len(done) < Len(done \o rest)
       BY ONLY <1>1, <1>4
<1>13. /\ e \in T /\ e = (done \o rest)[Len(done) + 1] /\ more \in Seq(T) /\ left \in Seq(T)
       /\ more \o left = done \o rest /\ Len(more) = Len(done) + 1 /\ Len(done) < Len(done \o rest)
       /\ (left = <<>> => more = done \o rest)
       /\ \A i \in DOMAIN rest : rest[i] = (done \o rest)[Len(done) + i]
       BY <1>1, <1>2, <1>3, <1>8, <1>9, <1>10, <1>11, <1>12, Zenon
<1> QED BY <1>13, Zenon DEF e, more, left, Moved

Stages == {"down", "keys", "ini", "inilines", "save", "savelines", "fds", "bind", "listen",
           "servers", "running"}

Written_ini == [kind : {"item"}, name : {"G", "N", "X", "Host", "Port"}, value : Text \cup Nat]

\* The variables that are no file and no configuration.
Basic ==
    /\ at \in Stages
    /\ flags \in [generate : BOOLEAN, ini : BOOLEAN, save : BOOLEAN]
    /\ gate \in [k : Text, n : Text, result : BOOLEAN]
    /\ made \in 0..Len(Pairs) /\ failed \in BOOLEAN /\ published \in BOOLEAN
    /\ whole \in [disk : BOOLEAN, config : BOOLEAN]

\* m_config, and what a start would read now.
Configs == Valid(config) /\ Valid(read(Defaults, disk))

\* What the lines still to be written make of the files.
Saving == \E layout \in Layouts :
    /\ todo \in Seq(Lines) /\ todo # <<>>
    /\ disk \o todo = write(layout, config)
    /\ ReadAll(Defaults, disk) = StateAfter(layout, Len(disk), config)
Telling == todo \in Seq(Written_ini) /\ todo # <<>> /\ ini \o todo = IniLines
TheFiles ==
    /\ disk \in Seq(Lines) /\ ini \in Seq(Written_ini)
    /\ at \notin {"inilines", "savelines"} => todo = <<>>
    /\ at = "inilines" => Telling
    /\ at = "savelines" => Saving

\* What the last complete save wrote is what a start reads, and what this start has, but
\* for new keys and what it could not read or save.
Kept ==
    /\ kept # <<>> => read(Defaults, disk) = kept /\ at # "savelines"
    /\ kept # <<>> /\ at # "down" /\ ~flags.generate => config = kept \/ failed

\* Of the keys that the last save set out to write, the disk has no other, nor has m_config
\* without new ones.
Half(values) ==
    /\ values.gate.crypt_k \in {"", meant.gate.crypt_k}
    /\ values.gate.crypt_n \in {"", meant.gate.crypt_n}
Halves ==
    /\ Half(read(Defaults, disk))
    /\ at # "down" /\ ~flags.generate => Half(config)
    /\ at = "savelines" => meant = config

\* What a start would read is m_config, before new keys are set and after they are saved.
Saved == flags.generate => flags.save /\ at \in {"fds", "bind", "listen", "servers", "running"}
Found == at \notin {"down", "savelines"} /\ ~failed /\ Saved => read(Defaults, disk) = config

\* A pair that is yet to be generated is in no configuration.
Later == {Pairs[i] : i \in (made + 1)..Len(Pairs)}
Fresh == config.gate.crypt_n \notin Later /\ read(Defaults, disk).gate.crypt_n \notin Later

Bases ==
    /\ whole.disk => Based(read(Defaults, disk)) /\ at # "savelines"
    /\ whole.config => Based(config) /\ at # "down"
Told_ini == published => ini = IniLines /\ at \notin {"down", "keys", "ini", "inilines"}

\* The address is one of the host's, the port the configured one.
Bound == listenSock.addr \in {Resolves[host][i] : i \in DOMAIN Resolves[host]}
         /\ listenSock.port = uint16(get_uint(config, "lobby", "port"))
Listening ==
    /\ DOMAIN listenSock = {"addr", "port", "listening"}
    /\ listenSock.port \in Ports /\ it \in {0, 1, 2}
    /\ at = "bind" /\ it # 0 => it \in DOMAIN Resolves[host]
    /\ at \in {"listen", "servers", "running"} => Bound
    /\ listenSock.listening => listenSock.addr # ""
    /\ at \in {"servers", "running"} => listenSock.listening

\* The gatekeeper has the configured pair, or one of its own if one half lacks.
Gate ==
    /\ gate.result => at = "running" /\ gate.k = config.gate.crypt_k /\ gate.n = config.gate.crypt_n
    /\ at = "running" => gate.k # "" /\ gate.k = gate.n
    /\ at = "running" /\ ~gate.result => Lacking(config) /\ gate.n # config.gate.crypt_n

Inv == Basic /\ Configs /\ TheFiles /\ Kept /\ Halves /\ Found /\ Fresh /\ Bases /\ Told_ini
       /\ Listening /\ Gate

LEMMA AfterSteps ==
    After("read") = "keys" /\ After("keys") = "ini" /\ After("ini") = "save" /\ After("save") = "fds"
BY DEF After

\* A completed read is of a configuration that can be stored.
LEMMA ReadValues ==
    ASSUME NEW file \in Seq(Lines)
    PROVE  Stored(read(Defaults, file))
BY ReadStored DEF read, IsState

LEMMA PairsShape == Len(Pairs) \in Nat /\ DOMAIN Pairs = 1..Len(Pairs)
<1>1. Pairs \in Seq(Text)
      BY PairsAssumption
<1> QED BY ONLY <1>1

LEMMA PortNumbers ==
    /\ \A n : n = 0 => n \in Ports
    /\ \A n \in Nat : uint16(n) \in Ports /\ (n \in Ports => uint16(n) = n)
    /\ \A n : n \in {0, 1, 2} => n \in 0..2
<1>1. ASSUME NEW n, n = 0 PROVE n \in Ports
  <2>1. PICK m \in Nat : m = 65536 /\ m > 0
        OBVIOUS
  <2>2. Ports = 0..(m - 1)
        BY <2>1 DEF Ports
  <2>3. 0 \in 0..(m - 1)
        BY <2>1
  <2> QED BY ONLY <1>1, <2>2, <2>3, Zenon
<1>2. ASSUME NEW n \in Nat PROVE uint16(n) \in Ports /\ (n \in Ports => uint16(n) = n)
  <2>1. PICK m \in Nat : m = 65536
        OBVIOUS
  <2>2. m > 0 /\ n \in Int /\ Ports = 0..(m - 1) /\ uint16(n) = n % m
        BY <2>1 DEF Ports, uint16
  <2>3. n % m \in 0..(m - 1)
        BY <2>2, DivMod
  <2>4. n \in 0..(m - 1) => n % m = n
    <3>1. n = m * 0 + n
          OBVIOUS
    <3> QED BY <2>2, <3>1, DivIs
  <2> QED BY ONLY <2>2, <2>3, <2>4
<1>3. ASSUME NEW n, n \in {0, 1, 2} PROVE n \in 0..2
      BY <1>3
<1> QED BY <1>1, <1>2, <1>3

\* The pairs that are yet to be generated.
LEMMA NoLaterEmpty == made \in 0..Len(Pairs) => "" \notin Later
<1> SUFFICES ASSUME made \in 0..Len(Pairs), NEW i \in (made + 1)..Len(Pairs) PROVE Pairs[i] # ""
    BY DEF Later
<1>1. i \in DOMAIN Pairs
      BY PairsShape
<1> QED BY <1>1, PairsAssumption

LEMMA LaterShrinks ==
    ASSUME made \in 0..Len(Pairs), made + 1 \in DOMAIN Pairs, made' = made + 1
    PROVE  Pairs[made + 1] \in Later /\ Pairs[made + 1] \notin Later' /\ Later' \subseteq Later
<1>1. Len(Pairs) \in Nat /\ DOMAIN Pairs = 1..Len(Pairs)
      BY PairsShape
<1>2. Later' = {Pairs[i] : i \in (made + 2)..Len(Pairs)}
  <2>1. (made + 1) + 1 = made + 2
        BY <1>1
  <2> QED BY <2>1 DEF Later
<1>3. /\ made + 1 \in (made + 1)..Len(Pairs)
      /\ \A i \in (made + 2)..Len(Pairs) :
             i \in (made + 1)..Len(Pairs) /\ i \in DOMAIN Pairs /\ i # made + 1
      BY <1>1
<1>4. \A i \in (made + 2)..Len(Pairs) : Pairs[i] # Pairs[made + 1]
      BY <1>3, PairsAssumption, Zenon
<1> QED BY <1>2, <1>3, <1>4 DEF Later

LEMMA InvInit == Init => Inv
<1> SUFFICES ASSUME Init PROVE Inv
    OBVIOUS
<1>1. disk \in Seq(Lines) /\ Usable(read(Defaults, disk)) /\ Paired(read(Defaults, disk))
      BY FilesAssumption DEF Init
<1>2. Configs
      BY <1>1, ReadValues, DefaultsValid DEF Init, Configs, Valid
<1>3. Basic
  <2>1. Len(Pairs) \in Nat /\ 0 \in 0..Len(Pairs)
        BY PairsShape
  <2>2. "" \in Text
        BY ConfigAssumption
  <2> QED BY <2>1, <2>2 DEF Init, Basic, Stages, NoFlags, Down, Based
<1>4. TheFiles
      BY <1>1 DEF Init, TheFiles
<1>5. Kept /\ Bases /\ Told_ini
      BY DEF Init, Kept, Bases, Told_ini
<1>6. Listening
  <2>1. listenSock = [addr |-> "", port |-> 0, listening |-> FALSE] /\ it = 0 /\ at = "down"
        BY DEF Init, ListenerInit, Unbound
  <2>2. DOMAIN listenSock = {"addr", "port", "listening"} /\ listenSock.port = 0 /\ listenSock.listening = FALSE
        BY <2>1
  <2>3. listenSock.port \in Ports
        BY <2>2, PortNumbers
  <2> QED BY <2>1, <2>2, <2>3 DEF Listening
<1>7. Gate
      BY DEF Init, Gate, Down
<1>8. Halves /\ Found /\ Fresh
  <2>1. \A i \in DOMAIN Pairs : Pairs[i] # "" /\ Pairs[i] # read(Defaults, disk).gate.crypt_n
        BY PairsAssumption, FilesAssumption DEF Init
  <2>2. Later \subseteq {Pairs[i] : i \in DOMAIN Pairs}
        BY PairsShape DEF Later, Init
  <2>3. Fresh
        BY <2>1, <2>2, DefaultsValid DEF Init, Fresh
  <2> QED BY <2>3 DEF Init, Halves, Half, Found
<1> QED BY <1>2, <1>3, <1>4, <1>5, <1>6, <1>7, <1>8 DEF Inv

\* The end of the process in any stage.
LEMMA InvEnds == Inv /\ Ends => Inv'
<1> SUFFICES ASSUME Inv, Ends PROVE Inv'
    OBVIOUS
<1>1. Basic'
      BY ConfigAssumption DEF Inv, Ends, Basic, Stages, NoFlags, Down
<1>2. Configs'
      BY DefaultsValid DEF Inv, Ends, Configs
<1>3. TheFiles'
      BY DEF Inv, Ends, TheFiles
<1>4. Kept' /\ Bases' /\ Told_ini'
      BY DEF Inv, Ends, Basic, Kept, Bases, Told_ini
<1>5. Listening'
  <2>1. listenSock' = [addr |-> "", port |-> 0, listening |-> FALSE] /\ it' = 0 /\ at' = "down"
        BY DEF Ends, Closed, Unbound
  <2>2. DOMAIN listenSock' = {"addr", "port", "listening"} /\ listenSock'.port = 0 /\ listenSock'.listening = FALSE
        BY <2>1
  <2>3. listenSock'.port \in Ports'
        BY <2>2, PortNumbers
  <2> QED BY <2>1, <2>2, <2>3 DEF Listening
<1>6. Gate'
      BY DEF Ends, Gate, Down
<1>7. Halves' /\ Found' /\ Fresh'
  <2>1. Later' = Later /\ "" \notin Later
        BY NoLaterEmpty DEF Inv, Basic, Ends, Later
  <2> QED BY <2>1, DefaultsValid DEF Inv, Ends, Halves, Half, Found, Fresh
<1> QED BY <1>1, <1>2, <1>3, <1>4, <1>5, <1>6, <1>7 DEF Inv

LEMMA InvStart == Inv /\ Start => Inv'
<1> SUFFICES ASSUME Inv, Start PROVE Inv'
    OBVIOUS
<1>1. Basic'
      BY AfterSteps, ConfigAssumption DEF Inv, Start, Basic, Stages, Down, fileVars
<1>2. Configs'
      BY DefaultsValid DEF Inv, Start, fileVars, Configs
<1>3. TheFiles'
      BY AfterSteps DEF Inv, Start, fileVars, TheFiles
<1>4. Kept' /\ Bases' /\ Told_ini'
      BY AfterSteps DEF Inv, Start, fileVars, Basic, Kept, Bases, Told_ini
<1>5. Listening'
      BY AfterSteps DEF Inv, Start, listenVars, Listening
<1>6. Gate'
      BY AfterSteps DEF Start, Gate, Down
<1>7. Halves' /\ Found' /\ Fresh'
  <2>1. Later' = Later /\ "" \notin Later
        BY NoLaterEmpty DEF Inv, Basic, Start, Later
  <2> QED BY <2>1, AfterSteps, DefaultsValid DEF Inv, Start, fileVars, Halves, Half, Found, Saved, Fresh
<1> QED BY <1>1, <1>2, <1>3, <1>4, <1>5, <1>6, <1>7 DEF Inv

LEMMA InvSkip == Inv /\ Skip => Inv'
<1> SUFFICES ASSUME Inv, Skip PROVE Inv'
    OBVIOUS
<1>0. at \in {"keys", "ini", "save"} /\ at' \in {"ini", "save", "fds"} /\ (at' = "ini" => at = "keys")
      /\ (at' = "fds" => ~flags.save)
      /\ UNCHANGED <<flags, config, fileVars, gate, historyVars, listenVars>>
      BY AfterSteps DEF Skip
<1>1. Basic'
      BY <1>0 DEF Inv, Basic, Stages, historyVars
<1>2. Configs'
      BY <1>0 DEF Inv, fileVars, Configs
<1>3. TheFiles'
      BY <1>0 DEF Inv, fileVars, TheFiles
<1>4. Kept' /\ Bases' /\ Told_ini'
      BY <1>0 DEF Inv, fileVars, historyVars, Kept, Bases, Told_ini, IniLines, Published
<1>5. Listening'
      BY <1>0 DEF Inv, listenVars, Listening
<1>6. Gate'
      BY <1>0 DEF Inv, Gate
<1>7. Halves' /\ Found' /\ Fresh'
      BY <1>0 DEF Inv, fileVars, historyVars, Halves, Half, Found, Saved, Fresh, Later
<1> QED BY <1>1, <1>2, <1>3, <1>4, <1>5, <1>6, <1>7 DEF Inv

LEMMA InvGenerate == Inv /\ generate_daemon_keys => Inv'
<1> SUFFICES ASSUME Inv, generate_daemon_keys PROVE Inv'
    OBVIOUS
<1>0. at = "keys" /\ at' = "ini" /\ flags.generate
      BY AfterSteps DEF generate_daemon_keys, Generates
<1>1. Len(Pairs) \in Nat /\ made + 1 \in DOMAIN Pairs /\ made + 1 \in 0..Len(Pairs)
  <2> QED BY PairsShape DEF generate_daemon_keys, Inv, Basic
<1>2. Valid(config') /\ Based(config')
  <2>1. config' = SetKeys(config, Pairs[made + 1])
        BY DEF generate_daemon_keys
  <2> QED BY <1>1, <2>1, KeysSet DEF Inv, Configs
<1>3. Basic'
      BY <1>0, <1>1 DEF Inv, generate_daemon_keys, Basic, Stages
<1>4. Configs'
      BY <1>2 DEF Inv, generate_daemon_keys, fileVars, Configs
<1>5. TheFiles'
      BY <1>0 DEF Inv, generate_daemon_keys, fileVars, TheFiles
<1>6. Kept' /\ Bases' /\ Told_ini'
      BY <1>0, <1>2 DEF Inv, generate_daemon_keys, fileVars, Basic, Kept, Bases, Told_ini
<1>7. Listening'
      BY <1>0 DEF Inv, generate_daemon_keys, listenVars, Listening
<1>8. Gate'
      BY <1>0 DEF Inv, generate_daemon_keys, Gate
<1>9. Halves' /\ Found'
      BY <1>0 DEF Inv, generate_daemon_keys, fileVars, Halves, Half, Found, Saved
<1>10. Fresh'
  <2>1. config'.gate.crypt_n = Pairs[made + 1] /\ made' = made + 1 /\ disk' = disk
        BY <1>1, KeysSet DEF Inv, Configs, generate_daemon_keys, fileVars
  <2>2. Later' \subseteq Later /\ Pairs[made + 1] \notin Later'
        BY <1>1, <2>1, LaterShrinks DEF Inv, Basic
  <2> QED BY <2>1, <2>2 DEF Inv, Fresh
<1> QED BY <1>3, <1>4, <1>5, <1>6, <1>7, <1>8, <1>9, <1>10 DEF Inv

-----------------------------------------------------------------------------
(* The client's server.ini *)

LEMMA IniLinesShape ==
    Valid(config) => /\ IniLines \in Seq(Written_ini) /\ IniLines # <<>> /\ Len(IniLines) = 5
                     /\ IniLines[1].value = get_uint(config, "gate", "crypt_g")
                     /\ IniLines[2].value = config.gate.crypt_n
                     /\ IniLines[3].value = config.gate.crypt_x
                     /\ IniLines[4].value = IF config.lobby.extaddr = "" THEN host ELSE config.lobby.extaddr
                     /\ IniLines[5].value = get_uint(config, "lobby", "port")
<1> SUFFICES ASSUME Valid(config)
             PROVE  /\ IniLines \in Seq(Written_ini) /\ IniLines # <<>> /\ Len(IniLines) = 5
                    /\ IniLines[1].value = get_uint(config, "gate", "crypt_g")
                    /\ IniLines[2].value = config.gate.crypt_n
                    /\ IniLines[3].value = config.gate.crypt_x
                    /\ IniLines[4].value = IF config.lobby.extaddr = "" THEN host ELSE config.lobby.extaddr
                    /\ IniLines[5].value = get_uint(config, "lobby", "port")
    OBVIOUS
<1> DEFINE g == Number[config["gate"]["crypt_g"]]
           n == config["gate"]["crypt_n"]
           x == config["gate"]["crypt_x"]
           h == IF config["lobby"]["extaddr"] = "" THEN config["lobby"]["bindaddr"] ELSE config["lobby"]["extaddr"]
           p == Number[config["lobby"]["port"]]
           lines == <<[kind |-> "item", name |-> "G", value |-> g], [kind |-> "item", name |-> "N", value |-> n],
                      [kind |-> "item", name |-> "X", value |-> x], [kind |-> "item", name |-> "Host", value |-> h],
                      [kind |-> "item", name |-> "Port", value |-> p]>>
<1>1. \A s \in Sections : \A k \in Keys(s) : config[s][k] \in Text
      BY DEF Valid, Stored, IsConfig
<1>2. n \in Text /\ x \in Text /\ h \in Text
      BY <1>1, Table
<1>3. g \in Nat /\ p \in Nat
      BY ConfigAssumption DEF Valid, Usable
<1>4. IniLines = lines
      BY DEF IniLines, Item, Published, get_string, get_uint
<1>5. /\ g = get_uint(config, "gate", "crypt_g") /\ p = get_uint(config, "lobby", "port")
      /\ h = IF config.lobby.extaddr = "" THEN host ELSE config.lobby.extaddr
      /\ n = config.gate.crypt_n /\ x = config.gate.crypt_x
      BY DEF get_uint, get_string, host
<1> HIDE DEF g, n, x, h, p
<1>6. /\ [kind |-> "item", name |-> "G", value |-> g] \in Written_ini
      /\ [kind |-> "item", name |-> "N", value |-> n] \in Written_ini
      /\ [kind |-> "item", name |-> "X", value |-> x] \in Written_ini
      /\ [kind |-> "item", name |-> "Host", value |-> h] \in Written_ini
      /\ [kind |-> "item", name |-> "Port", value |-> p] \in Written_ini
      BY <1>2, <1>3 DEF Written_ini
<1>7. lines \in Seq(Written_ini) /\ Len(lines) = 5 /\ lines # <<>>
      BY <1>6
<1>8. /\ lines[1].value = g /\ lines[2].value = n /\ lines[3].value = x
      /\ lines[4].value = h /\ lines[5].value = p
      OBVIOUS
<1> HIDE DEF lines
<1> QED BY <1>4, <1>5, <1>7, <1>8

LEMMA InvIni == Inv /\ generate_client_ini => Inv'
<1> SUFFICES ASSUME Inv, generate_client_ini PROVE Inv'
    OBVIOUS
<1>0. /\ at = "ini" /\ at' = "inilines" /\ ini' = <<>> /\ todo' = IniLines
      /\ UNCHANGED <<flags, config, disk, gate, historyVars, listenVars>>
      BY DEF generate_client_ini
<1>1. IniLines' = IniLines
      BY <1>0 DEF IniLines, Published
<1>2. Basic'
      BY <1>0 DEF Inv, Basic, Stages, historyVars
<1>3. Configs'
      BY <1>0 DEF Inv, Configs
<1>4. TheFiles'
  <2>1. IniLines \in Seq(Written_ini) /\ IniLines # <<>>
        BY IniLinesShape DEF Inv, Configs
  <2>2. ini' \in Seq(Written_ini) /\ ini' \o todo' = IniLines
        BY <1>0, <2>1
  <2> QED BY <1>0, <1>1, <2>1, <2>2 DEF Inv, TheFiles, Telling
<1>5. Kept' /\ Bases' /\ Told_ini'
      BY <1>0 DEF Inv, historyVars, Kept, Bases, Told_ini
<1>6. Listening'
      BY <1>0 DEF Inv, listenVars, Listening
<1>7. Gate'
      BY <1>0 DEF Inv, Gate
<1>8. Halves' /\ Found' /\ Fresh'
      BY <1>0 DEF Inv, historyVars, Halves, Half, Found, Saved, Fresh, Later
<1> QED BY <1>2, <1>3, <1>4, <1>5, <1>6, <1>7, <1>8 DEF Inv

LEMMA InvIniLine == Inv /\ IniLine => Inv'
<1> SUFFICES ASSUME Inv, IniLine PROVE Inv'
    OBVIOUS
<1>0. /\ at = "inilines" /\ ini' = Append(ini, Head(todo)) /\ todo' = Tail(todo)
      /\ at' = IF todo' = <<>> THEN "save" ELSE "inilines"
      /\ published' = (todo' = <<>>)
      /\ UNCHANGED <<flags, config, disk, gate, made, meant, kept, failed, whole, listenVars>>
      BY AfterSteps DEF IniLine
<1>1. IniLines' = IniLines
      BY <1>0 DEF IniLines, Published
<1>2. /\ ini' \in Seq(Written_ini) /\ todo' \in Seq(Written_ini)
      /\ ini' \o todo' = IniLines /\ (todo' = <<>> => ini' = IniLines)
  <2>1. ini \in Seq(Written_ini) /\ todo \in Seq(Written_ini) /\ todo # <<>>
        BY <1>0 DEF Inv, TheFiles, Telling
  <2>2. ini \o todo = IniLines
        BY <1>0 DEF Inv, TheFiles, Telling
  <2>3. Moved(Written_ini, ini, todo)
        BY ONLY <2>1, LineMoves, Zenon
  <2>4. /\ Append(ini, Head(todo)) \in Seq(Written_ini) /\ Tail(todo) \in Seq(Written_ini)
        /\ Append(ini, Head(todo)) \o Tail(todo) = ini \o todo
        /\ Tail(todo) = <<>> => Append(ini, Head(todo)) = ini \o todo
        BY ONLY <2>3, Zenon DEF Moved
  <2> QED BY ONLY <1>0, <2>2, <2>4, Zenon
<1>3. Basic'
      BY <1>0 DEF Inv, Basic, Stages
<1>4. Configs'
      BY <1>0 DEF Inv, Configs
<1>5. TheFiles'
      BY <1>0, <1>1, <1>2 DEF Inv, TheFiles, Telling
<1>6. Kept' /\ Bases'
      BY <1>0 DEF Inv, Kept, Bases
<1>7. Told_ini'
      BY <1>0, <1>1, <1>2 DEF Told_ini
<1>8. Listening'
      BY <1>0 DEF Inv, listenVars, Listening
<1>9. Gate'
      BY <1>0 DEF Inv, Gate
<1>10. Halves' /\ Found' /\ Fresh'
      BY <1>0 DEF Inv, Halves, Half, Found, Saved, Fresh, Later
<1> QED BY <1>3, <1>4, <1>5, <1>6, <1>7, <1>8, <1>9, <1>10 DEF Inv

LEMMA InvIniFails == Inv /\ IniFails => Inv'
<1> SUFFICES ASSUME Inv, IniFails PROVE Inv'
    OBVIOUS
<1>0. /\ at \in {"ini", "inilines"} /\ at' = "save" /\ todo' = <<>>
      /\ UNCHANGED <<flags, config, disk, ini, gate, historyVars, listenVars>>
      BY AfterSteps DEF IniFails
<1>1. Basic'
      BY <1>0 DEF Inv, Basic, Stages, historyVars
<1>2. Configs'
      BY <1>0 DEF Inv, Configs
<1>3. TheFiles'
      BY <1>0 DEF Inv, TheFiles
<1>4. Kept' /\ Bases' /\ Told_ini'
      BY <1>0 DEF Inv, historyVars, Kept, Bases, Told_ini
<1>5. Listening'
      BY <1>0 DEF Inv, listenVars, Listening
<1>6. Gate'
      BY <1>0 DEF Inv, Gate
<1>7. Halves' /\ Found' /\ Fresh'
      BY <1>0 DEF Inv, historyVars, Halves, Half, Found, Saved, Fresh, Later
<1> QED BY <1>1, <1>2, <1>3, <1>4, <1>5, <1>6, <1>7 DEF Inv

-----------------------------------------------------------------------------
(* theme.ini *)

LEMMA InvSaveOpens == Inv /\ SaveOpens => Inv'
<1> SUFFICES ASSUME Inv, SaveOpens PROVE Inv'
    OBVIOUS
<1>0. /\ at = "save" /\ at' = "savelines" /\ disk' = <<>> /\ meant' = config /\ kept' = <<>>
      /\ whole' = [whole EXCEPT !.disk = FALSE]
      /\ UNCHANGED <<flags, config, ini, gate, made, failed, published, listenVars>>
      BY DEF SaveOpens, Truncated
<1>1. PICK layout \in Layouts : todo' = write(layout, config)
      BY DEF SaveOpens
<1>2. Valid(config) /\ Stored(config)
      BY DEF Inv, Configs, Valid
<1>3. ReadAll(Defaults, <<>>) = StateAfter(layout, 0, config) /\ read(Defaults, <<>>) = Defaults
  <2>1. ReadAll(Defaults, <<>>) = [section |-> "", values |-> Defaults]
        BY ReadNothing
  <2>2. Told(layout, 0, config) = Defaults
        BY <1>2, ToldNothing
  <2>3. ReadAll(Defaults, <<>>) = StateAfter(layout, 0, config)
        BY <2>1, <2>2 DEF StateAfter
  <2> QED BY <2>2, <2>3, StateValues DEF read
<1>4. Basic'
      BY <1>0 DEF Inv, Basic, Stages
<1>5. Configs'
      BY <1>0, <1>3, DefaultsValid DEF Inv, Configs
<1>6. Saving'
  <2>1. todo' \in Seq(Lines) /\ Len(todo') # 0
        BY <1>1, <1>2, WrittenLines
  <2>2. todo' # <<>> /\ <<>> \o todo' = todo' /\ Len(<<>>) = 0
        BY <2>1
  <2> QED BY <1>0, <1>1, <1>3, <2>1, <2>2 DEF Saving
<1>7. TheFiles'
      BY <1>0, <1>6 DEF Inv, TheFiles
<1>8. Kept' /\ Bases'
      BY <1>0 DEF Inv, Basic, Kept, Bases
<1>9. Told_ini'
      BY <1>0 DEF Inv, Told_ini, IniLines, Published
<1>10. Listening'
       BY <1>0 DEF Inv, listenVars, Listening
<1>11. Gate'
       BY <1>0 DEF Inv, Gate
<1>12. Halves' /\ Found'
      BY <1>0, <1>3, DefaultsValid DEF Halves, Half, Found
<1>13. Fresh'
  <2>1. Later' = Later /\ "" \notin Later
        BY <1>0, NoLaterEmpty DEF Inv, Basic, Later
  <2> QED BY <1>0, <1>3, <2>1, DefaultsValid DEF Inv, Fresh
<1> QED BY <1>4, <1>5, <1>7, <1>8, <1>9, <1>10, <1>11, <1>12, <1>13 DEF Inv

LEMMA InvSaveLine == Inv /\ SaveLine => Inv'
<1> SUFFICES ASSUME Inv, SaveLine PROVE Inv'
    OBVIOUS
<1>0. /\ at = "savelines" /\ disk' = Append(disk, Head(todo)) /\ todo' = Tail(todo)
      /\ at' = IF todo' = <<>> THEN "fds" ELSE "savelines"
      /\ kept' = IF todo' = <<>> THEN config ELSE kept
      /\ failed' = IF todo' = <<>> THEN FALSE ELSE failed
      /\ whole' = IF todo' = <<>> THEN [whole EXCEPT !.disk = whole.config] ELSE whole
      /\ UNCHANGED <<flags, config, ini, gate, made, meant, published, listenVars>>
      BY AfterSteps DEF SaveLine
<1>1. PICK layout \in Layouts :
          /\ todo \in Seq(Lines) /\ todo # <<>>
          /\ disk \o todo = write(layout, config)
          /\ ReadAll(Defaults, disk) = StateAfter(layout, Len(disk), config)
      BY <1>0 DEF Inv, TheFiles, Saving
<1>2. Valid(config) /\ Stored(config) /\ disk \in Seq(Lines)
      BY DEF Inv, Configs, Valid, TheFiles
<1>3. /\ Head(todo) \in Lines /\ Head(todo) = write(layout, config)[Len(disk) + 1]
      /\ disk' \in Seq(Lines) /\ todo' \in Seq(Lines) /\ disk' \o todo' = write(layout, config)
      /\ Len(disk') = Len(disk) + 1 /\ Len(disk) < Len(write(layout, config))
      /\ todo' = <<>> => disk' = write(layout, config)
  <2>1. /\ Head(todo) \in Lines /\ Head(todo) = (disk \o todo)[Len(disk) + 1]
        /\ Append(disk, Head(todo)) \in Seq(Lines) /\ Tail(todo) \in Seq(Lines)
        /\ Append(disk, Head(todo)) \o Tail(todo) = disk \o todo
        /\ Len(Append(disk, Head(todo))) = Len(disk) + 1 /\ Len(disk) < Len(disk \o todo)
        /\ Tail(todo) = <<>> => Append(disk, Head(todo)) = disk \o todo
    <3>1. Moved(Lines, disk, todo)
          BY <1>1, <1>2, LineMoves, Zenon
    <3> QED BY ONLY <3>1, Zenon DEF Moved
  <2> QED BY <1>0, <1>1, <2>1
<1>4. Len(write(layout, config)) = Len(layout) /\ Len(layout) \in Nat /\ Len(disk) \in Nat
  <2>1. Len(write(layout, config)) = Len(layout) /\ Len(layout) \in Nat
        BY <1>2, WrittenLines
  <2> QED BY <1>2, <2>1
<1>5. Head(todo) = Line(layout[Len(disk) + 1], config)
  <2>1. Len(disk) + 1 \in 1..Len(layout)
        BY <1>3, <1>4
  <2> QED BY <1>2, <1>3, <2>1, WrittenLines
<1>6. ReadAll(Defaults, disk') = StateAfter(layout, Len(disk'), config)
  <2>1. ReadAll(Defaults, disk') = ReadLine(ReadAll(Defaults, disk), Head(todo))
        BY <1>0, <1>2, <1>3, ReadOneMore
  <2>2. ReadLine(StateAfter(layout, Len(disk), config), Line(layout[Len(disk) + 1], config))
            = StateAfter(layout, Len(disk) + 1, config)
        BY <1>2, <1>3, <1>4, ToldOneMore
  <2> QED BY <1>1, <1>3, <1>5, <2>1, <2>2
<1>7. read(Defaults, disk') = Told(layout, Len(disk'), config)
      BY <1>6, StateValues DEF read
<1>8. todo' = <<>> => read(Defaults, disk') = config
  <2> SUFFICES ASSUME todo' = <<>> PROVE read(Defaults, disk') = config
      OBVIOUS
  <2>1. Len(disk') = Len(layout)
        BY <1>3, <1>4
  <2>2. Told(layout, Len(layout), config) = config
        BY <1>2, ToldAll
  <2> QED BY <1>7, <2>1, <2>2
<1>9. Basic'
      BY <1>0 DEF Inv, Basic, Stages
<1>10. Configs'
  <2>1. Valid(Told(layout, Len(disk'), config))
        BY <1>2, ToldValid
  <2> QED BY <1>0, <1>2, <1>7, <2>1 DEF Configs
<1>11. TheFiles'
  <2>1. todo' # <<>> => Saving'
        BY <1>0, <1>3, <1>6 DEF Saving
  <2> QED BY <1>0, <1>3, <2>1 DEF Inv, TheFiles
<1>12. Kept'
       BY <1>0, <1>8 DEF Inv, Kept
<1>13. Bases'
       BY <1>0, <1>8 DEF Inv, Basic, Bases
<1>14. Told_ini'
       BY <1>0 DEF Inv, Told_ini, IniLines, Published
<1>15. Listening'
       BY <1>0 DEF Inv, listenVars, Listening
<1>16. Gate'
       BY <1>0 DEF Inv, Gate
<1>17. /\ meant = config
       /\ read(Defaults, disk').gate.crypt_k \in {"", config.gate.crypt_k}
       /\ read(Defaults, disk').gate.crypt_n \in {"", config.gate.crypt_n}
  <2>1. meant = config
        BY <1>0 DEF Inv, Halves
  <2>2. /\ Told(layout, Len(disk'), config)["gate"]["crypt_k"] \in {"", config["gate"]["crypt_k"]}
        /\ Told(layout, Len(disk'), config)["gate"]["crypt_n"] \in {"", config["gate"]["crypt_n"]}
        BY <1>2, ToldValid, Zenon
  <2> QED BY <1>7, <2>1, <2>2
<1>18. Halves' /\ Found'
       BY <1>0, <1>8, <1>17 DEF Inv, Halves, Half, Found
<1>19. Fresh'
  <2>1. Later' = Later /\ "" \notin Later
        BY <1>0, NoLaterEmpty DEF Inv, Basic, Later
  <2> QED BY <1>0, <1>17, <2>1 DEF Inv, Fresh
<1> QED BY <1>9, <1>10, <1>11, <1>12, <1>13, <1>14, <1>15, <1>16, <1>18, <1>19 DEF Inv

LEMMA InvSaveFails == Inv /\ SaveFails => Inv'
<1> SUFFICES ASSUME Inv, SaveFails PROVE Inv'
    OBVIOUS
<1>0. /\ at \in {"save", "savelines"} /\ at' = "fds" /\ todo' = <<>> /\ failed' = TRUE
      /\ UNCHANGED <<flags, config, disk, ini, gate, made, meant, kept, published, whole, listenVars>>
      BY AfterSteps DEF SaveFails
<1>1. Basic'
      BY <1>0 DEF Inv, Basic, Stages, historyVars
<1>2. Configs'
      BY <1>0 DEF Inv, Configs
<1>3. TheFiles'
      BY <1>0 DEF Inv, TheFiles
<1>4. Kept' /\ Bases'
      BY <1>0 DEF Inv, historyVars, Kept, Bases
<1>5. Told_ini'
      BY <1>0 DEF Inv, historyVars, Told_ini, IniLines, Published
<1>6. Listening'
      BY <1>0 DEF Inv, listenVars, Listening
<1>7. Gate'
      BY <1>0 DEF Inv, Gate
<1>8. Halves' /\ Found' /\ Fresh'
      BY <1>0 DEF Inv, Halves, Half, Found, Saved, Fresh, Later
<1> QED BY <1>1, <1>2, <1>3, <1>4, <1>5, <1>6, <1>7, <1>8 DEF Inv

-----------------------------------------------------------------------------
(* The listening socket and the servers *)

LEMMA SequenceShape ==
    ASSUME NEW T, NEW s \in Seq(T), s # <<>>
    PROVE  Len(s) \in Nat \ {0} /\ DOMAIN s = 1..Len(s) /\ 1 \in DOMAIN s /\ \A i \in DOMAIN s : s[i] \in T
OBVIOUS

LEMMA HostAddresses ==
    Valid(config) => /\ Len(Resolves[host]) \in Nat \ {0} /\ DOMAIN Resolves[host] = 1..Len(Resolves[host])
                     /\ 1 \in DOMAIN Resolves[host]
                     /\ \A i \in DOMAIN Resolves[host] : Resolves[host][i] # ""
<1> SUFFICES ASSUME Valid(config)
             PROVE  /\ Len(Resolves[host]) \in Nat \ {0} /\ DOMAIN Resolves[host] = 1..Len(Resolves[host])
                    /\ 1 \in DOMAIN Resolves[host]
                    /\ \A i \in DOMAIN Resolves[host] : Resolves[host][i] # ""
    OBVIOUS
<1> DEFINE r == Resolves[host]
<1>1. host \in DOMAIN Resolves
      BY DEF Valid, Usable, host, get_string
<1>2. r \in Seq(STRING \ {""}) /\ r # <<>>
      BY <1>1, ResolvesAssumption
<1> HIDE DEF r
<1>3. Len(r) \in Nat \ {0} /\ DOMAIN r = 1..Len(r) /\ 1 \in DOMAIN r /\ \A i \in DOMAIN r : r[i] \in STRING \ {""}
  <2> DEFINE T == STRING \ {""}
  <2> HIDE DEF T
  <2>1. r \in Seq(T) /\ r # <<>>
        BY <1>2 DEF T
  <2>2. Len(r) \in Nat \ {0} /\ DOMAIN r = 1..Len(r) /\ 1 \in DOMAIN r /\ \A i \in DOMAIN r : r[i] \in T
        BY <2>1, SequenceShape
  <2> QED BY <2>2 DEF T
<1> QED BY <1>3 DEF r

LEMMA Inv_init_fds == Inv /\ init_fds => Inv'
<1> SUFFICES ASSUME Inv, init_fds PROVE Inv'
    OBVIOUS
<1>0. /\ at = "fds" /\ at' = "bind" /\ it' = 1 /\ listenSock' = listenSock
      /\ UNCHANGED <<flags, config, fileVars, gate, historyVars>>
      BY DEF init_fds, getaddrinfo
<1>1. Basic'
      BY <1>0 DEF Inv, Basic, Stages, historyVars
<1>2. Configs'
      BY <1>0 DEF Inv, fileVars, Configs
<1>3. TheFiles'
      BY <1>0 DEF Inv, fileVars, TheFiles
<1>4. Kept' /\ Bases'
      BY <1>0 DEF Inv, fileVars, historyVars, Kept, Bases
<1>5. Told_ini'
      BY <1>0 DEF Inv, fileVars, historyVars, Told_ini, IniLines, Published
<1>6. Listening'
  <2>1. 1 \in DOMAIN Resolves[host]
        BY HostAddresses DEF Inv, Configs
  <2>2. host' = host
        BY <1>0 DEF host
  <2> QED BY <1>0, <2>1, <2>2 DEF Inv, Listening
<1>7. Gate'
      BY <1>0 DEF Inv, Gate
<1>8. Halves' /\ Found' /\ Fresh'
      BY <1>0 DEF Inv, fileVars, historyVars, Halves, Half, Found, Saved, Fresh, Later
<1> QED BY <1>1, <1>2, <1>3, <1>4, <1>5, <1>6, <1>7, <1>8 DEF Inv

LEMMA Inv_BindFails == Inv /\ BindFails => Inv'
<1> SUFFICES ASSUME Inv, BindFails PROVE Inv'
    OBVIOUS
<1>0. /\ at = "bind" /\ at' = at /\ it' = Advanced(host) /\ listenSock' = listenSock
      /\ UNCHANGED <<flags, config, fileVars, gate, historyVars>>
      BY DEF BindFails, TryNext
<1>1. Basic'
      BY <1>0 DEF Inv, Basic, Stages, historyVars
<1>2. Configs'
      BY <1>0 DEF Inv, fileVars, Configs
<1>3. TheFiles'
      BY <1>0 DEF Inv, fileVars, TheFiles
<1>4. Kept' /\ Bases'
      BY <1>0 DEF Inv, fileVars, historyVars, Kept, Bases
<1>5. Told_ini'
      BY <1>0 DEF Inv, fileVars, historyVars, Told_ini, IniLines, Published
<1>6. Listening'
  <2>1. it' \in {0, 2} /\ (it' # 0 => it' \in DOMAIN Resolves[host])
    <3>1. Len(Resolves[host]) \in Nat /\ DOMAIN Resolves[host] = 1..Len(Resolves[host])
          BY HostAddresses DEF Inv, Configs
    <3> DEFINE n == Len(Resolves[host])
    <3> HIDE DEF n
    <3>2. it' = IF n > 1 THEN 2 ELSE 0
          BY <1>0 DEF Advanced, n
    <3>3. n > 1 => 2 \in 1..n
          BY <3>1 DEF n
    <3> QED BY <3>1, <3>2, <3>3 DEF n
  <2>2. host' = host
        BY <1>0 DEF host
  <2> QED BY <1>0, <2>1, <2>2 DEF Inv, Listening
<1>7. Gate'
      BY <1>0 DEF Inv, Gate
<1>8. Halves' /\ Found' /\ Fresh'
      BY <1>0 DEF Inv, fileVars, historyVars, Halves, Half, Found, Saved, Fresh, Later
<1> QED BY <1>1, <1>2, <1>3, <1>4, <1>5, <1>6, <1>7, <1>8 DEF Inv

LEMMA Inv_Binds == Inv /\ Binds => Inv'
<1> SUFFICES ASSUME Inv, Binds PROVE Inv'
    OBVIOUS
<1>0. /\ at = "bind" /\ at' = "listen" /\ it # 0 /\ it' = 0
      /\ UNCHANGED <<flags, config, fileVars, gate, historyVars>>
      BY DEF Binds, bind, setfd
<1>1. Basic'
      BY <1>0 DEF Inv, Basic, Stages, historyVars
<1>2. Configs'
      BY <1>0 DEF Inv, fileVars, Configs
<1>3. TheFiles'
      BY <1>0 DEF Inv, fileVars, TheFiles
<1>4. Kept' /\ Bases'
      BY <1>0 DEF Inv, fileVars, historyVars, Kept, Bases
<1>5. Told_ini'
      BY <1>0 DEF Inv, fileVars, historyVars, Told_ini, IniLines, Published
<1>6. Listening'
  <2>1. it \in DOMAIN Resolves[host]
        BY <1>0 DEF Inv, Listening
  <2>2. /\ DOMAIN listenSock' = {"addr", "port", "listening"} /\ listenSock'.listening = FALSE
        /\ listenSock'.addr = Resolves[host][it]
        /\ listenSock'.port = uint16(get_uint(config, "lobby", "port"))
    <3>1. listenSock' = [addr |-> Resolves[host][it], port |-> uint16(get_uint(config, "lobby", "port")),
                         listening |-> FALSE]
          BY DEF Binds, bind, setfd
    <3> QED BY <3>1
  <2>3. get_uint(config, "lobby", "port") \in Nat
        BY ConfigAssumption DEF Inv, Configs, Valid, Usable, get_uint
  <2>4. listenSock'.port \in Ports
        BY <2>2, <2>3, PortNumbers
  <2>5. Bound'
        BY <1>0, <2>1, <2>2 DEF Bound, host, get_string, get_uint
  <2>6. it' = 0 /\ it' \in {0, 1, 2} /\ at' = "listen"
        BY <1>0
  <2>7. DOMAIN listenSock' = {"addr", "port", "listening"} /\ listenSock'.listening = FALSE
        BY <2>2
  <2> QED BY <2>4, <2>5, <2>6, <2>7 DEF Listening
<1>7. Gate'
      BY <1>0 DEF Inv, Gate
<1>8. Halves' /\ Found' /\ Fresh'
      BY <1>0 DEF Inv, fileVars, historyVars, Halves, Half, Found, Saved, Fresh, Later
<1> QED BY <1>1, <1>2, <1>3, <1>4, <1>5, <1>6, <1>7, <1>8 DEF Inv

LEMMA Inv_Listens == Inv /\ Listens => Inv'
<1> SUFFICES ASSUME Inv, Listens PROVE Inv'
    OBVIOUS
<1>0. /\ at = "listen" /\ at' = "servers" /\ it' = it
      /\ listenSock' = [listenSock EXCEPT !.listening = TRUE]
      /\ UNCHANGED <<flags, config, fileVars, gate, historyVars>>
      BY DEF Listens, listen
<1>1. Basic'
      BY <1>0 DEF Inv, Basic, Stages, historyVars
<1>2. Configs'
      BY <1>0 DEF Inv, fileVars, Configs
<1>3. TheFiles'
      BY <1>0 DEF Inv, fileVars, TheFiles
<1>4. Kept' /\ Bases'
      BY <1>0 DEF Inv, fileVars, historyVars, Kept, Bases
<1>5. Told_ini'
      BY <1>0 DEF Inv, fileVars, historyVars, Told_ini, IniLines, Published
<1>6. Listening'
  <2>1. DOMAIN listenSock = {"addr", "port", "listening"}
        BY DEF Inv, Listening
  <2>2. /\ DOMAIN listenSock' = {"addr", "port", "listening"} /\ listenSock'.listening = TRUE
        /\ listenSock'.addr = listenSock.addr /\ listenSock'.port = listenSock.port
        BY <1>0, <2>1
  <2>3. Bound
        BY <1>0 DEF Inv, Listening
  <2>4. listenSock.addr # ""
    <3>1. PICK i \in DOMAIN Resolves[host] : listenSock.addr = Resolves[host][i]
          BY <2>3 DEF Bound
    <3>2. Resolves[host][i] # ""
          BY HostAddresses DEF Inv, Configs
    <3> QED BY <3>1, <3>2
  <2>5. Bound'
        BY <1>0, <2>2, <2>3 DEF Bound, host, get_string, get_uint
  <2> QED BY <1>0, <2>2, <2>4, <2>5 DEF Inv, Listening
<1>7. Gate'
      BY <1>0 DEF Inv, Gate
<1>8. Halves' /\ Found' /\ Fresh'
      BY <1>0 DEF Inv, fileVars, historyVars, Halves, Half, Found, Saved, Fresh, Later
<1> QED BY <1>1, <1>2, <1>3, <1>4, <1>5, <1>6, <1>7, <1>8 DEF Inv

LEMMA Inv_LoadKeys == Inv /\ LoadKeys => Inv'
<1> SUFFICES ASSUME Inv, LoadKeys PROVE Inv'
    OBVIOUS
<1>0. /\ at = "servers" /\ at' = "running" /\ ~Lacking(config)
      /\ gate' = [k |-> config["gate"]["crypt_k"], n |-> config["gate"]["crypt_n"], result |-> TRUE]
      /\ UNCHANGED <<flags, config, fileVars, historyVars, listenVars>>
      BY DEF LoadKeys
<1>1. /\ config["gate"]["crypt_k"] # "" /\ config["gate"]["crypt_n"] # ""
      /\ config["gate"]["crypt_k"] = config["gate"]["crypt_n"]
      BY <1>0 DEF Inv, Configs, Valid, Paired, Lacking, get_string
<1>2. config["gate"]["crypt_k"] \in Text /\ config["gate"]["crypt_n"] \in Text
      BY Table DEF Inv, Configs, Valid, Stored, IsConfig
<1>3. Basic'
      BY <1>0, <1>2 DEF Inv, Basic, Stages, historyVars
<1>4. Configs'
      BY <1>0 DEF Inv, fileVars, Configs
<1>5. TheFiles'
      BY <1>0 DEF Inv, fileVars, TheFiles
<1>6. Kept' /\ Bases'
      BY <1>0 DEF Inv, fileVars, historyVars, Kept, Bases
<1>7. Told_ini'
      BY <1>0 DEF Inv, fileVars, historyVars, Told_ini, IniLines, Published
<1>8. Listening'
  <2>1. Bound => Bound'
        BY <1>0 DEF listenVars, Bound, host, get_string, get_uint
  <2> QED BY <1>0, <2>1 DEF Inv, listenVars, Listening
<1>9. Gate'
      BY <1>0, <1>1 DEF Gate
<1>10. Halves' /\ Found' /\ Fresh'
      BY <1>0 DEF Inv, fileVars, historyVars, Halves, Half, Found, Saved, Fresh, Later
<1> QED BY <1>3, <1>4, <1>5, <1>6, <1>7, <1>8, <1>9, <1>10 DEF Inv

LEMMA Inv_FallbackKeys == Inv /\ FallbackKeys => Inv'
<1> SUFFICES ASSUME Inv, FallbackKeys PROVE Inv'
    OBVIOUS
<1>0. /\ at = "servers" /\ at' = "running" /\ Lacking(config) /\ made < Len(Pairs) /\ made' = made + 1
      /\ gate' = [k |-> Pairs[made + 1], n |-> Pairs[made + 1], result |-> FALSE]
      /\ UNCHANGED <<flags, config, fileVars, meant, kept, failed, published, whole, listenVars>>
      BY DEF FallbackKeys
<1>1. made + 1 \in DOMAIN Pairs /\ made + 1 \in 0..Len(Pairs)
      BY <1>0, PairsShape DEF Inv, Basic
<1>2. Pairs[made + 1] \in Text /\ Pairs[made + 1] # ""
  <2>1. Pairs \in Seq(Text)
        BY PairsAssumption
  <2>2. Pairs[made + 1] \in Text
        BY ONLY <1>1, <2>1
  <2>3. Pairs[made + 1] # ""
        BY <1>1, PairsAssumption, Zenon
  <2> QED BY <2>2, <2>3
<1>3. Basic'
      BY <1>0, <1>1, <1>2 DEF Inv, Basic, Stages
<1>4. Configs'
      BY <1>0 DEF Inv, fileVars, Configs
<1>5. TheFiles'
      BY <1>0 DEF Inv, fileVars, TheFiles
<1>6. Kept' /\ Bases'
      BY <1>0 DEF Inv, fileVars, Kept, Bases
<1>7. Told_ini'
      BY <1>0 DEF Inv, fileVars, Told_ini, IniLines, Published
<1>8. Listening'
  <2>1. Bound => Bound'
        BY <1>0 DEF listenVars, Bound, host, get_string, get_uint
  <2> QED BY <1>0, <2>1 DEF Inv, listenVars, Listening
<1>9. Gate'
  <2>1. Lacking(config)'
        BY <1>0 DEF Lacking, get_string
  <2>2. Pairs[made + 1] # config.gate.crypt_n
        BY <1>0, <1>1, LaterShrinks DEF Inv, Basic, Fresh
  <2> QED BY <1>0, <1>2, <2>1, <2>2 DEF Gate
<1>10. Halves' /\ Found'
      BY <1>0 DEF Inv, fileVars, Halves, Half, Found, Saved
<1>11. Fresh'
  <2>1. Later' \subseteq Later
        BY <1>0, <1>1, LaterShrinks DEF Inv, Basic
  <2> QED BY <1>0, <2>1 DEF Inv, fileVars, Fresh
<1> QED BY <1>3, <1>4, <1>5, <1>6, <1>7, <1>8, <1>9, <1>10, <1>11 DEF Inv

LEMMA InvUnchanged == Inv /\ UNCHANGED vars => Inv'
<1> SUFFICES ASSUME Inv, UNCHANGED vars PROVE Inv'
    OBVIOUS
<1>0. UNCHANGED <<at, flags, config, todo, disk, ini, gate, made, meant, kept, failed, published, whole, it,
                  listenSock>>
      BY DEF vars, fileVars, historyVars, listenVars
<1>1. Basic'
      BY <1>0 DEF Inv, Basic
<1>2. Configs'
      BY <1>0 DEF Inv, Configs
<1>3. TheFiles'
  <2>1. Telling' <=> Telling
        BY <1>0 DEF Telling, IniLines, Published
  <2>2. Saving' <=> Saving
        BY <1>0 DEF Saving
  <2> QED BY <1>0, <2>1, <2>2 DEF Inv, TheFiles
<1>4. Kept' /\ Bases'
      BY <1>0 DEF Inv, Kept, Bases
<1>5. Told_ini'
      BY <1>0 DEF Inv, Told_ini, IniLines, Published
<1>6. Listening'
  <2>1. host' = host /\ (Bound' <=> Bound)
        BY <1>0 DEF Bound, host, get_string, get_uint
  <2> QED BY <1>0, <2>1 DEF Inv, Listening
<1>7. Gate'
      BY <1>0 DEF Inv, Gate, Lacking, get_string
<1>8. Halves' /\ Found' /\ Fresh'
      BY <1>0 DEF Inv, Halves, Half, Found, Saved, Fresh, Later
<1> QED BY <1>1, <1>2, <1>3, <1>4, <1>5, <1>6, <1>7, <1>8 DEF Inv

LEMMA InvNext == Inv /\ [Next]_vars => Inv'
<1> SUFFICES ASSUME Inv, [Next]_vars PROVE Inv'
    OBVIOUS
<1>1. CASE Main
      BY <1>1, InvStart, InvSkip, InvGenerate DEF Main
<1>2. CASE Writing
      BY <1>2, InvIni, InvIniLine, InvIniFails, InvSaveOpens, InvSaveLine, InvSaveFails DEF Writing
<1>3. CASE Running
  <2>1. CASE init_fdsFails
        BY <2>1, InvEnds DEF init_fdsFails
  <2> QED BY <1>3, <2>1, Inv_init_fds, Inv_Binds, Inv_BindFails, Inv_Listens, Inv_LoadKeys, Inv_FallbackKeys
          DEF Running
<1>4. CASE Crash
      BY <1>4, InvEnds DEF Crash
<1>5. CASE UNCHANGED vars
      BY <1>5, InvUnchanged
<1> QED BY <1>1, <1>2, <1>3, <1>4, <1>5 DEF Next

LEMMA InvAlways == Spec => []Inv
BY InvInit, InvNext, PTL DEF Spec

-----------------------------------------------------------------------------
(* What the runs check, for every instance *)

LEMMA InvTypes == Inv => TypeOK
<1> SUFFICES ASSUME Inv PROVE TypeOK
    OBVIOUS
<1>1. DOMAIN config = Sections /\ \A s \in Sections : DOMAIN config[s] = Keys(s)
      BY ConfigDomains DEF Inv, Configs, Valid, Stored
<1>2. {config.lobby.port, config.gate.crypt_g} \subseteq DOMAIN Number
      BY DEF Inv, Configs, Valid, Usable
<1>3. \A i \in DOMAIN todo : todo[i].kind \in {"section", "item"}
  <2>1. CASE at = "inilines"
    <3>1. todo \in Seq(Written_ini)
          BY <2>1 DEF Inv, TheFiles, Telling
    <3>2. \A r \in Written_ini : r.kind = "item"
          BY DEF Written_ini
    <3>3. \A i \in DOMAIN todo : todo[i] \in Written_ini
          BY ONLY <3>1
    <3> QED BY <3>2, <3>3
  <2>2. CASE at = "savelines"
    <3>1. PICK layout \in Layouts :
              todo \in Seq(Lines) /\ todo # <<>> /\ disk \o todo = write(layout, config)
          BY <2>2 DEF Inv, TheFiles, Saving
    <3>2. Stored(config) /\ disk \in Seq(Lines)
          BY DEF Inv, Configs, Valid, TheFiles
    <3>3. \A i \in DOMAIN todo :
              todo[i] = (disk \o todo)[Len(disk) + i] /\ Len(disk) + i \in 1..Len(disk \o todo)
      <4>1. todo \in Seq(Lines) /\ disk \in Seq(Lines) /\ todo # <<>>
            BY <3>1, <3>2
      <4>2. \A i \in DOMAIN todo : todo[i] = (disk \o todo)[Len(disk) + i]
        <5>1. Moved(Lines, disk, todo)
              BY ONLY <4>1, LineMoves, Zenon
        <5> QED BY ONLY <5>1, Zenon DEF Moved
      <4>3. \A i \in DOMAIN todo : Len(disk) + i \in 1..Len(disk \o todo)
            BY ONLY <4>1
      <4> QED BY <4>2, <4>3
    <3>4. \A j \in 1..Len(write(layout, config)) : write(layout, config)[j].kind \in {"section", "item"}
          BY <3>2, WrittenLines
    <3> QED BY <3>1, <3>3, <3>4
  <2>3. CASE at \notin {"inilines", "savelines"}
        BY <2>3 DEF Inv, TheFiles
  <2> QED BY <2>1, <2>2, <2>3
<1>4. \A i \in DOMAIN ini : ini[i].kind = "item"
  <2>1. ini \in Seq(Written_ini)
        BY DEF Inv, TheFiles
  <2>2. \A r \in Written_ini : r.kind = "item"
        BY DEF Written_ini
  <2>3. \A i \in DOMAIN ini : ini[i] \in Written_ini
        BY ONLY <2>1
  <2> QED BY <2>2, <2>3
<1>5. ListenerTypeOK /\ (at = "running" => listenSock.listening)
  <2>1. /\ it \in {0, 1, 2} /\ (listenSock.listening => listenSock.addr # "")
        /\ (at = "running" => listenSock.listening)
        BY DEF Inv, Listening
  <2>2. listenSock.port \in Ports
        BY DEF Inv, Listening
  <2>3. it \in 0..2
        BY <2>1, PortNumbers
  <2> QED BY <2>1, <2>2, <2>3, Zenon DEF ListenerTypeOK
<1>6. /\ at \in Stages /\ flags \in [generate : BOOLEAN, ini : BOOLEAN, save : BOOLEAN]
      /\ disk \in Seq(Lines) /\ gate \in [k : Text, n : Text, result : BOOLEAN]
      /\ (at = "running" => gate.k # "") /\ made \in 0..Len(Pairs) /\ failed \in BOOLEAN
      /\ published \in BOOLEAN /\ whole \in [disk : BOOLEAN, config : BOOLEAN]
      BY DEF Inv, Basic, TheFiles, Gate
<1> QED BY <1>1, <1>2, <1>3, <1>4, <1>5, <1>6 DEF TypeOK, Stages

\* Every variable keeps its type, whatever theme.ini holds at first and however often the
\* daemon is started and ended (main, server::server).
THEOREM TypeCorrect == Spec => []TypeOK
BY InvAlways, InvTypes, PTL

\* A completely saved theme.ini reads back as the configuration it was written from, in
\* whatever order the maps are walked (config_parser::write and read).
THEOREM SavedReadsBack == Spec => []SavedConfigReadsBack
<1>1. Inv => SavedConfigReadsBack
      BY DEF Inv, Kept, SavedConfigReadsBack
<1> QED BY <1>1, InvAlways, PTL

\* The daemon never runs with the private number of one pair and the public one of
\* another, though a crash may have cut any save (config_parser::write, load_keys).
THEOREM OnePair == Spec => []PairsStayTogether
<1>1. Inv => PairsStayTogether
      BY DEF Inv, Gate, PairsStayTogether
<1> QED BY <1>1, InvAlways, PTL

\* A start that generates no keys runs with those that the last save set out to write, cut
\* as it may be, and never with older ones; it takes a pair of its own only if that save
\* was cut, had no pair, or theme.ini fails now.  A restart finds the pair of a daemon that
\* did not warn, whose theme.ini could be read and saved, and that saved what it generated:
\* of the others the code makes no such promise (server::server, load_keys).
THEOREM KeysKept == Spec => []RestartKeepsKeys
<1>1. Inv => RestartKeepsKeys
  <2> SUFFICES ASSUME Inv, at = "running" PROVE RestartKeepsKeys
      BY DEF RestartKeepsKeys
  <2> DEFINE k == config.gate.crypt_k
             n == config.gate.crypt_n
  <2>1. /\ gate.result => gate.k = k /\ gate.n = n /\ k # "" /\ n # ""
        /\ ~gate.result => "" \in {k, n}
        BY DEF Inv, Gate, Lacking, get_string
  <2>2. ~flags.generate => k \in {"", meant.gate.crypt_k} /\ n \in {"", meant.gate.crypt_n}
        BY DEF Inv, Halves, Half
  <2>3. kept # <<>> /\ ~flags.generate => config = kept \/ failed
        BY DEF Inv, Kept
  <2>4. ~failed /\ (flags.generate => flags.save) => read(Defaults, disk) = config
        BY DEF Inv, Found, Saved
  <2>5. \A values : KeysOf(values)[1] = values.gate.crypt_k /\ KeysOf(values)[2] = values.gate.crypt_n
                    /\ KeysOf(values) = <<values.gate.crypt_k, values.gate.crypt_n>>
        BY DEF KeysOf, get_string
  <2>6. ~flags.generate /\ gate.result => <<gate.k, gate.n>> = KeysOf(meant)
    <3> SUFFICES ASSUME ~flags.generate, gate.result PROVE <<gate.k, gate.n>> = KeysOf(meant)
        OBVIOUS
    <3>1. gate.k = meant.gate.crypt_k /\ gate.n = meant.gate.crypt_n
          BY <2>1, <2>2
    <3> QED BY <2>5, <3>1
  <2>7. ~flags.generate /\ ~gate.result => kept = <<>> \/ "" \in {KeysOf(kept)[1], KeysOf(kept)[2]} \/ failed
        BY <2>1, <2>3, <2>5
  <2>8. gate.result /\ ~failed /\ (flags.generate => flags.save) =>
            KeysOf(read(Defaults, disk)) = <<gate.k, gate.n>>
    <3> SUFFICES ASSUME gate.result, ~failed, flags.generate => flags.save
                 PROVE  KeysOf(read(Defaults, disk)) = <<gate.k, gate.n>>
        OBVIOUS
    <3>1. read(Defaults, disk) = config
          BY <2>4
    <3>2. KeysOf(config) = <<k, n>>
          BY <2>5
    <3> QED BY <2>1, <3>1, <3>2
  <2> QED BY <2>6, <2>7, <2>8 DEF RestartKeepsKeys
<1> QED BY <1>1, InvAlways, PTL

\* Of a server.ini that this start wrote: it tells the public number of a daemon that took
\* the configured pair, and never that of one which warned and made its own; X is empty or of
\* the told pair, for the told base if no cut save or hand changed either; the host is the
\* configured one, where the daemon listens, if no external address is set; and the port is
\* the daemon's but for the bits above 16, any if they leave 0 (generate_client_ini,
\* socket::bind, load_keys).
THEOREM IniRight == Spec => []IniMatchesDaemon
<1>1. Inv => IniMatchesDaemon
  <2> SUFFICES ASSUME Inv, at = "running", published = TRUE PROVE IniMatchesDaemon
    <3>1. Inv => published \in BOOLEAN
          BY DEF Inv, Basic
    <3> QED BY <3>1 DEF IniMatchesDaemon
  <2> DEFINE told(i) == ini[i].value
             x == config.gate.crypt_x
             g == get_uint(config, "gate", "crypt_g")
             OfPair(v) == \E u \in DOMAIN Number : v = Shared(gate.k, Number[u])
  <2>1. /\ told(1) = g /\ told(2) = config.gate.crypt_n /\ told(3) = x
        /\ told(4) = IF config.lobby.extaddr = "" THEN host ELSE config.lobby.extaddr
        /\ told(5) = get_uint(config, "lobby", "port")
        BY IniLinesShape DEF Inv, Configs, Told_ini
  <2>2. /\ gate.result => gate.k = config.gate.crypt_k /\ gate.n = config.gate.crypt_n
        /\ ~gate.result => gate.n # config.gate.crypt_n
        /\ gate.k # ""
        BY DEF Inv, Gate
  <2>3. gate.result => x = "" \/ OfPair(x)
        BY <2>2 DEF Inv, Configs, Valid, Paired
  <2>4. whole.config => x = Shared(config.gate.crypt_k, g)
        BY DEF Inv, Bases, Based
  <2>5. /\ listenSock.addr \in {Resolves[host][i] : i \in DOMAIN Resolves[host]}
        /\ listenSock.port = uint16(get_uint(config, "lobby", "port"))
        BY DEF Inv, Listening, Bound
  <2> HIDE DEF told, x, g, OfPair
  <2>6. gate.result <=> told(2) = gate.n
        BY <2>1, <2>2
  <2>7. gate.result => told(3) = "" \/ OfPair(told(3))
        BY <2>1, <2>3
  <2>8. gate.result /\ whole.config => told(3) = Shared(gate.k, told(1))
        BY <2>1, <2>2, <2>4
  <2>9. config.lobby.extaddr = "" => told(4) = host
        BY <2>1
  <2>10. uint16(told(5)) # 0 => listenSock.port = uint16(told(5))
         BY <2>1, <2>5
  <2> QED BY <2>5, <2>6, <2>7, <2>8, <2>9, <2>10 DEF IniMatchesDaemon, told, OfPair
<1> QED BY <1>1, InvAlways, PTL
=============================================================================
