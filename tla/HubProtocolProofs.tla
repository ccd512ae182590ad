--------------------------- MODULE HubProtocolProofs ---------------------------
(***************************************************************************)
(* Theorems of HubProtocol, for every set of messages and every bound: the *)
(* lengths, how far the first messages reach and what they make, the layout *)
(* of one message, then the inductive invariant of the parser.             *)
(***************************************************************************)
EXTENDS HubProtocol, SequenceFacts

(* _to_varint. *)

\* One byte of a varint and what the rest of the number makes.
VarintOf(f, v) == IF v \div 128 = 0 THEN <<v % 128>> ELSE <<(v % 128) + 128>> \o f[v \div 128]

\* The rest of a number that is not below 128 is smaller.
LEMMA VarintSmaller ==
  ASSUME NEW v \in Nat
  PROVE  /\ v \div 128 \in Nat /\ v % 128 \in Nat
         /\ v \div 128 # 0 => v \div 128 < v
         /\ v < 128 => v \div 128 = 0 /\ v % 128 = v
         /\ v >= 128 => v \div 128 # 0
OBVIOUS

\* The recursion of _to_varint ends: the function it defines is there.
LEMMA VarintDefined ==
  /\ ToVarint \in [Nat -> Seq(Nat)]
  /\ \A v \in Nat : ToVarint[v] = VarintOf(ToVarint, v)
<1> DEFINE S == [Nat -> Seq(Nat)]
           Once(g) == [v \in Nat |-> VarintOf(g, v)]
           first == [v \in Nat |-> <<>>]
           rule == [n \in Nat |-> [g \in S |-> Once(g)]]
           solves(f) == f = [v \in Nat |-> VarintOf(f, v)]
<1>1. ASSUME NEW g \in S, NEW v \in Nat PROVE VarintOf(g, v) \in Seq(Nat)
  <2>1. g[v \div 128] \in Seq(Nat) /\ v % 128 \in Nat
    BY VarintSmaller
  <2>2. <<v % 128>> \in Seq(Nat) /\ <<(v % 128) + 128>> \in Seq(Nat)
    BY <2>1
  <2> HIDE DEF S
  <2> QED BY <2>1, <2>2 DEF VarintOf
<1>2. \A g \in S : Once(g) \in S
  BY <1>1
<1>3. first \in S /\ rule \in [Nat -> [S -> S]]
  <2>1. <<>> \in Seq(Nat)
    OBVIOUS
  <2>2. first \in S
    BY <2>1
  <2> HIDE DEF S, Once, first
  <2> QED BY <1>2, <2>2
<1> HIDE DEF first, rule, Once, S
<1>4. PICK F \in [Nat -> S] : Follows(F, first, rule)
  BY <1>3, Recursion
<1>5. ASSUME NEW n \in Nat PROVE F[n] \in S /\ F[n + 1] = Once(F[n])
  BY <1>4, <1>5 DEF Follows, rule
<1>6. ASSUME NEW n \in Nat, NEW v \in Nat
      PROVE  F[n + 1][v] = VarintOf(F[n], v)
  BY <1>5 DEF Once
<1>7. \A n \in Nat : \A v \in Nat : v < n => F[n + 1][v] = F[n][v]
  <2> DEFINE A == {n \in Nat : \A v \in Nat : v < n => F[n + 1][v] = F[n][v]}
  <2>1. 0 \in A
    OBVIOUS
  <2>2. ASSUME NEW n \in Nat, n \in A PROVE n + 1 \in A
    <3> SUFFICES ASSUME NEW v \in Nat, v < n + 1
                 PROVE  F[(n + 1) + 1][v] = F[n + 1][v]
      OBVIOUS
    <3>1. F[(n + 1) + 1][v] = VarintOf(F[n + 1], v) /\ F[n + 1][v] = VarintOf(F[n], v)
      <4>1. n + 1 \in Nat
        OBVIOUS
      <4> QED BY <1>6, <4>1
    <3>2. v \div 128 # 0 => F[n + 1][v \div 128] = F[n][v \div 128]
      <4>1. v \div 128 # 0 => v \div 128 \in Nat /\ v \div 128 < n
        BY VarintSmaller
      <4> QED BY <2>2, <4>1
    <3> QED BY <3>1, <3>2 DEF VarintOf
  <2> HIDE DEF A
  <2>3. Nat \subseteq A
    BY <2>1, <2>2, SetInduction
  <2> QED BY <2>3 DEF A
<1>8. \A w \in Nat : \A k \in Nat : F[(w + 1) + k][w] = F[w + 1][w]
  <2> TAKE w \in Nat
  <2> DEFINE A == {k \in Nat : F[(w + 1) + k][w] = F[w + 1][w]}
  <2>1. 0 \in A
    <3>1. (w + 1) + 0 = w + 1
      OBVIOUS
    <3> QED BY <3>1
  <2>2. ASSUME NEW k \in Nat, k \in A PROVE k + 1 \in A
    <3>1. (w + 1) + k \in Nat /\ w < (w + 1) + k /\ ((w + 1) + k) + 1 = (w + 1) + (k + 1)
      OBVIOUS
    <3>2. F[((w + 1) + k) + 1][w] = F[(w + 1) + k][w]
      BY <1>7, <3>1
    <3> QED BY <2>2, <3>1, <3>2
  <2> HIDE DEF A
  <2>3. Nat \subseteq A
    BY <2>1, <2>2, SetInduction
  <2> QED BY <2>3 DEF A
<1> DEFINE h == [v \in Nat |-> F[v + 1][v]]
<1>9. h \in S
  <2>1. ASSUME NEW v \in Nat PROVE F[v + 1][v] \in Seq(Nat)
    <3>1. v + 1 \in Nat
      OBVIOUS
    <3>2. F[v + 1] \in [Nat -> Seq(Nat)]
      BY <1>5, <3>1 DEF S
    <3> QED BY <3>2
  <2> QED BY <2>1 DEF S
<1>10. ASSUME NEW v \in Nat PROVE h[v] = VarintOf(h, v)
  <2>1. h[v] = VarintOf(F[v], v)
    BY <1>6
  <2>2. v \div 128 # 0 => F[v][v \div 128] = h[v \div 128]
    <3> SUFFICES ASSUME v \div 128 # 0 PROVE F[v][v \div 128] = F[(v \div 128) + 1][v \div 128]
      BY VarintSmaller
    <3> DEFINE w == v \div 128
               k == v - (w + 1)
    <3>1. w \in Nat /\ k \in Nat /\ (w + 1) + k = v
      BY VarintSmaller
    <3> HIDE DEF w, k
    <3>2. F[(w + 1) + k][w] = F[w + 1][w]
      BY <1>8, <3>1
    <3> QED BY <3>1, <3>2 DEF w
  <2> HIDE DEF h
  <2> QED BY <2>1, <2>2 DEF VarintOf
<1>11. solves(h)
  <2>1. h = [v \in Nat |-> h[v]]
    OBVIOUS
  <2> HIDE DEF h
  <2> QED BY <1>10, <2>1
<1>12. ToVarint = CHOOSE f : solves(f)
  BY DEF ToVarint, VarintOf
<1>13. solves(ToVarint)
  <2> HIDE DEF solves, h
  <2> QED BY <1>11, <1>12
<1>14. \A v \in Nat : ToVarint[v] = VarintOf(ToVarint, v)
  BY <1>13
<1>15. ToVarint \in [Nat -> Seq(Nat)]
  <2> DEFINE A == {n \in Nat : \A v \in Nat : v < n => ToVarint[v] \in Seq(Nat)}
  <2>1. 0 \in A
    OBVIOUS
  <2>2. ASSUME NEW n \in Nat, n \in A PROVE n + 1 \in A
    <3> SUFFICES ASSUME NEW v \in Nat, v < n + 1 PROVE ToVarint[v] \in Seq(Nat)
      OBVIOUS
    <3>1. v % 128 \in Nat /\ (v \div 128 # 0 => ToVarint[v \div 128] \in Seq(Nat))
      <4>1. v \div 128 # 0 => v \div 128 \in Nat /\ v \div 128 < n
        BY VarintSmaller
      <4> QED BY <2>2, <4>1, VarintSmaller
    <3>2. <<v % 128>> \in Seq(Nat) /\ <<(v % 128) + 128>> \in Seq(Nat)
      BY <3>1
    <3>3. VarintOf(ToVarint, v) \in Seq(Nat)
      BY <3>1, <3>2 DEF VarintOf
    <3> QED BY <1>14, <3>3
  <2>3. Nat \subseteq A
    <3> HIDE DEF A
    <3> QED BY <2>1, <2>2, SetInduction
  <2>4. ASSUME NEW v \in Nat PROVE ToVarint[v] \in Seq(Nat)
    <3>1. v + 1 \in Nat /\ v < v + 1
      OBVIOUS
    <3>2. v + 1 \in A
      <4> HIDE DEF A
      <4> QED BY <2>3, <3>1
    <3> QED BY <3>1, <3>2
  <2>5. ToVarint = [v \in Nat |-> VarintOf(ToVarint, v)]
    BY <1>13
  <2> HIDE DEF A
  <2> QED BY <2>4, <2>5
<1> QED BY <1>14, <1>15

\* A number below 128 is one byte; of another the first byte is 128 or more.
LEMMA VarintBytes ==
  ASSUME NEW v \in Nat
  PROVE  /\ ToVarint[v] \in Seq(Nat) /\ Len(ToVarint[v]) \in Nat
         /\ v < 128 => Len(ToVarint[v]) = 1 /\ ToVarint[v][1] = v
         /\ v >= 128 => ToVarint[v][1] >= 128
         /\ ToVarint[v][1] \in Nat
<1>1. ToVarint[v] \in Seq(Nat) /\ Len(ToVarint[v]) \in Nat
  BY VarintDefined
<1>2. ASSUME v < 128 PROVE Len(ToVarint[v]) = 1 /\ ToVarint[v][1] = v
  <2>1. v \div 128 = 0 /\ v % 128 = v
    BY <1>2, VarintSmaller
  <2>2. VarintOf(ToVarint, v) = <<v>>
    BY <2>1 DEF VarintOf
  <2>3. ToVarint[v] = <<v>>
    BY <2>2, VarintDefined
  <2> QED BY <2>3
<1>3. ASSUME v >= 128 PROVE ToVarint[v][1] >= 128 /\ ToVarint[v][1] \in Nat
  <2> DEFINE t == ToVarint[v \div 128]
             b == v % 128
  <2>1. ToVarint[v] = <<b + 128>> \o t
    BY <1>3, VarintDefined, VarintSmaller DEF VarintOf
  <2>2. t \in Seq(Nat) /\ b \in Nat
    BY VarintDefined, VarintSmaller
  <2> HIDE DEF t, b
  <2>3. (<<b + 128>> \o t)[1] = b + 128
    BY <2>2
  <2> QED BY <2>1, <2>2, <2>3
<1> QED BY <1>1, <1>2, <1>3
-----------------------------------------------------------------------------
(* How far the first elements of a sequence reach, and what they make. *)

\* An element of a sequence is what the sequence is of.
LEMMA ElementTyped ==
  ASSUME NEW S
  PROVE  \A s : s \in Seq(S) => \A i \in 1..Len(s) : s[i] \in S
OBVIOUS

\* Each sum adds a number to the one before.
LEMMA SumsGrow ==
  ASSUME NEW s \in Seq(Nat)
  PROVE  /\ \A n \in 0..Len(s) : Sums(s)[n] \in Nat
         /\ Sums(s)[0] = 0
         /\ \A n \in 1..Len(s) : Sums(s)[n] = Sums(s)[n - 1] + s[n]
<1> DEFINE E(n, x) == IF n <= Len(s) THEN x + s[n] ELSE x
           rule == [n \in Nat |-> [x \in Nat |-> E(n + 1, x)]]
           sums(f) == f = [n \in 0..Len(s) |-> IF n = 0 THEN 0 ELSE f[n - 1] + s[n]]
<1>1. 0 \in Nat /\ rule \in [Nat -> [Nat -> Nat]]
  OBVIOUS
<1>2. PICK f \in [Nat -> Nat] : Follows(f, 0, rule)
  <2> HIDE DEF rule
  <2> QED BY <1>1, Recursion
<1>3. f[0] = 0 /\ \A n \in Nat : f[n + 1] = E(n + 1, f[n])
  BY <1>2 DEF Follows
<1>4. \A n \in 1..Len(s) : f[n] = f[n - 1] + s[n]
  <2> TAKE n \in 1..Len(s)
  <2>1. n - 1 \in Nat /\ (n - 1) + 1 = n /\ n <= Len(s)
    OBVIOUS
  <2>2. f[(n - 1) + 1] = E((n - 1) + 1, f[n - 1])
    BY <1>3, <2>1
  <2> QED BY <2>1, <2>2
<1> DEFINE g == [n \in 0..Len(s) |-> f[n]]
<1>5. sums(g)
  <2>1. \A n \in 0..Len(s) : n # 0 => n \in 1..Len(s) /\ n - 1 \in 0..Len(s)
    OBVIOUS
  <2> QED BY <1>3, <1>4, <2>1
<1>6. Sums(s) = CHOOSE h : sums(h)
  BY DEF Sums
<1>7. sums(Sums(s))
  <2> HIDE DEF sums, g
  <2> QED BY <1>5, <1>6
<1>8. Sums(s)[0] = 0 /\ \A n \in 1..Len(s) : Sums(s)[n] = Sums(s)[n - 1] + s[n]
  <2> DEFINE t == Sums(s)
  <2>1. t = [n \in 0..Len(s) |-> IF n = 0 THEN 0 ELSE t[n - 1] + s[n]]
    BY <1>7
  <2> HIDE DEF t
  <2>2. 0 \in 0..Len(s) /\ \A n \in 1..Len(s) : n \in 0..Len(s) /\ n # 0
    OBVIOUS
  <2>3. t[0] = 0
    BY <2>1, <2>2
  <2>4. \A n \in 1..Len(s) : t[n] = t[n - 1] + s[n]
    BY <2>1, <2>2
  <2> QED BY <2>3, <2>4 DEF t
<1>9. \A n \in 0..Len(s) : Sums(s)[n] \in Nat
  <2> DEFINE A == {n \in Nat : n <= Len(s) => Sums(s)[n] \in Nat}
  <2>1. 0 \in A
    BY <1>8
  <2>2. ASSUME NEW n \in Nat, n \in A PROVE n + 1 \in A
    <3> SUFFICES ASSUME n + 1 <= Len(s) PROVE Sums(s)[n + 1] \in Nat
      OBVIOUS
    <3>1. n + 1 \in 1..Len(s) /\ (n + 1) - 1 = n /\ Sums(s)[n] \in Nat
      BY <2>2
    <3> DEFINE k == n + 1
               x == Sums(s)[n]
               y == s[k]
    <3>2. Sums(s)[k] = x + y
      BY <1>8, <3>1
    <3>3. y \in Nat
      <4>1. k \in 1..Len(s)
        BY <3>1
      <4> HIDE DEF k
      <4> QED BY <4>1, ElementTyped
    <3>4. x \in Nat
      BY <3>1
    <3> HIDE DEF x, y, k
    <3>5. x + y \in Nat
      BY <3>3, <3>4
    <3> QED BY <3>2, <3>5 DEF k
  <2> HIDE DEF A
  <2>3. Nat \subseteq A
    BY <2>1, <2>2, SetInduction
  <2> QED BY <2>3 DEF A
<1> QED BY <1>8, <1>9

\* Where all numbers are positive, no two sums are the same.
LEMMA SumsDiffer ==
  ASSUME NEW s \in Seq(Nat), \A i \in 1..Len(s) : s[i] > 0
  PROVE  \A m, n \in 0..Len(s) : m < n => Sums(s)[m] < Sums(s)[n]
<1> SUFFICES ASSUME NEW m \in 0..Len(s) PROVE \A n \in 0..Len(s) : m < n => Sums(s)[m] < Sums(s)[n]
  OBVIOUS
<1> DEFINE A == {n \in Nat : n <= Len(s) /\ m < n => Sums(s)[m] < Sums(s)[n]}
<1>1. 0 \in A
  OBVIOUS
<1>2. ASSUME NEW n \in Nat, n \in A PROVE n + 1 \in A
  <2> SUFFICES ASSUME n + 1 <= Len(s), m < n + 1 PROVE Sums(s)[m] < Sums(s)[n + 1]
    OBVIOUS
  <2>1. n \in 0..Len(s) /\ n + 1 \in 1..Len(s) /\ (n + 1) - 1 = n /\ s[n + 1] \in Nat /\ s[n + 1] > 0
    OBVIOUS
  <2>2. Sums(s)[n + 1] = Sums(s)[n] + s[n + 1] /\ Sums(s)[n] \in Nat /\ Sums(s)[m] \in Nat
    BY <2>1, SumsGrow
  <2>3. m = n \/ Sums(s)[m] < Sums(s)[n]
    BY <1>2
  <2> QED BY <2>1, <2>2, <2>3
<1> HIDE DEF A
<1>3. Nat \subseteq A
  BY <1>1, <1>2, SetInduction
<1> QED BY <1>3 DEF A

\* Each element is put behind what those before it make.
LEMMA JoinsGrow ==
  ASSUME NEW S, NEW s \in Seq(Seq(S))
  PROVE  /\ \A n \in 0..Len(s) : Joins(s)[n] \in Seq(S)
         /\ Joins(s)[0] = <<>>
         /\ \A n \in 1..Len(s) : Joins(s)[n] = Joins(s)[n - 1] \o s[n]
<1> DEFINE Q == Seq(S)
           E(n, x) == IF n <= Len(s) THEN x \o s[n] ELSE x
           rule == [n \in Nat |-> [x \in Q |-> E(n + 1, x)]]
           joins(f) == f = [n \in 0..Len(s) |-> IF n = 0 THEN <<>> ELSE f[n - 1] \o s[n]]
<1>1. <<>> \in Q /\ rule \in [Nat -> [Q -> Q]]
  <2>1. <<>> \in Q /\ \A x, y \in Q : x \o y \in Q
    OBVIOUS
  <2>2. s \in Seq(Q)
    OBVIOUS
  <2> HIDE DEF Q
  <2>3. \A n \in Nat : n + 1 <= Len(s) => s[n + 1] \in Q
    BY <2>2
  <2>4. \A n \in Nat : \A x \in Q : E(n + 1, x) \in Q
    BY <2>1, <2>3
  <2> QED BY <2>1, <2>4
<1> DEFINE nothing == <<>>
<1>2. PICK f \in [Nat -> Q] : Follows(f, nothing, rule)
  <2> HIDE DEF rule, Q, nothing
  <2>1. nothing \in Q
    BY <1>1 DEF nothing
  <2> QED BY <1>1, <2>1, Recursion
<1>3. f[0] = <<>> /\ \A n \in Nat : f[n + 1] = E(n + 1, f[n])
  <2> HIDE DEF E, Q
  <2> QED BY <1>2 DEF Follows
<1>4. \A n \in 1..Len(s) : f[n] = f[n - 1] \o s[n]
  <2> TAKE n \in 1..Len(s)
  <2>1. n - 1 \in Nat /\ (n - 1) + 1 = n /\ n <= Len(s)
    OBVIOUS
  <2>2. f[(n - 1) + 1] = E((n - 1) + 1, f[n - 1])
    <3> HIDE DEF E, Q
    <3> QED BY <1>3, <2>1
  <2> HIDE DEF Q
  <2> QED BY <2>1, <2>2
<1> DEFINE g == [n \in 0..Len(s) |-> f[n]]
<1>5. joins(g)
  <2>1. \A n \in 0..Len(s) : n # 0 => n \in 1..Len(s) /\ n - 1 \in 0..Len(s)
    OBVIOUS
  <2> HIDE DEF Q
  <2> QED BY <1>3, <1>4, <2>1
<1>6. Joins(s) = CHOOSE h : joins(h)
  BY DEF Joins
<1>7. joins(Joins(s))
  <2> HIDE DEF joins, g
  <2> QED BY <1>5, <1>6
<1>8. Joins(s)[0] = <<>> /\ \A n \in 1..Len(s) : Joins(s)[n] = Joins(s)[n - 1] \o s[n]
  <2> DEFINE t == Joins(s)
  <2>1. t = [n \in 0..Len(s) |-> IF n = 0 THEN <<>> ELSE t[n - 1] \o s[n]]
    BY <1>7
  <2> HIDE DEF t
  <2>2. 0 \in 0..Len(s) /\ \A n \in 1..Len(s) : n \in 0..Len(s) /\ n # 0
    OBVIOUS
  <2>3. t[0] = <<>>
    BY <2>1, <2>2
  <2>4. \A n \in 1..Len(s) : t[n] = t[n - 1] \o s[n]
    BY <2>1, <2>2
  <2> QED BY <2>3, <2>4 DEF t
<1>9. \A n \in 0..Len(s) : Joins(s)[n] \in Seq(S)
  <2> DEFINE A == {n \in Nat : n <= Len(s) => Joins(s)[n] \in Q}
  <2>1. 0 \in A
    BY <1>8, <1>1
  <2>2. ASSUME NEW n \in Nat, n \in A PROVE n + 1 \in A
    <3> SUFFICES ASSUME n + 1 <= Len(s) PROVE Joins(s)[n + 1] \in Q
      OBVIOUS
    <3>1. n + 1 \in 1..Len(s) /\ (n + 1) - 1 = n /\ Joins(s)[n] \in Q
      BY <2>2
    <3>2. s[n + 1] \in Q
      BY <3>1
    <3>3. \A x, y \in Q : x \o y \in Q
      OBVIOUS
    <3> HIDE DEF Q
    <3>4. Joins(s)[n] \o s[n + 1] \in Q
      BY <3>1, <3>2, <3>3
    <3> QED BY <1>8, <3>1, <3>4
  <2>3. Nat \subseteq A
    <3> HIDE DEF A
    <3> QED BY <2>1, <2>2, SetInduction
  <2> QED BY <2>3
<1> QED BY <1>8, <1>9
-----------------------------------------------------------------------------
(* One message. *)

\* The fields of a message of the hub.
LEMMA MessageTyped ==
  ASSUME NEW m \in HubMessages
  PROVE  /\ m.type \in Int /\ m.elements \in Nat /\ m.kind \in Nat
         /\ m.streams \in BOOLEAN /\ m.size \in Nat /\ m.size > 0
<1>1. m \in WireMessage
  BY HubProtocolAssumption
<1> QED BY <1>1 DEF WireMessage

\* Every message takes some room in its frame.
LEMMA WidthTyped ==
  ASSUME NEW m \in HubMessages
  PROVE  Width(m) \in Nat /\ Width(m) > 0
<1>1. Len(ToVarint[m.size]) \in Nat
  BY MessageTyped, VarintBytes
<1> QED BY <1>1, MessageTyped DEF Width

\* Where the parser reads a message at all, it goes on behind it: a length
\* that is read as one byte is one byte.
LEMMA NextIsBehind ==
  ASSUME NEW m \in HubMessages, Decodes(m), offset \in Nat, protocol \in Protocols
  PROVE  NextOffset(m) = offset + Width(m)
<1> DEFINE b == ToVarint[m.size]
<1>1. /\ Len(b) \in Nat /\ b \in Seq(Nat)
      /\ m.size < 128 => Len(b) = 1 /\ b[1] = m.size
      /\ m.size >= 128 => b[1] >= 128
      /\ b[1] \in Nat
  BY MessageTyped, VarintBytes
<1>2. m.size \in Nat
  BY MessageTyped
<1>3. protocol # "json" => m.size < 128
  <2> SUFFICES ASSUME protocol # "json", m.size >= 128 PROVE FALSE
    BY <1>2
  <2>1. ~Unpacks(m)
    <3>1. protocol = "messagepack" /\ b[1] >= 128 /\ ~(b[1] < 128)
      <4>1. b[1] >= 128 /\ b[1] \in Nat
        BY <1>1
      <4> QED BY <4>1 DEF Protocols
    <3> QED BY <3>1 DEF Unpacks
  <2> QED BY <2>1 DEF Decodes, Skipped
<1>4. CASE protocol = "json"
  BY <1>4 DEF NextOffset, Width
<1>5. CASE protocol # "json"
  <2>1. Len(b) = 1 /\ b[1] = m.size
    BY <1>1, <1>3, <1>5
  <2>2. Width(m) = Len(b) + m.size /\ NextOffset(m) = offset + b[1] + 1
    BY <1>5 DEF NextOffset, Width
  <2> HIDE DEF b
  <2> QED BY <1>2, <2>1, <2>2
<1> QED BY <1>4, <1>5

\* All that can be made of messages, decodable or not.
Makings == {Decoded(m) : m \in HubMessages}

\* A message means one decoded message, or none.
LEMMA MeaningTyped ==
  ASSUME NEW m \in HubMessages
  PROVE  /\ Meaning(m) \in Seq(Makings)
         /\ Decodes(m) => Meaning(m) \in Seq(DecodedMessages)
<1>1. Decoded(m) \in Makings
  BY DEF Makings
<1>2. ASSUME Known(m) PROVE Decoded(m) \in DecodedMessages
  BY <1>2, MessageTyped DEF Known, Decoded, DecodedMessages, MessageTypes, Documented
<1>3. ASSUME NEW S, NEW e \in S PROVE <<>> \in Seq(S) /\ <<e>> \in Seq(S)
  OBVIOUS
<1> HIDE DEF Makings
<1> QED BY <1>1, <1>2, <1>3 DEF Meaning, Decodes

\* A message that keeps to the documented layout is decoded.
LEMMA ConformingDecodes ==
  ASSUME NEW m \in HubMessages, Conforms(m), protocol \in Protocols
  PROVE  Decodes(m)
<1>1. m.type \in 1..7 /\ m.type \in MessageTypes
  BY DEF Conforms, MessageTypes, Documented
<1>2. Unpacks(m)
  <2>1. ToVarint[m.size][1] = m.size
    BY MessageTyped, VarintBytes DEF Conforms
  <2> QED BY <2>1 DEF Unpacks, Conforms
<1>3. Known(m)
  BY <1>1 DEF Known, Conforms
<1>4. m.elements >= ElementsRead(m)
  <2>1. /\ Len(Documented[1]) = 6 /\ Len(Documented[2]) = 4 /\ Len(Documented[3]) = 5
        /\ Len(Documented[4]) = 6 /\ Len(Documented[5]) = 3 /\ Len(Documented[6]) = 1
        /\ Len(Documented[7]) = 2
    BY DEF Documented
  <2>2. /\ m.type = 1 => m.elements = 6
        /\ m.type = 2 => m.elements = 4
        /\ m.type = 3 => m.elements = IF m.kind = 2 THEN 4 ELSE 5
        /\ m.type = 4 => m.elements = 6
        /\ m.type = 5 => m.elements = 3
        /\ m.type = 6 => m.elements = 1
        /\ m.type = 7 => m.elements = 2
    BY <2>1 DEF Conforms
  <2> QED BY <1>1, <2>2 DEF ElementsRead
<1> QED BY <1>2, <1>3, <1>4 DEF Decodes
-----------------------------------------------------------------------------
(* One body. *)

\* Where the messages of a body begin.
LEMMA StartsGrow ==
  ASSUME NEW body \in Seq(HubMessages)
  PROVE  /\ \A i \in 1..(Len(body) + 1) : Start(body, i) \in Nat
         /\ Start(body, 1) = 0
         /\ \A i \in 1..Len(body) : Start(body, i + 1) = Start(body, i) + Width(body[i])
         /\ \A i, j \in 1..(Len(body) + 1) : i < j => Start(body, i) < Start(body, j)
<1> DEFINE s == [i \in DOMAIN body |-> Width(body[i])]
<1>1. DOMAIN body = 1..Len(body) /\ Len(body) \in Nat /\ \A i \in 1..Len(body) : body[i] \in HubMessages
  OBVIOUS
<1>2. \A i \in 1..Len(body) : s[i] = Width(body[i]) /\ s[i] \in Nat /\ s[i] > 0
  BY <1>1, WidthTyped
<1>3. s \in Seq(Nat) /\ Len(s) = Len(body)
  BY <1>1, <1>2
<1> HIDE DEF s
<1>4. /\ \A n \in 0..Len(s) : Sums(s)[n] \in Nat
      /\ Sums(s)[0] = 0
      /\ \A n \in 1..Len(s) : Sums(s)[n] = Sums(s)[n - 1] + s[n]
  BY <1>3, SumsGrow
<1>5. \A m, n \in 0..Len(s) : m < n => Sums(s)[m] < Sums(s)[n]
  BY <1>2, <1>3, SumsDiffer
<1>6. \A i : Start(body, i) = Sums(s)[i - 1]
  BY DEF Start, Reach, s
<1>7. /\ \A i \in 1..(Len(body) + 1) : i - 1 \in 0..Len(s)
      /\ \A i, j \in 1..(Len(body) + 1) : i < j => i - 1 < j - 1
      /\ \A i \in 1..Len(body) : i \in 1..Len(s) /\ (i + 1) - 1 = i
      /\ 1 - 1 = 0
  BY <1>1, <1>3
<1>8. \A i \in 1..(Len(body) + 1) : Start(body, i) \in Nat
  BY <1>4, <1>6, <1>7
<1>9. Start(body, 1) = 0
  BY <1>4, <1>6, <1>7
<1>10. \A i \in 1..Len(body) : Start(body, i + 1) = Start(body, i) + Width(body[i])
  <2> TAKE i \in 1..Len(body)
  <2>1. Start(body, i + 1) = Sums(s)[i] /\ Start(body, i) = Sums(s)[i - 1]
    BY <1>6, <1>7
  <2>2. Sums(s)[i] = Sums(s)[i - 1] + s[i]
    BY <1>4, <1>7
  <2> QED BY <1>2, <2>1, <2>2
<1>11. \A i, j \in 1..(Len(body) + 1) : i < j => Start(body, i) < Start(body, j)
  BY <1>5, <1>6, <1>7
<1> QED BY <1>8, <1>9, <1>10, <1>11

\* What the messages of a body make.
LEMMA MadeGrows ==
  ASSUME NEW body \in Seq(HubMessages)
  PROVE  /\ Made(body)[0] = <<>>
         /\ \A i \in 1..Len(body) : Made(body)[i] = Made(body)[i - 1] \o Meaning(body[i])
<1> DEFINE s == [i \in DOMAIN body |-> Meaning(body[i])]
           Q == Seq(Makings)
<1>1. DOMAIN body = 1..Len(body) /\ Len(body) \in Nat /\ \A i \in 1..Len(body) : body[i] \in HubMessages
  OBVIOUS
<1>2. \A i \in 1..Len(body) : s[i] = Meaning(body[i]) /\ s[i] \in Q
  BY <1>1, MeaningTyped
<1> HIDE DEF Q
<1>3. s \in Seq(Q) /\ Len(s) = Len(body)
  BY <1>1, <1>2
<1> HIDE DEF s
<1>4. Joins(s)[0] = <<>> /\ \A n \in 1..Len(s) : Joins(s)[n] = Joins(s)[n - 1] \o s[n]
  BY <1>3, JoinsGrow DEF Q
<1>5. Made(body) = Joins(s)
  BY DEF Made, s
<1> QED BY <1>2, <1>3, <1>4, <1>5

\* The parser goes over a body in the protocol of the connection.
LEMMA SameProtocol ==
  ASSUME protocol' = protocol
  PROVE  \A body : /\ \A i : Start(body, i)' = Start(body, i)
                   /\ Made(body)' = Made(body)
<1> TAKE body
<1>1. \A m : Width(m)' = Width(m) /\ Meaning(m)' = Meaning(m)
  BY DEF Width, Meaning, Skipped, Decoded
<1>2. [i \in DOMAIN body |-> Width(body[i])]' = [i \in DOMAIN body |-> Width(body[i])]
  BY <1>1
<1>3. [i \in DOMAIN body |-> Meaning(body[i])]' = [i \in DOMAIN body |-> Meaning(body[i])]
  BY <1>1
<1> QED BY <1>2, <1>3 DEF Start, Reach, Made
-----------------------------------------------------------------------------
(* The inductive invariant of the parser. *)

\* Each frame that is done with, and what on_message got of it.
Entries == [frame : Frames, got : {Dropped} \cup Seq(DecodedMessages)]

\* The handshake's frame is the first one, wherever it is.
HandshakeFirst ==
  /\ \A i \in 1..Len(network) : network[i].handshake => i = 1 /\ log = <<>> /\ frame = <<>>
  /\ log = <<>> /\ frame = <<>> /\ network # <<>> => network[1].handshake
  /\ log = <<>> /\ frame # <<>> => Head(frame).handshake

ParserInv ==
  /\ TypeOK
  /\ log \in Seq(Entries)
  /\ HandshakeFirst
  /\ Shaken => handshake_received
  /\ Aligned
  /\ AllOrNothing
  /\ NoneDropped

\* The frame in the parser, and its body.
LEMMA FrameTyped ==
  ASSUME TypeOK, frame # <<>>
  PROVE  /\ Len(frame) = 1 /\ Head(frame) \in Frames
         /\ Body \in Seq(HubMessages) /\ Len(Body) \in Nat
         /\ \A i \in 1..Len(Body) : Body[i] \in HubMessages
<1>1. Len(frame) = 1 /\ Head(frame) \in Frames
  <2>1. ASSUME NEW S, NEW s \in Seq(S), s # <<>>, Len(s) <= 1
        PROVE  Len(s) = 1 /\ Head(s) \in S
    <3> DEFINE n == Len(s)
    <3>1. n \in Nat /\ n # 0 /\ n <= 1
      BY <2>1, EmptySeq
    <3>2. n = 1
      <4> HIDE DEF n
      <4> QED BY <3>1
    <3> QED BY <2>1, <3>2
  <2> QED BY <2>1 DEF TypeOK
<1>2. Body \in Seq(HubMessages)
  BY <1>1 DEF Body, Frames
<1>3. \A s : s \in Seq(HubMessages) => Len(s) \in Nat /\ \A i \in 1..Len(s) : s[i] \in HubMessages
  OBVIOUS
<1> QED BY <1>1, <1>2, <1>3

\* The frame that comes in next, and those behind it.
LEMMA NetworkTyped ==
  ASSUME TypeOK, network # <<>>
  PROVE  /\ Head(network) \in Frames /\ <<Head(network)>> \in Seq(Frames)
         /\ Head(network) = network[1] /\ 1 \in 1..Len(network)
         /\ Tail(network) \in Seq(Frames) /\ Len(Tail(network)) = Len(network) - 1
         /\ \A i \in 1..Len(Tail(network)) : Tail(network)[i] = network[i + 1] /\ i + 1 \in 1..Len(network)
<1>1. ASSUME NEW S, NEW s \in Seq(S), s # <<>>
      PROVE  /\ Head(s) \in S /\ <<Head(s)>> \in Seq(S)
             /\ Head(s) = s[1] /\ 1 \in 1..Len(s)
             /\ Tail(s) \in Seq(S) /\ Len(Tail(s)) = Len(s) - 1
             /\ \A i \in 1..Len(Tail(s)) : Tail(s)[i] = s[i + 1] /\ i + 1 \in 1..Len(s)
  BY <1>1
<1>2. network \in Seq(Frames)
  BY DEF TypeOK
<1> QED BY <1>1, <1>2

\* An entry behind the log, and what that is to Shaken.
LEMMA LogTyped ==
  ASSUME log \in Seq(Entries), NEW e \in Entries, log' = Append(log, e)
  PROVE  /\ log' \in Seq(Entries) /\ log' # <<>>
         /\ DOMAIN log' = DOMAIN log \cup {Len(log) + 1} /\ log'[Len(log) + 1] = e
         /\ \A i \in DOMAIN log : log'[i] = log[i]
         /\ log = <<>> => DOMAIN log = {} /\ (Shaken' <=> e.got # Dropped)
         /\ log # <<>> => (Shaken' <=> Shaken)
<1>1. ASSUME NEW S, NEW s \in Seq(S), NEW d \in S, NEW t, t = Append(s, d)
      PROVE  /\ t \in Seq(S) /\ t # <<>>
             /\ DOMAIN t = DOMAIN s \cup {Len(s) + 1} /\ t[Len(s) + 1] = d
             /\ \A i \in DOMAIN s : t[i] = s[i]
             /\ s = <<>> => DOMAIN s = {} /\ t[1] = d
             /\ s # <<>> => t[1] = s[1]
  BY <1>1
<1>2. /\ log' \in Seq(Entries) /\ log' # <<>>
      /\ DOMAIN log' = DOMAIN log \cup {Len(log) + 1} /\ log'[Len(log) + 1] = e
      /\ \A i \in DOMAIN log : log'[i] = log[i]
      /\ log = <<>> => DOMAIN log = {} /\ log'[1] = e
      /\ log # <<>> => log'[1] = log[1]
  <2> HIDE DEF Entries
  <2> QED BY <1>1
<1> QED BY <1>2 DEF Shaken

\* What the log says stays true while nothing is added to it.
LEMMA LogStays ==
  ASSUME AllOrNothing, NoneDropped, protocol' = protocol, log' = log
  PROVE  AllOrNothing' /\ NoneDropped' /\ (Shaken' <=> Shaken)
<1>1. Shaken' <=> Shaken
  BY DEF Shaken
<1>2. \A body : Meanings(body)' = Meanings(body)
  BY SameProtocol DEF Meanings
<1>3. AllOrNothing'
  BY <1>1, <1>2 DEF AllOrNothing
<1>4. NoneDropped'
  BY <1>1 DEF NoneDropped
<1> QED BY <1>1, <1>3, <1>4

\* It stays true when an entry is added that keeps to it.
LEMMA LogGrows ==
  ASSUME log \in Seq(Entries), NEW e \in Entries, log' = Append(log, e),
         AllOrNothing, NoneDropped, protocol' = protocol,
         Shaken' => e.got \in {Dropped, Meanings(e.frame.body)},
         Shaken' /\ (\A j \in DOMAIN e.frame.body : Conforms(e.frame.body[j])) => e.got # Dropped
  PROVE  AllOrNothing' /\ NoneDropped'
<1>1. /\ DOMAIN log' = DOMAIN log \cup {Len(log) + 1} /\ log'[Len(log) + 1] = e
      /\ \A i \in DOMAIN log : log'[i] = log[i]
      /\ log = <<>> => DOMAIN log = {}
      /\ log # <<>> => (Shaken' <=> Shaken)
  BY LogTyped
<1>2. \A body : Meanings(body)' = Meanings(body)
  BY SameProtocol DEF Meanings
<1>3. ASSUME NEW i \in DOMAIN log', Shaken'
      PROVE  /\ log'[i].got \in {Dropped, Meanings(log'[i].frame.body)}
             /\ (\A j \in DOMAIN log'[i].frame.body : Conforms(log'[i].frame.body[j])) => log'[i].got # Dropped
  <2>1. CASE i \in DOMAIN log
    <3>1. Shaken /\ log'[i] = log[i]
      BY <1>1, <1>3, <2>1
    <3> QED BY <2>1, <3>1 DEF AllOrNothing, NoneDropped
  <2>2. CASE i = Len(log) + 1
    BY <1>1, <1>3, <2>2
  <2> QED BY <1>1, <1>3, <2>1, <2>2
<1>4. AllOrNothing'
  BY <1>2, <1>3 DEF AllOrNothing
<1>5. NoneDropped'
  BY <1>3 DEF NoneDropped
<1> QED BY <1>4, <1>5
-----------------------------------------------------------------------------
(* The parser's steps. *)

\* The parser is at one message, or behind the last.
LEMMA AtOne ==
  ASSUME TypeOK, Aligned, frame # <<>>, Shaken \/ Head(frame).handshake
  PROVE  \E k \in 1..(Len(Body) + 1) :
           /\ offset = Start(Body, k) /\ messages = Made(Body)[k - 1]
           /\ AtEnd => k = Len(Body) + 1
           /\ ~AtEnd => k \in 1..Len(Body) /\ At = {k}
<1>1. PICK k \in 1..(Len(Body) + 1) : offset = Start(Body, k) /\ messages = Made(Body)[k - 1]
  BY DEF Aligned
<1> DEFINE body == Body
<1>2. body \in Seq(HubMessages) /\ Len(body) \in Nat /\ DOMAIN body = 1..Len(body)
  BY FrameTyped
<1> HIDE DEF body
<1>3. /\ \A i \in 1..(Len(body) + 1) : Start(body, i) \in Nat
      /\ \A i, j \in 1..(Len(body) + 1) : i < j => Start(body, i) < Start(body, j)
  BY <1>2, StartsGrow
<1>4. \A i \in 1..(Len(body) + 1) : i # k => Start(body, i) # Start(body, k)
  BY <1>1, <1>2, <1>3 DEF body
<1>5. AtEnd <=> Start(body, k) >= Start(body, Len(body) + 1)
  BY <1>1 DEF AtEnd, body
<1>6. Len(body) + 1 \in 1..(Len(body) + 1) /\ k \in 1..(Len(body) + 1)
  BY <1>1, <1>2 DEF body
<1>7. AtEnd => k = Len(body) + 1
  BY <1>2, <1>3, <1>5, <1>6
<1>8. ASSUME ~AtEnd PROVE k \in 1..Len(body) /\ At = {k}
  <2>1. k # Len(body) + 1
    BY <1>3, <1>5, <1>6, <1>8
  <2>2. k \in 1..Len(body)
    BY <1>2, <1>6, <2>1
  <2>3. At = {i \in 1..Len(body) : Start(body, i) = Start(body, k)}
    BY <1>1, <1>2 DEF At, body
  <2>4. \A i \in 1..Len(body) : i \in 1..(Len(body) + 1)
    BY <1>2
  <2> QED BY <1>4, <2>2, <2>3, <2>4
<1> QED BY <1>1, <1>7, <1>8 DEF body

\* A message that is parsed takes the parser to the next, with what it means.
LEMMA ParseAligned ==
  ASSUME TypeOK, Aligned, frame # <<>>, Parse
  PROVE  Aligned'
<1> SUFFICES ASSUME (Shaken \/ Head(frame).handshake)'
             PROVE  \E k \in 1..(Len(Body) + 1) :
                      offset' = Start(Body, k)' /\ messages' = Made(Body)'[k - 1]
  <2>1. frame' = frame
    BY DEF Parse
  <2> QED BY <2>1 DEF Aligned, Body
<1>1. Shaken \/ Head(frame).handshake
  BY DEF Parse, Shaken
<1>2. PICK k \in 1..(Len(Body) + 1) :
        /\ offset = Start(Body, k) /\ messages = Made(Body)[k - 1]
        /\ k \in 1..Len(Body) /\ At = {k}
  BY <1>1, AtOne DEF Parse
<1> DEFINE body == Body
           m == body[k]
<1>3. /\ body \in Seq(HubMessages) /\ Len(body) \in Nat /\ m \in HubMessages
      /\ offset \in Nat /\ protocol \in Protocols
  BY <1>2, FrameTyped DEF TypeOK
<1>4. Decodes(m) /\ messages' = messages \o Meaning(m) /\ offset' = NextOffset(m)
  BY <1>2 DEF Parse
<1>5. k \in 1..Len(body)
  BY <1>2
<1> HIDE DEF body
<1>6. offset' = Start(body, k + 1)
  <2>1. NextOffset(m) = offset + Width(m)
    BY <1>3, <1>4, NextIsBehind
  <2>2. Start(body, k + 1) = Start(body, k) + Width(m)
    BY <1>3, <1>5, StartsGrow
  <2> QED BY <1>2, <1>4, <2>1, <2>2 DEF body
<1>7. messages' = Made(body)[k]
  <2>1. Made(body)[k] = Made(body)[k - 1] \o Meaning(m)
    BY <1>3, <1>5, MadeGrows
  <2> QED BY <1>2, <1>4, <2>1 DEF body
<1>8. Start(body, k + 1)' = Start(body, k + 1) /\ Made(body)' = Made(body)
  <2>1. protocol' = protocol /\ body' = body
    BY DEF Parse, Body, body
  <2> QED BY <2>1, SameProtocol
<1>9. k + 1 \in 1..(Len(body) + 1) /\ (k + 1) - 1 = k
  BY <1>3, <1>5
<1> QED BY <1>6, <1>7, <1>8, <1>9 DEF body

\* What has nothing to do with the parser leaves it where it is.
LEMMA AlignedStays ==
  ASSUME Aligned, protocol' = protocol, log' = log, parserVars' = parserVars
  PROVE  Aligned'
<1>1. frame' = frame /\ offset' = offset /\ messages' = messages
  BY DEF parserVars
<1>2. \A body : /\ \A i : Start(body, i)' = Start(body, i)
                /\ Made(body)' = Made(body)
  BY SameProtocol
<1> QED BY <1>1, <1>2 DEF Aligned, Body, Shaken
-----------------------------------------------------------------------------
\* Every connection begins with the invariant.
LEMMA ParserInit == ASSUME Init PROVE ParserInv
<1>1. /\ protocol \in Protocols /\ handshake_received = FALSE
      /\ network = <<>> /\ frame = <<>> /\ offset = 0 /\ messages = <<>> /\ log = <<>> /\ encoded = None
  BY DEF Init
<1>2. ASSUME NEW S, NEW s, s = <<>>
      PROVE  s \in Seq(S) /\ Len(s) = 0 /\ DOMAIN s = {}
  BY <1>2
<1>3. /\ network \in Seq(Frames) /\ frame \in Seq(Frames) /\ Len(frame) = 0
      /\ messages \in Seq(DecodedMessages) /\ log \in Seq(Entries) /\ DOMAIN log = {}
      /\ Len(network) = 0
  BY <1>1, <1>2
<1>4. TypeOK
  <2>1. handshake_received \in BOOLEAN
    BY <1>1
  <2>2. offset \in Nat /\ Len(frame) <= 1
    BY <1>1, <1>3
  <2>3. \A i \in DOMAIN log :
          log[i].frame \in Frames /\ (log[i].got # Dropped => log[i].got \in Seq(DecodedMessages))
    BY <1>3
  <2>4. encoded # None => encoded.class \in DOMAIN ClientMessages
    BY <1>1
  <2> QED BY <1>1, <1>3, <2>1, <2>2, <2>3, <2>4 DEF TypeOK
<1>5. HandshakeFirst
  BY <1>1, <1>3 DEF HandshakeFirst
<1>6. ~Shaken
  BY <1>1 DEF Shaken
<1>7. Aligned /\ AllOrNothing /\ NoneDropped
  BY <1>1, <1>3, <1>6 DEF Aligned, AllOrNothing, NoneDropped
<1> QED BY <1>3, <1>4, <1>5, <1>6, <1>7 DEF ParserInv

\* An entry of a log is typed as the type invariant has it.
LEMMA EntryTyped ==
  ASSUME NEW entries \in Seq(Entries)
  PROVE  \A i \in DOMAIN entries :
           /\ entries[i].frame \in Frames
           /\ entries[i].got # Dropped => entries[i].got \in Seq(DecodedMessages)
<1>1. \A i \in DOMAIN entries : entries[i] \in Entries
  <2> HIDE DEF Entries
  <2> QED OBVIOUS
<1> QED BY <1>1 DEF Entries

\* The hub's frame goes behind the others on their way.
LEMMA HubSendsStep ==
  ASSUME ParserInv, HubSends
  PROVE  ParserInv'
<1>1. PICK n \in 0..MaxBatch : \E body \in [1..n -> HubMessages] :
        network' = Append(network, [handshake |-> FramesSent = 0, body |-> body])
  BY DEF HubSends
<1>2. PICK body \in [1..n -> HubMessages] :
        network' = Append(network, [handshake |-> FramesSent = 0, body |-> body])
  BY <1>1
<1> DEFINE f == [handshake |-> FramesSent = 0, body |-> body]
<1>3. /\ protocol' = protocol /\ handshake_received' = handshake_received
      /\ parserVars' = parserVars /\ log' = log /\ encoded' = encoded
      /\ frame' = frame /\ offset' = offset /\ messages' = messages
  BY DEF HubSends, parserVars
<1>4. f \in Frames
  <2>1. n \in Nat
    BY HubProtocolAssumption
  <2>2. body \in Seq(HubMessages)
    BY <2>1
  <2> QED BY <2>2 DEF Frames
<1>5. /\ Len(network) \in Nat /\ Len(frame) \in Nat /\ Len(log) \in Nat
      /\ network \in Seq(Frames) /\ frame \in Seq(Frames) /\ log \in Seq(Entries)
  <2>1. \A S : \A s \in Seq(S) : Len(s) \in Nat
    OBVIOUS
  <2>2. network \in Seq(Frames) /\ frame \in Seq(Frames) /\ log \in Seq(Entries)
    BY DEF ParserInv, TypeOK
  <2> QED BY <2>1, <2>2
<1>6. f.handshake <=> network = <<>> /\ frame = <<>> /\ log = <<>>
  <2>1. \A S : \A s \in Seq(S) : Len(s) = 0 <=> s = <<>>
    BY EmptySeq
  <2>2. f.handshake <=> Len(log) + Len(frame) + Len(network) = 0
    BY DEF FramesSent
  <2>3. Len(log) + Len(frame) + Len(network) = 0 <=> Len(log) = 0 /\ Len(frame) = 0 /\ Len(network) = 0
    BY <1>5
  <2> QED BY <1>5, <2>1, <2>2, <2>3
<1> HIDE DEF f
<1>7. /\ network' \in Seq(Frames) /\ network' # <<>>
      /\ Len(network') = Len(network) + 1 /\ network'[Len(network) + 1] = f
      /\ \A i \in 1..Len(network) : network'[i] = network[i]
  <2>1. \A S : \A s \in Seq(S) : \A e \in S :
          /\ Append(s, e) \in Seq(S) /\ Append(s, e) # <<>>
          /\ Len(Append(s, e)) = Len(s) + 1 /\ Append(s, e)[Len(s) + 1] = e
          /\ \A i \in 1..Len(s) : Append(s, e)[i] = s[i]
    OBVIOUS
  <2> QED BY <1>2, <1>4, <1>5, <2>1 DEF f
<1>8. TypeOK'
  BY <1>3, <1>7 DEF ParserInv, TypeOK
<1>9. HandshakeFirst'
  <2>1. network = <<>> => Len(network) = 0
    OBVIOUS
  <2>2. \A i \in 1..(Len(network) + 1) : i \in 1..Len(network) \/ i = Len(network) + 1
    BY <1>5
  <2>3. network # <<>> => 1 \in 1..Len(network)
    <3>1. network # <<>> => Len(network) # 0
      BY <1>5, EmptySeq
    <3> QED BY <1>5, <3>1
  <2>4. HandshakeFirst
    BY DEF ParserInv
  <2>5. \A i \in 1..Len(network') : network'[i].handshake => i = 1 /\ log' = <<>> /\ frame' = <<>>
    BY <1>3, <1>5, <1>6, <1>7, <2>1, <2>2, <2>4 DEF HandshakeFirst
  <2>6. log' = <<>> /\ frame' = <<>> => network'[1].handshake
    BY <1>3, <1>5, <1>6, <1>7, <2>1, <2>3, <2>4 DEF HandshakeFirst
  <2> QED BY <1>3, <2>4, <2>5, <2>6 DEF HandshakeFirst
<1>10. Aligned'
  BY <1>3, AlignedStays DEF ParserInv
<1>11. AllOrNothing' /\ NoneDropped' /\ (Shaken' <=> Shaken)
  BY <1>3, LogStays DEF ParserInv
<1> QED BY <1>3, <1>8, <1>9, <1>10, <1>11 DEF ParserInv

\* The parser takes the first frame, if it may.
LEMMA ReceiveStep ==
  ASSUME ParserInv, Receive
  PROVE  ParserInv'
<1> DEFINE f == Head(network)
<1>1. /\ frame = <<>> /\ network # <<>> /\ (handshake_received \/ f.handshake)
      /\ frame' = <<f>> /\ network' = Tail(network) /\ offset' = 0 /\ messages' = <<>>
      /\ protocol' = protocol /\ handshake_received' = handshake_received /\ log' = log
      /\ encoded' = encoded
  BY DEF Receive
<1>2. TypeOK /\ HandshakeFirst /\ log \in Seq(Entries)
  BY DEF ParserInv
<1>3. /\ f \in Frames /\ <<f>> \in Seq(Frames) /\ f = network[1] /\ 1 \in 1..Len(network)
      /\ Tail(network) \in Seq(Frames)
      /\ \A i \in 1..Len(Tail(network)) : Tail(network)[i] = network[i + 1] /\ i + 1 \in 1..Len(network)
  BY <1>1, <1>2, NetworkTyped
<1> HIDE DEF f
<1>4. Head(frame') = f /\ frame' # <<>> /\ Len(frame') = 1 /\ frame' \in Seq(Frames)
  BY <1>1, <1>3
<1>5. TypeOK'
  <2>1. offset' \in Nat /\ messages' \in Seq(DecodedMessages) /\ Len(frame') <= 1
    BY <1>1, <1>4
  <2> QED BY <1>1, <1>2, <1>3, <1>4, <2>1 DEF TypeOK
<1>6. HandshakeFirst'
  <2>1. \A i \in 1..Len(Tail(network)) : i + 1 # 1
    OBVIOUS
  <2>2. \A i \in 1..Len(network') : ~network'[i].handshake
    BY <1>1, <1>2, <1>3, <2>1 DEF HandshakeFirst
  <2>3. log' = <<>> => Head(frame').handshake
    BY <1>1, <1>2, <1>3, <1>4 DEF HandshakeFirst
  <2> QED BY <1>4, <2>2, <2>3 DEF HandshakeFirst
<1>7. Aligned'
  <2>1. PICK body \in Seq(HubMessages) : Body' = body
    BY <1>3, <1>4 DEF Frames, Body
  <2>2. Start(body, 1) = 0 /\ Made(body)[0] = <<>>
    BY StartsGrow, MadeGrows
  <2>4. 1 \in 1..(Len(body) + 1) /\ 1 - 1 = 0
    OBVIOUS
  <2>3. Start(body, 1)' = Start(body, 1) /\ Made(body)' = Made(body)
    BY <1>1, SameProtocol
  <2> QED BY <1>1, <2>1, <2>2, <2>3, <2>4 DEF Aligned
<1>8. AllOrNothing' /\ NoneDropped' /\ (Shaken' <=> Shaken)
  BY <1>1, LogStays DEF ParserInv
<1> QED BY <1>1, <1>2, <1>5, <1>6, <1>7, <1>8 DEF ParserInv

\* A frame that is taken for the handshake is dropped, or parsed without its
\* first message; neither is anything that the log or the parser is held to.
LEMMA MistakeStep ==
  ASSUME ParserInv, Mistake
  PROVE  ParserInv'
<1> DEFINE f == Head(network)
           e == [frame |-> f, got |-> Dropped]
<1>1. /\ frame = <<>> /\ network # <<>> /\ ~handshake_received /\ ~f.handshake
      /\ network' = Tail(network)
      /\ protocol' = protocol /\ handshake_received' = handshake_received /\ encoded' = encoded
  BY DEF Mistake
<1>2. TypeOK /\ HandshakeFirst /\ log \in Seq(Entries) /\ ~Shaken
  BY <1>1 DEF ParserInv
<1>3. /\ f \in Frames /\ <<f>> \in Seq(Frames) /\ f = network[1] /\ 1 \in 1..Len(network)
      /\ Tail(network) \in Seq(Frames)
      /\ \A i \in 1..Len(Tail(network)) : Tail(network)[i] = network[i + 1] /\ i + 1 \in 1..Len(network)
  BY <1>1, <1>2, NetworkTyped
<1>4. log # <<>>
  BY <1>1, <1>2, <1>3 DEF HandshakeFirst
<1>5. \A i \in 1..Len(network') : ~network'[i].handshake
  <2>1. \A i \in 1..Len(Tail(network)) : i + 1 # 1
    OBVIOUS
  <2> QED BY <1>1, <1>2, <1>3, <2>1 DEF HandshakeFirst
<1> HIDE DEF f
<1>6. CASE protocol = "json" /\ frame' = <<f>> /\ offset' = 1 /\ messages' = <<>> /\ log' = log
  <2>1. Head(frame') = f /\ frame' # <<>> /\ Len(frame') = 1 /\ frame' \in Seq(Frames)
    BY <1>3, <1>6
  <2>2. TypeOK'
    <3>1. offset' \in Nat /\ messages' \in Seq(DecodedMessages) /\ Len(frame') <= 1
      BY <1>6, <2>1
    <3> QED BY <1>1, <1>2, <1>3, <1>6, <2>1, <3>1 DEF TypeOK
  <2>3. HandshakeFirst'
    BY <1>4, <1>5, <1>6, <2>1 DEF HandshakeFirst
  <2>4. AllOrNothing' /\ NoneDropped' /\ (Shaken' <=> Shaken)
    BY <1>1, <1>6, LogStays DEF ParserInv
  <2>5. Aligned'
    BY <1>1, <1>2, <2>1, <2>4 DEF Aligned, f
  <2> QED BY <1>1, <1>2, <1>6, <2>2, <2>3, <2>4, <2>5 DEF ParserInv
<1>7. CASE log' = Append(log, e) /\ parserVars' = parserVars
  <2>1. e \in Entries /\ e.got = Dropped /\ e.frame = f
    BY <1>3 DEF Entries
  <2>2. frame' = frame /\ offset' = offset /\ messages' = messages
    BY <1>7 DEF parserVars
  <2> HIDE DEF e
  <2>3. log' \in Seq(Entries) /\ log' # <<>> /\ ~Shaken'
    BY <1>2, <1>4, <1>7, <2>1, LogTyped
  <2>4. TypeOK'
    <3>1. \A i \in DOMAIN log' :
            /\ log'[i].frame \in Frames
            /\ log'[i].got # Dropped => log'[i].got \in Seq(DecodedMessages)
      BY <2>3, EntryTyped
    <3> QED BY <1>1, <1>2, <1>3, <2>2, <3>1 DEF TypeOK
  <2>5. HandshakeFirst'
    BY <1>5, <2>3 DEF HandshakeFirst
  <2>6. AllOrNothing' /\ NoneDropped'
    BY <1>1, <1>2, <1>7, <2>1, <2>3, LogGrows DEF ParserInv
  <2>7. Aligned'
    BY <1>1, <2>2 DEF Aligned
  <2> QED BY <2>3, <2>4, <2>5, <2>6, <2>7 DEF ParserInv
<1> QED BY <1>6, <1>7 DEF Mistake, f, e

\* A message is parsed.
LEMMA ParseStep ==
  ASSUME ParserInv, Parse
  PROVE  ParserInv'
<1>1. /\ frame # <<>> /\ protocol' = protocol /\ handshake_received' = handshake_received
      /\ network' = network /\ frame' = frame /\ log' = log /\ encoded' = encoded
  BY DEF Parse
<1>2. PICK i \in DOMAIN Body : /\ Decodes(Body[i])
                               /\ messages' = messages \o Meaning(Body[i])
                               /\ offset' = NextOffset(Body[i])
  BY DEF Parse, At
<1>3. TypeOK /\ HandshakeFirst /\ log \in Seq(Entries)
  BY DEF ParserInv
<1> DEFINE m == Body[i]
<1>4. m \in HubMessages
  BY <1>1, <1>3, FrameTyped
<1>5. Decodes(m) /\ messages' = messages \o Meaning(m) /\ offset' = NextOffset(m)
  BY <1>2
<1> HIDE DEF m
<1>6. messages' \in Seq(DecodedMessages)
  <2>1. Meaning(m) \in Seq(DecodedMessages)
    BY <1>4, <1>5, MeaningTyped
  <2>2. messages \in Seq(DecodedMessages)
    BY <1>3 DEF TypeOK
  <2>3. \A S : \A s, t \in Seq(S) : s \o t \in Seq(S)
    OBVIOUS
  <2> QED BY <1>5, <2>1, <2>2, <2>3
<1>7. offset' \in Nat
  <2>1. NextOffset(m) = offset + Width(m) /\ offset \in Nat /\ Width(m) \in Nat
    BY <1>3, <1>4, <1>5, NextIsBehind, WidthTyped DEF TypeOK
  <2> QED BY <1>5, <2>1
<1>8. TypeOK'
  BY <1>1, <1>3, <1>6, <1>7 DEF TypeOK
<1>9. HandshakeFirst'
  BY <1>1, <1>3 DEF HandshakeFirst
<1>10. Aligned'
  BY <1>1, <1>3, ParseAligned DEF ParserInv
<1>11. AllOrNothing' /\ NoneDropped' /\ (Shaken' <=> Shaken)
  BY <1>1, LogStays DEF ParserInv
<1> QED BY <1>1, <1>3, <1>8, <1>9, <1>10, <1>11 DEF ParserInv

\* A frame that is done with goes behind the log; no handshake is on its way.
LEMMA FrameLeaves ==
  ASSUME ParserInv, frame # <<>>, NEW e \in Entries, log' = Append(log, e), frame' = <<>>,
         protocol' = protocol, network' = network, offset' = offset, messages' = messages,
         encoded' = encoded, handshake_received' \in BOOLEAN
  PROVE  log' \in Seq(Entries) /\ TypeOK' /\ HandshakeFirst' /\ Aligned'
<1>1. TypeOK /\ HandshakeFirst /\ log \in Seq(Entries)
  BY DEF ParserInv
<1>2. log' \in Seq(Entries) /\ log' # <<>>
  BY <1>1, LogTyped
<1>3. TypeOK'
  <2>1. \A i \in DOMAIN log' :
          /\ log'[i].frame \in Frames
          /\ log'[i].got # Dropped => log'[i].got \in Seq(DecodedMessages)
    BY <1>2, EntryTyped
  <2>2. frame' \in Seq(Frames) /\ Len(frame') <= 1
    OBVIOUS
  <2> QED BY <1>1, <2>1, <2>2 DEF TypeOK
<1>4. HandshakeFirst'
  BY <1>1, <1>2 DEF HandshakeFirst
<1>5. Aligned'
  BY DEF Aligned
<1> QED BY <1>2, <1>3, <1>4, <1>5

\* One message cannot be decoded: the frame is dropped, and it had a message
\* that does not keep to the documented layout.
LEMMA ParseRaisesStep ==
  ASSUME ParserInv, ParseRaises
  PROVE  ParserInv'
<1> DEFINE f == Head(frame)
           e == [frame |-> f, got |-> Dropped]
<1>1. /\ frame # <<>> /\ ~AtEnd /\ ~\E i \in At : Decodes(Body[i])
      /\ log' = Append(log, e) /\ frame' = <<>>
      /\ protocol' = protocol /\ handshake_received' = handshake_received /\ network' = network
      /\ offset' = offset /\ messages' = messages /\ encoded' = encoded
  BY DEF ParseRaises, AfterRaise
<1>2. TypeOK /\ log \in Seq(Entries) /\ Aligned /\ handshake_received \in BOOLEAN
  BY DEF ParserInv, TypeOK
<1>3. f \in Frames
  BY <1>1, <1>2, FrameTyped
<1>4. e \in Entries /\ e.got = Dropped /\ e.frame.body = Body
  BY <1>3 DEF Entries, Body
<1>5. ASSUME Shaken' PROVE Shaken
  <2> HIDE DEF e
  <2> QED BY <1>1, <1>2, <1>4, <1>5, LogTyped
<1>6. ASSUME Shaken PROVE \E j \in DOMAIN Body : ~Conforms(Body[j])
  <2>1. PICK k \in 1..(Len(Body) + 1) : k \in 1..Len(Body) /\ At = {k}
    BY <1>1, <1>2, <1>6, AtOne
  <2>2. ~Decodes(Body[k]) /\ Body[k] \in HubMessages /\ k \in DOMAIN Body
    BY <1>1, <1>2, <2>1, FrameTyped DEF At
  <2>3. protocol \in Protocols
    BY <1>2 DEF TypeOK
  <2>4. ~Conforms(Body[k])
    BY <2>2, <2>3, ConformingDecodes
  <2> QED BY <2>2, <2>4
<1> HIDE DEF e
<1>7. AllOrNothing' /\ NoneDropped'
  BY <1>1, <1>2, <1>4, <1>5, <1>6, LogGrows DEF ParserInv
<1>8. log' \in Seq(Entries) /\ TypeOK' /\ HandshakeFirst' /\ Aligned'
  BY <1>1, <1>2, <1>4, FrameLeaves
<1> QED BY <1>1, <1>5, <1>7, <1>8 DEF ParserInv

\* The parser is behind the last message: the frame is dispatched.
LEMMA DispatchStep ==
  ASSUME ParserInv, Dispatch
  PROVE  ParserInv'
<1> DEFINE f == Head(frame)
           e == [frame |-> f, got |-> messages]
<1>1. /\ frame # <<>> /\ AtEnd
      /\ log' = Append(log, e) /\ frame' = <<>>
      /\ protocol' = protocol /\ handshake_received' = TRUE /\ network' = network
      /\ offset' = offset /\ messages' = messages /\ encoded' = encoded
  BY DEF Dispatch
<1>2. TypeOK /\ log \in Seq(Entries) /\ Aligned /\ HandshakeFirst
  BY DEF ParserInv
<1>3. f \in Frames /\ messages \in Seq(DecodedMessages)
  BY <1>1, <1>2, FrameTyped DEF TypeOK
<1>4. e \in Entries /\ e.got = messages /\ e.got # Dropped /\ e.frame.body = Body
  BY <1>3, HubProtocolAssumption DEF Entries, Body
<1> HIDE DEF e, f
<1>5. ASSUME Shaken' PROVE Shaken \/ Head(frame).handshake
  <2>1. log = <<>> => Head(frame).handshake
    BY <1>1, <1>2 DEF HandshakeFirst
  <2>2. log # <<>> => Shaken
    BY <1>1, <1>2, <1>4, <1>5, LogTyped
  <2> QED BY <2>1, <2>2
<1>6. ASSUME Shaken \/ Head(frame).handshake PROVE messages = Meanings(Body)
  <2>1. PICK k \in 1..(Len(Body) + 1) : messages = Made(Body)[k - 1] /\ k = Len(Body) + 1
    BY <1>1, <1>2, <1>6, AtOne
  <2>2. k - 1 = Len(Body)
    BY <1>1, <1>2, <2>1, FrameTyped
  <2> QED BY <2>1, <2>2 DEF Meanings
<1>7. AllOrNothing' /\ NoneDropped'
  BY <1>1, <1>2, <1>4, <1>5, <1>6, LogGrows DEF ParserInv
<1>8. log' \in Seq(Entries) /\ TypeOK' /\ HandshakeFirst' /\ Aligned'
  BY <1>1, <1>2, <1>4, FrameLeaves
<1> QED BY <1>1, <1>7, <1>8 DEF ParserInv

\* What the client encodes does not touch the parser.
LEMMA EncodeStep ==
  ASSUME ParserInv, Encode \/ UNCHANGED vars
  PROVE  ParserInv'
<1>1. /\ protocol' = protocol /\ handshake_received' = handshake_received
      /\ network' = network /\ parserVars' = parserVars /\ log' = log
      /\ frame' = frame /\ offset' = offset /\ messages' = messages
  BY DEF Encode, vars, parserVars
<1>2. encoded' = encoded \/ encoded'.class \in DOMAIN ClientMessages
  <2>1. ASSUME Encode PROVE \E class \in DOMAIN ClientMessages : encoded'.class = class
    BY <2>1 DEF Encode
  <2>2. ASSUME UNCHANGED vars PROVE encoded' = encoded
    BY <2>2 DEF vars
  <2> QED BY <2>1, <2>2
<1>3. TypeOK'
  BY <1>1, <1>2 DEF ParserInv, TypeOK
<1>4. HandshakeFirst'
  BY <1>1 DEF ParserInv, HandshakeFirst
<1>5. Aligned'
  BY <1>1, AlignedStays DEF ParserInv
<1>6. AllOrNothing' /\ NoneDropped' /\ (Shaken' <=> Shaken)
  BY <1>1, LogStays DEF ParserInv
<1> QED BY <1>1, <1>3, <1>4, <1>5, <1>6 DEF ParserInv

\* No step of the connection breaks the invariant.
LEMMA ParserInvariant == Spec => []ParserInv
<1>1. Init => ParserInv
  BY ParserInit
<1>2. ParserInv /\ [Next]_vars => ParserInv'
  BY HubSendsStep, ReceiveStep, MistakeStep, ParseStep, ParseRaisesStep, DispatchStep, EncodeStep
  DEF Next
<1> QED BY <1>1, <1>2, PTL DEF Spec
-----------------------------------------------------------------------------
(* The theorems. *)

\* Every variable of the parser keeps to its type, whatever the hub sends.
THEOREM ProtocolTypes == Spec => []TypeOK
<1>1. ParserInv => TypeOK
  BY DEF ParserInv
<1> QED BY <1>1, ParserInvariant, PTL

\* The parser of either protocol never stands inside a message, and has made of
\* a frame exactly what is before it, in frames of any length.
THEOREM ParserStaysAligned == Spec => []Aligned
<1>1. ParserInv => Aligned
  BY DEF ParserInv
<1> QED BY <1>1, ParserInvariant, PTL

\* on_message gets all messages of a frame in their order, or none of them.
THEOREM FramesAreWhole == Spec => []AllOrNothing
<1>1. ParserInv => AllOrNothing
  BY DEF ParserInv
<1> QED BY <1>1, ParserInvariant, PTL

\* A frame of messages in the documented layout gets through.
THEOREM DocumentedFramesArrive == Spec => []NoneDropped
<1>1. ParserInv => NoneDropped
  BY DEF ParserInv
<1> QED BY <1>1, ParserInvariant, PTL

\* What the client sends in JSON has the documented keys, for each class.
THEOREM KeysAreDocumented == Spec => []KeysAsDocumented
<1>1. Init => KeysAsDocumented
  BY DEF Init, KeysAsDocumented
<1>2. KeysAsDocumented /\ [Next]_vars => KeysAsDocumented'
  <2> SUFFICES ASSUME KeysAsDocumented, [Next]_vars PROVE KeysAsDocumented'
    OBVIOUS
  <2>1. CASE Encode
    <3> SUFFICES ASSUME protocol' = "json"
                 PROVE  DocumentedKeys[TypeOf[encoded'.class]] \subseteq encoded'.keys
      BY DEF KeysAsDocumented
    <3>1. PICK class \in DOMAIN ClientMessages :
            /\ encoded'.class = class
            /\ encoded'.keys = {Renamed(a) : a \in ClientMessages[class]}
      BY <2>1 DEF Encode
    <3>2. DocumentedKeys[TypeOf[class]] \subseteq {Renamed(a) : a \in ClientMessages[class]}
      BY DEF DocumentedKeys, TypeOf, ClientMessages, Renamed
    <3> QED BY <3>1, <3>2
  <2>2. CASE ~Encode
    <3>1. encoded' = encoded /\ protocol' = protocol
      BY <2>2 DEF Next, HubSends, Receive, Mistake, Parse, ParseRaises, Dispatch, vars
    <3> QED BY <3>1 DEF KeysAsDocumented
  <2> QED BY <2>1, <2>2
<1> QED BY <1>1, <1>2, PTL DEF Spec
===============================================================================
