---------------------------- MODULE SequenceFacts ----------------------------
(***************************************************************************)
(* Induction and recursion over the natural numbers, in a form the provers *)
(* can use: a set in the place of a predicate, and a function in the place *)
(* of an operator.  Then what Only of Subsequences does to the sequences a *)
(* system makes.                                                           *)
(***************************************************************************)
EXTENDS Subsequences, SequenceTheorems, WellFoundedInduction, TLAPS

\* A set that has 0, and the successor of each number it has, has them all.
LEMMA SetInduction ==
  ASSUME NEW S, 0 \in S, \A n \in Nat : n \in S => n + 1 \in S
  PROVE  Nat \subseteq S
<1> DEFINE Less == {p \in Nat \X Nat : p[1] < p[2]}
<1>1. IsWellFoundedOn(Less, Nat)
  BY NatLessThanWellFounded DEF OpToRel
<1>2. SUFFICES ASSUME Nat \ S # {} PROVE FALSE
  OBVIOUS
<1> HIDE DEF Less
<1>3. PICK x \in Nat \ S : \A y \in Nat \ S : ~(<<y, x>> \in Less)
  BY <1>1, <1>2, WFMin
<1>4. x # 0
  OBVIOUS
<1>5. x - 1 \in Nat /\ (x - 1) + 1 = x
  BY <1>4
<1>6. <<x - 1, x>> \in Less
  BY <1>5 DEF Less
<1>7. x - 1 \in S
  BY <1>3, <1>5, <1>6
<1>8. x \in S
  BY <1>5, <1>7
<1> QED BY <1>8

\* f begins with the first value, and makes each other by the rule.
Follows(f, first, rule) ==
  f[0] = first /\ \A n \in Nat : f[n + 1] = rule[n][f[n]]

\* A first value and a rule for the next one make a function of all numbers.
LEMMA Recursion ==
  ASSUME NEW S, NEW first \in S, NEW rule \in [Nat -> [S -> S]]
  PROVE  \E f \in [Nat -> S] : Follows(f, first, rule)
<1> DEFINE Starts(f, n) ==
             /\ f[0] = first
             /\ \A k \in Nat : k < n => f[k + 1] = rule[k][f[k]]
           Known == {n \in Nat : \E f \in [Nat -> S] : Starts(f, n)}
           Same(f, g, n) == {k \in Nat : k <= n => f[k] = g[k]}
<1>1. ASSUME NEW n \in Nat, NEW f \in [Nat -> S], NEW g \in [Nat -> S],
             Starts(f, n), Starts(g, n)
      PROVE  \A k \in 0..n : f[k] = g[k]
  <2> DEFINE A == Same(f, g, n)
  <2>1. 0 \in A
    BY <1>1
  <2>2. ASSUME NEW k \in Nat, k \in A PROVE k + 1 \in A
    BY <1>1, <2>2
  <2> HIDE DEF A
  <2>3. Nat \subseteq A
    BY <2>1, <2>2, SetInduction
  <2> QED BY <2>3 DEF A
<1>2. 0 \in Known
  <2>1. Starts([k \in Nat |-> first], 0) /\ [k \in Nat |-> first] \in [Nat -> S]
    OBVIOUS
  <2> QED BY <2>1
<1>3. ASSUME NEW n \in Nat, n \in Known PROVE n + 1 \in Known
  <2>1. PICK f \in [Nat -> S] : Starts(f, n)
    BY <1>3
  <2> DEFINE g == [f EXCEPT ![n + 1] = rule[n][f[n]]]
  <2>2. rule[n][f[n]] \in S
    OBVIOUS
  <2>3. g \in [Nat -> S]
    BY <2>2
  <2>4. Starts(g, n + 1)
    BY <2>1, <2>2
  <2> HIDE DEF g
  <2> QED BY <2>3, <2>4
<1>4. Nat \subseteq Known
  <2> HIDE DEF Known
  <2> QED BY <1>2, <1>3, SetInduction
<1> DEFINE part == [n \in Nat |-> CHOOSE f \in [Nat -> S] : Starts(f, n)]
           whole == [n \in Nat |-> part[n][n]]
<1>5. ASSUME NEW n \in Nat PROVE part[n] \in [Nat -> S] /\ Starts(part[n], n)
  <2>1. \E f \in [Nat -> S] : Starts(f, n)
    BY <1>4
  <2>2. part[n] = CHOOSE f \in [Nat -> S] : Starts(f, n)
    OBVIOUS
  <2> HIDE DEF Starts, part
  <2> QED BY <2>1, <2>2
<1>6. whole \in [Nat -> S]
  <2> HIDE DEF part, Starts
  <2> QED BY <1>5
<1>7. whole[0] = first
  <2>1. part[0][0] = first
    BY <1>5
  <2> HIDE DEF part
  <2> QED BY <2>1
<1>8. ASSUME NEW n \in Nat PROVE whole[n + 1] = rule[n][whole[n]]
  <2>1. /\ part[n] \in [Nat -> S] /\ Starts(part[n], n)
        /\ part[n + 1] \in [Nat -> S] /\ Starts(part[n + 1], n + 1)
    <3> HIDE DEF part, Starts
    <3> QED BY <1>5
  <2> HIDE DEF part
  <2>2. Starts(part[n + 1], n) /\ part[n + 1][n + 1] = rule[n][part[n + 1][n]]
    BY <2>1
  <2>3. part[n + 1][n] = part[n][n]
    <3> HIDE DEF Starts
    <3> QED BY <1>1, <2>1, <2>2
  <2> QED BY <2>2, <2>3
<1> HIDE DEF whole
<1> QED BY <1>6, <1>7, <1>8 DEF Follows
-----------------------------------------------------------------------------
\* The sequence of one element; the provers take it better by a name.
One(e) == <<e>>

LEMMA OneTyped == ASSUME NEW S, NEW e \in S PROVE One(e) \in Seq(S)
BY DEF One

\* s in two parts, the second from i on, and what is after i.
Split(s, i, before, from, after) ==
  /\ s = before \o from
  /\ from = One(s[i]) \o after /\ Tail(from) = after
  /\ DOMAIN before = 1..(i - 1) /\ \A j \in 1..(i - 1) : before[j] = s[j]
  /\ \A j \in DOMAIN from : i + j - 1 \in DOMAIN s /\ from[j] = s[i + j - 1]

\* A sequence is what comes before an element, the element, and what is after.
LEMMA SplitAt ==
  ASSUME NEW S, NEW s \in Seq(S), NEW i \in DOMAIN s
  PROVE  /\ s[i] \in S
         /\ SubSeq(s, 1, i - 1) \in Seq(S)
         /\ SubSeq(s, i, Len(s)) \in Seq(S)
         /\ SubSeq(s, i + 1, Len(s)) \in Seq(S)
         /\ Split(s, i, SubSeq(s, 1, i - 1), SubSeq(s, i, Len(s)), SubSeq(s, i + 1, Len(s)))
<1> DEFINE before == SubSeq(s, 1, i - 1)
           from == SubSeq(s, i, Len(s))
           after == SubSeq(s, i + 1, Len(s))
<1>1. /\ i \in Nat /\ 1 <= i /\ i <= Len(s) /\ Len(s) \in Nat /\ DOMAIN s = 1..Len(s)
      /\ Len(s) \in i..Len(s) /\ i \in 1..Len(s)
  OBVIOUS
<1>2. before \in Seq(S) /\ from \in Seq(S) /\ after \in Seq(S)
  BY <1>1
<1>3. /\ DOMAIN before = 1..(i - 1) /\ \A j \in 1..(i - 1) : before[j] = s[j]
      /\ DOMAIN from = 1..(Len(s) - i + 1) /\ \A j \in DOMAIN from : from[j] = s[i + j - 1]
  BY <1>1
<1>4. s = before \o from
  <2>1. before \o from = SubSeq(s, 1, Len(s))
    <3>1. /\ 1 \in 1..Len(s) + 1 /\ i - 1 \in 1 - 1..Len(s) /\ Len(s) \in i - 1..Len(s)
          /\ (i - 1) + 1 = i
      BY <1>1
    <3> HIDE DEF before, from
    <3>2. SubSeq(s, 1, i - 1) \o SubSeq(s, (i - 1) + 1, Len(s)) = SubSeq(s, 1, Len(s))
      BY <3>1, ConcatAdjacentSubSeq
    <3> QED BY <3>1, <3>2 DEF before, from
  <2> QED BY <2>1, SubSeqFull
<1>5. from = One(s[i]) \o after
  BY <1>1, SubSeqRecursiveFirst DEF One
<1>6. Tail(from) = after
  BY <1>1, HeadTailOfSubSeq
<1>7. \A j \in DOMAIN from : i + j - 1 \in DOMAIN s
  BY <1>1, <1>3
<1>8. s[i] \in S
  BY <1>1
<1> QED BY <1>2, <1>3, <1>4, <1>5, <1>6, <1>7, <1>8 DEF Split

\* Concatenation by a name of its own, which the provers do not look into.
Joined(s, t) == s \o t

\* Four parts, in twos.
LEMMA FourParts ==
  ASSUME NEW S
  PROVE  \A a, b, c, d : a \in Seq(S) /\ b \in Seq(S) /\ c \in Seq(S) /\ d \in Seq(S) =>
           Joined(a, Joined(Joined(b, c), d)) = Joined(Joined(a, b), Joined(c, d))
<1>1. \A s, t, u : s \in Seq(S) /\ t \in Seq(S) /\ u \in Seq(S) =>
        /\ Joined(s, t) \in Seq(S)
        /\ Joined(Joined(s, t), u) = Joined(s, Joined(t, u))
  BY ConcatAssociative DEF Joined
<1> DEFINE Q == Seq(S)
<1>2. \A s, t, u : s \in Q /\ t \in Q /\ u \in Q =>
        /\ Joined(s, t) \in Q
        /\ Joined(Joined(s, t), u) = Joined(s, Joined(t, u))
  BY <1>1
<1> HIDE DEF Q
<1>3. \A a, b, c, d : a \in Q /\ b \in Q /\ c \in Q /\ d \in Q =>
        Joined(a, Joined(Joined(b, c), d)) = Joined(Joined(a, b), Joined(c, d))
  BY <1>2
<1> QED BY <1>3 DEF Q

\* An element in the middle may be counted with either side.
LEMMA AppendConcat ==
  ASSUME NEW S, NEW s \in Seq(S), NEW t \in Seq(S), NEW e \in S
  PROVE  Append(s, e) \o t = s \o (One(e) \o t)
<1>1. <<e>> \in Seq(S) /\ Append(s, e) = s \o <<e>>
  BY AppendIsConcat
<1>2. One(e) \in Seq(S) /\ Append(s, e) = s \o One(e)
  BY <1>1 DEF One
<1> QED BY <1>2, ConcatAssociative
-----------------------------------------------------------------------------
\* The selection from a sequence grows with each element of the set.
LEMMA SelectedGrows ==
  ASSUME NEW S, NEW s \in Seq(S), NEW T
  PROVE  /\ Selected(s, T)[0] = <<>>
         /\ \A n \in 1..Len(s) :
              Selected(s, T)[n] = IF s[n] \in T THEN Append(Selected(s, T)[n - 1], s[n])
                                  ELSE Selected(s, T)[n - 1]
         /\ \A n \in 0..Len(s) : Selected(s, T)[n] \in Seq(S)
<1> DEFINE E(n, t) == IF s[n] \in T THEN Append(t, s[n]) ELSE t
           U == {s[n] : n \in Nat}
           rule == [n \in Nat |-> [t \in Seq(U) |-> E(n + 1, t)]]
           upto(f) == f = [n \in Nat |-> IF n = 0 THEN <<>> ELSE E(n, f[n - 1])]
<1>1. rule \in [Nat -> [Seq(U) -> Seq(U)]]
  OBVIOUS
<1>2. PICK f \in [Nat -> Seq(U)] :
        f[0] = <<>> /\ \A n \in Nat : f[n + 1] = rule[n][f[n]]
  <2>1. <<>> \in Seq(U)
    OBVIOUS
  <2> DEFINE V == Seq(U)
             nothing == <<>>
  <2>2. nothing \in V /\ rule \in [Nat -> [V -> V]]
    BY <1>1, <2>1
  <2> HIDE DEF rule, V, nothing
  <2>3. \E f \in [Nat -> V] : Follows(f, nothing, rule)
    BY <2>2, Recursion
  <2> QED BY <2>3 DEF V, nothing, Follows
<1>3. upto(f)
  <2>1. ASSUME NEW n \in Nat, n # 0 PROVE f[n] = E(n, f[n - 1])
    <3>1. n - 1 \in Nat /\ (n - 1) + 1 = n /\ f[n - 1] \in Seq(U)
      BY <2>1
    <3>2. f[n] = rule[n - 1][f[n - 1]]
      BY <1>2, <3>1
    <3> QED BY <3>1, <3>2
  <2> HIDE DEF E
  <2> QED BY <1>2, <2>1
<1>4. Selected(s, T) = CHOOSE g : upto(g)
  BY DEF Selected
<1>5. upto(Selected(s, T))
  <2> HIDE DEF upto
  <2> QED BY <1>3, <1>4
<1>6. /\ Selected(s, T)[0] = <<>>
      /\ \A n \in Nat \ {0} : Selected(s, T)[n] = E(n, Selected(s, T)[n - 1])
  <2> HIDE DEF E
  <2> QED BY <1>5
<1>7. \A n \in 0..Len(s) : Selected(s, T)[n] \in Seq(S)
  <2> DEFINE A == {n \in Nat : n <= Len(s) => Selected(s, T)[n] \in Seq(S)}
  <2>0. <<>> \in Seq(S)
    OBVIOUS
  <2>1. 0 \in A
    <3> HIDE DEF E
    <3> QED BY <1>6, <2>0
  <2>2. ASSUME NEW n \in Nat, n \in A PROVE n + 1 \in A
    <3> SUFFICES ASSUME n + 1 <= Len(s) PROVE Selected(s, T)[n + 1] \in Seq(S)
      OBVIOUS
    <3>1. Selected(s, T)[n] \in Seq(S) /\ s[n + 1] \in S
      BY <2>2
    <3>2. Selected(s, T)[n + 1] = E(n + 1, Selected(s, T)[n])
      BY <1>6
    <3> QED BY <3>1, <3>2
  <2> HIDE DEF A
  <2>3. Nat \subseteq A
    BY <2>1, <2>2, SetInduction
  <2> QED BY <2>3 DEF A
<1> QED BY <1>6, <1>7

\* The selection depends on the elements it has come past only.
LEMMA SelectedAlike ==
  ASSUME NEW S, NEW s \in Seq(S), NEW t \in Seq(S), NEW T, NEW m \in Nat,
         m <= Len(s), m <= Len(t), \A i \in 1..m : s[i] = t[i]
  PROVE  Selected(s, T)[m] = Selected(t, T)[m]
<1> DEFINE A == {n \in Nat : n <= m => Selected(s, T)[n] = Selected(t, T)[n]}
<1>1. 0 \in A
  BY SelectedGrows
<1>2. ASSUME NEW n \in Nat, n \in A PROVE n + 1 \in A
  <2> SUFFICES ASSUME n + 1 <= m PROVE Selected(s, T)[n + 1] = Selected(t, T)[n + 1]
    OBVIOUS
  <2>1. /\ n + 1 \in 1..Len(s) /\ n + 1 \in 1..Len(t) /\ s[n + 1] = t[n + 1]
        /\ (n + 1) - 1 = n /\ Selected(s, T)[n] = Selected(t, T)[n]
    BY <1>2
  <2> QED BY <2>1, SelectedGrows
<1> HIDE DEF A
<1>3. Nat \subseteq A
  BY <1>1, <1>2, SetInduction
<1> QED BY <1>3 DEF A

\* Of no elements none are selected.
LEMMA OnlyEmpty == ASSUME NEW T PROVE Only(<<>>, T) = <<>>
<1>1. ASSUME NEW S, NEW s \in Seq(S), Len(s) = 0 PROVE Only(s, T) = <<>>
  <2>1. Selected(s, T)[0] = <<>>
    BY SelectedGrows
  <2> QED BY <1>1, <2>1 DEF Only
<1>2. <<>> \in Seq({}) /\ Len(<<>>) = 0
  OBVIOUS
<1> QED BY <1>1, <1>2

\* A selection is a sequence of the same kind.
LEMMA OnlyTyped ==
  ASSUME NEW S, NEW s \in Seq(S), NEW T
  PROVE  Only(s, T) \in Seq(S)
<1>1. Len(s) \in 0..Len(s)
  OBVIOUS
<1> QED BY <1>1, SelectedGrows DEF Only

\* An element behind a sequence comes behind the selection, if it is selected.
LEMMA OnlyAppend ==
  ASSUME NEW S, NEW s \in Seq(S), NEW e \in S, NEW T
  PROVE  Only(Append(s, e), T) = IF e \in T THEN Append(Only(s, T), e) ELSE Only(s, T)
<1> DEFINE t == Append(s, e)
<1>1. /\ t \in Seq(S) /\ Len(t) = Len(s) + 1 /\ Len(s) \in Nat
      /\ t[Len(s) + 1] = e /\ \A i \in 1..Len(s) : s[i] = t[i]
  OBVIOUS
<1> HIDE DEF t
<1>2. Selected(s, T)[Len(s)] = Selected(t, T)[Len(s)]
  BY <1>1, SelectedAlike
<1>3. Len(t) \in 1..Len(t) /\ Len(t) - 1 = Len(s) /\ t[Len(t)] = e
  BY <1>1
<1>4. Selected(t, T)[Len(t)] =
        IF e \in T THEN Append(Selected(t, T)[Len(s)], e) ELSE Selected(t, T)[Len(s)]
  BY <1>1, <1>3, SelectedGrows
<1> QED BY <1>2, <1>4 DEF Only, t

\* What is selected from one sequence behind another comes behind.
LEMMA OnlyConcat ==
  ASSUME NEW S, NEW T
  PROVE  \A s, t : s \in Seq(S) /\ t \in Seq(S) => Only(s \o t, T) = Only(s, T) \o Only(t, T)
<1> SUFFICES ASSUME NEW s, s \in Seq(S), NEW t, t \in Seq(S)
             PROVE  Only(s \o t, T) = Only(s, T) \o Only(t, T)
  OBVIOUS
<1> DEFINE part(n) == SubSeq(t, 1, n)
           A == {n \in Nat : n <= Len(t) => Only(s \o part(n), T) = Only(s, T) \o Only(part(n), T)}
<1>1. Only(s, T) \in Seq(S)
  BY OnlyTyped
<1>2. 0 \in A
  <2>1. part(0) = <<>> /\ s \o part(0) = s
    OBVIOUS
  <2>2. Only(part(0), T) = <<>>
    BY <2>1, OnlyEmpty
  <2>3. Only(s, T) \o <<>> = Only(s, T)
    BY <1>1
  <2> HIDE DEF part
  <2> QED BY <2>1, <2>2, <2>3
<1>3. ASSUME NEW n \in Nat, n \in A PROVE n + 1 \in A
  <2> SUFFICES ASSUME n + 1 <= Len(t)
               PROVE  Only(s \o part(n + 1), T) = Only(s, T) \o Only(part(n + 1), T)
    OBVIOUS
  <2> DEFINE p == part(n)
             e == t[n + 1]
  <2>1. /\ p \in Seq(S) /\ e \in S /\ s \o p \in Seq(S)
        /\ part(n + 1) = Append(p, e)
    OBVIOUS
  <2>2. s \o Append(p, e) = Append(s \o p, e)
    BY <2>1
  <2>3. Only(s \o p, T) = Only(s, T) \o Only(p, T)
    BY <1>3
  <2> HIDE DEF p, e
  <2>4. Only(p, T) \in Seq(S)
    BY <2>1, OnlyTyped
  <2>5. Only(Append(s \o p, e), T) = IF e \in T THEN Append(Only(s \o p, T), e) ELSE Only(s \o p, T)
    BY <2>1, OnlyAppend
  <2>6. Only(Append(p, e), T) = IF e \in T THEN Append(Only(p, T), e) ELSE Only(p, T)
    BY <2>1, OnlyAppend
  <2>7. Only(s, T) \o Append(Only(p, T), e) = Append(Only(s, T) \o Only(p, T), e)
    BY <1>1, <2>1, <2>4
  <2>8. Only(s \o Append(p, e), T) = Only(s, T) \o Only(Append(p, e), T)
    BY <2>2, <2>3, <2>5, <2>6, <2>7
  <2> QED BY <2>1, <2>8
<1>4. Nat \subseteq A
  <2> HIDE DEF A
  <2> QED BY <1>2, <1>3, SetInduction
<1>5. Len(t) \in Nat /\ part(Len(t)) = t
  OBVIOUS
<1>6. Only(s \o part(Len(t)), T) = Only(s, T) \o Only(part(Len(t)), T)
  <2>1. Len(t) \in Nat /\ Len(t) <= Len(t) /\ Len(t) \in A
    BY <1>4
  <2> HIDE DEF part
  <2> QED BY <2>1
<1> QED BY <1>5, <1>6

\* A sequence without selected elements leaves nothing.
LEMMA OnlyNone ==
  ASSUME NEW S, NEW s \in Seq(S), NEW T, \A i \in DOMAIN s : s[i] \notin T
  PROVE  Only(s, T) = <<>>
<1> DEFINE A == {n \in Nat : n <= Len(s) => Selected(s, T)[n] = <<>>}
<1>1. 0 \in A
  BY SelectedGrows
<1>2. ASSUME NEW n \in Nat, n \in A PROVE n + 1 \in A
  <2> SUFFICES ASSUME n + 1 <= Len(s) PROVE Selected(s, T)[n + 1] = <<>>
    OBVIOUS
  <2>1. n + 1 \in 1..Len(s) /\ (n + 1) - 1 = n /\ s[n + 1] \notin T /\ Selected(s, T)[n] = <<>>
    BY <1>2
  <2> QED BY <2>1, SelectedGrows
<1> HIDE DEF A
<1>3. Nat \subseteq A
  BY <1>1, <1>2, SetInduction
<1>4. Len(s) \in A
  BY <1>3
<1> QED BY <1>4 DEF A, Only

\* A sequence of one element is selected or not.
LEMMA OnlySingle ==
  ASSUME NEW e, NEW T
  PROVE  Only(One(e), T) = IF e \in T THEN One(e) ELSE <<>>
<1> DEFINE s == <<>>
<1>1. s \in Seq({e}) /\ Append(s, e) = One(e)
  BY DEF One
<1>2. Only(s, T) = s
  BY OnlyEmpty
<1> HIDE DEF s
<1>3. Only(Append(s, e), T) = IF e \in T THEN Append(Only(s, T), e) ELSE Only(s, T)
  <2>1. e \in {e}
    OBVIOUS
  <2> QED BY <1>1, <2>1, OnlyAppend
<1> QED BY <1>1, <1>2, <1>3 DEF s

\* The first element is selected or not, and then the rest.
LEMMA OnlyFirst ==
  ASSUME NEW S, NEW T
  PROVE  \A e, t, u : e \in S /\ t \in Seq(S) /\ u \in Seq(S) =>
           /\ e \in T => Only((One(e) \o t) \o u, T) = One(e) \o Only(t \o u, T)
           /\ e \notin T => Only((One(e) \o t) \o u, T) = Only(t \o u, T)
<1> SUFFICES ASSUME NEW e, e \in S, NEW t, t \in Seq(S), NEW u, u \in Seq(S)
             PROVE  /\ e \in T => Only((One(e) \o t) \o u, T) = One(e) \o Only(t \o u, T)
                    /\ e \notin T => Only((One(e) \o t) \o u, T) = Only(t \o u, T)
  OBVIOUS
<1>1. One(e) \in Seq(S) /\ t \o u \in Seq(S)
  BY OneTyped
<1>2. (One(e) \o t) \o u = One(e) \o (t \o u)
  BY <1>1, ConcatAssociative
<1>3. Only(One(e), T) = IF e \in T THEN One(e) ELSE <<>>
  BY OnlySingle
<1>5. Only(One(e) \o (t \o u), T) = Only(One(e), T) \o Only(t \o u, T)
  <2>1. \A a, b : a \in Seq(S) /\ b \in Seq(S) => Only(a \o b, T) = Only(a, T) \o Only(b, T)
    BY OnlyConcat
  <2> QED BY <1>1, <2>1
<1>4. <<>> \o Only(t \o u, T) = Only(t \o u, T)
  BY <1>1, OnlyTyped
<1> QED BY <1>2, <1>3, <1>4, <1>5

\* What is selected was there, and is in the set.
LEMMA OnlyElements ==
  ASSUME NEW S, NEW s \in Seq(S), NEW T
  PROVE  \A i \in DOMAIN Only(s, T) : \E j \in DOMAIN s : s[j] \in T /\ Only(s, T)[i] = s[j]
<1> DEFINE Q(n) == \A i \in DOMAIN Selected(s, T)[n] :
                     \E j \in DOMAIN s : s[j] \in T /\ Selected(s, T)[n][i] = s[j]
           A == {n \in Nat : n <= Len(s) => Q(n)}
<1>1. 0 \in A
  <2>1. Selected(s, T)[0] = <<>>
    BY SelectedGrows
  <2> QED BY <2>1
<1>2. ASSUME NEW n \in Nat, n \in A PROVE n + 1 \in A
  <2> SUFFICES ASSUME n + 1 <= Len(s) PROVE Q(n + 1)
    OBVIOUS
  <2> DEFINE p == Selected(s, T)[n]
             q == Selected(s, T)[n + 1]
  <2>1. /\ n \in 0..Len(s) /\ n + 1 \in DOMAIN s /\ n + 1 \in 1..Len(s) /\ (n + 1) - 1 = n /\ Q(n)
    BY <1>2
  <2>2. p \in Seq(S) /\ q = IF s[n + 1] \in T THEN Append(p, s[n + 1]) ELSE p
    BY <2>1, SelectedGrows
  <2>3. \A i \in DOMAIN p : \E j \in DOMAIN s : s[j] \in T /\ p[i] = s[j]
    BY <2>1
  <2> HIDE DEF p, q
  <2>4. \A i \in DOMAIN q : \E j \in DOMAIN s : s[j] \in T /\ q[i] = s[j]
    BY <2>1, <2>2, <2>3
  <2> QED BY <2>4 DEF q
<1>3. Nat \subseteq A
  <2> HIDE DEF A
  <2> QED BY <1>1, <1>2, SetInduction
<1>4. Q(Len(s))
  <2>1. Len(s) \in Nat /\ Len(s) <= Len(s) /\ Len(s) \in A
    BY <1>3
  <2> HIDE DEF Q
  <2> QED BY <2>1
<1> QED BY <1>4 DEF Only

\* So the selection is a sequence over the set.
LEMMA OnlyInSet ==
  ASSUME NEW S, NEW s \in Seq(S), NEW T
  PROVE  Only(s, T) \in Seq(T)
<1>1. Only(s, T) \in Seq(S)
  BY OnlyTyped
<1>2. \A i \in 1..Len(Only(s, T)) : Only(s, T)[i] \in T
  BY <1>1, OnlyElements
<1>3. ASSUME NEW t \in Seq(S), \A i \in 1..Len(t) : t[i] \in T
      PROVE  t \in Seq(T)
  BY <1>3
<1> QED BY <1>1, <1>2, <1>3
===============================================================================
