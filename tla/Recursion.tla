------------------------------ MODULE Recursion ------------------------------
(***************************************************************************)
(* Induction on the naturals and recursion over sequences and sets, as     *)
(* facts about sets and functions: what the other proofs need of the       *)
(* elements a definition keeps of a sequence, of FlattenSeq, of the sums   *)
(* of SumFunction, and of the elements of a set in an order.               *)
(* Induction rests on the well-foundedness of the naturals.                *)
(***************************************************************************)
EXTENDS SequencesExt, FiniteSetsExt, Integers, WellFoundedInduction, FiniteSetTheorems,
        SequenceTheorems, TLAPS

\* A set that holds 0 and the successor of each number in it holds them all:
\* induction on a set, to be used with {n \in Nat : ...}.
LEMMA SetInduction ==
  ASSUME NEW S, 0 \in S, \A n \in Nat : n \in S => n + 1 \in S
  PROVE  Nat \subseteq S
  <1> DEFINE R == OpToRel(<, Nat)
             T == Nat \ S
  <1>1. IsWellFoundedOn(R, Nat)
    BY NatLessThanWellFounded
  <1>2. \A y, x \in Nat : y < x => <<y, x>> \in R
    BY DEF OpToRel
  <1> HIDE DEF R
  <1> SUFFICES ASSUME T # {} PROVE FALSE
    OBVIOUS
  <1>3. PICK x \in T : \A y \in T : ~ (<<y, x>> \in R)
    <2> HIDE DEF T
    <2>1. T \subseteq Nat
      BY DEF T
    <2> QED
      BY <1>1, <2>1, WFMin
  <1>4. x - 1 \in T /\ x \in Nat
    <2>1. x # 0 /\ x \in Nat
      OBVIOUS
    <2>2. x - 1 \in Nat /\ x = (x - 1) + 1
      BY <2>1
    <2> QED
      BY <2>2
  <1>5. x - 1 < x
    BY <1>4
  <1> QED
    BY <1>2, <1>3, <1>4, <1>5

\* A function that starts and goes on as wanted, up to n.
RecursTo(f, V, v, step, n) ==
    f \in [Nat -> V] /\ f[0] = v /\ \A i \in 1..n : f[i] = step[i][f[i - 1]]

\* For every n there is a function defined by recursion up to n.
LEMMA RecursionExists ==
  ASSUME NEW V, NEW v \in V, NEW step \in [Nat -> [V -> V]], NEW n \in Nat
  PROVE  \E f : RecursTo(f, V, v, step, n)
  <1> DEFINE P == {k \in Nat : \E f : RecursTo(f, V, v, step, k)}
  <1>1. 0 \in P
    <2> DEFINE e == [k \in Nat |-> v]
    <2>1. RecursTo(e, V, v, step, 0)
      BY DEF RecursTo
    <2> QED
      BY <2>1
  <1>2. ASSUME NEW k \in Nat, k \in P PROVE k + 1 \in P
    <2>1. PICK f : RecursTo(f, V, v, step, k)
      BY <1>2
    <2> DEFINE w == step[k + 1][f[k]]
               g == [f EXCEPT ![k + 1] = w]
    <2>2. w \in V
      BY <2>1 DEF RecursTo
    <2>3. g \in [Nat -> V] /\ g[k + 1] = w /\ \A i \in 0..k : g[i] = f[i]
      BY <2>1, <2>2 DEF RecursTo
    <2> HIDE DEF g
    <2>4. ASSUME NEW i \in 1..k + 1 PROVE g[i] = step[i][g[i - 1]]
      <3>1. g[i - 1] = f[i - 1]
        BY <2>3
      <3>2. CASE i = k + 1
        <4>1. i - 1 = k
          BY <3>2
        <4> QED
          BY <2>3, <3>1, <3>2, <4>1
      <3>3. CASE i # k + 1
        <4>1. i \in 1..k /\ i \in 0..k
          BY <3>3
        <4> QED
          BY <2>1, <2>3, <3>1, <4>1 DEF RecursTo
      <3> QED
        BY <3>2, <3>3
    <2>5. RecursTo(g, V, v, step, k + 1)
      BY <2>1, <2>3, <2>4 DEF RecursTo
    <2> QED
      BY <2>5
  <1> HIDE DEF P
  <1>3. n \in P
    BY <1>1, <1>2, SetInduction
  <1> QED
    BY <1>3 DEF P

\* A set of naturals that is not empty has a least number.
LEMMA LeastExists ==
  ASSUME NEW S, S \subseteq Nat, S # {}
  PROVE  \E n \in S : \A m \in S : n <= m
  <1> SUFFICES ASSUME \A n \in S : \E m \in S : m < n
               PROVE  FALSE
    OBVIOUS
  <1> DEFINE T == {n \in Nat : \A m \in S : n <= m}
  <1>1. 0 \in T
    OBVIOUS
  <1>2. ASSUME NEW n \in Nat, n \in T PROVE n + 1 \in T
    <2>1. n \notin S
      BY <1>2
    <2>2. \A m \in S : m \in Nat /\ n <= m /\ m # n
      BY <1>2, <2>1
    <2> QED
      BY <2>2
  <1>3. Nat \subseteq T
    <2> HIDE DEF T
    <2> QED
      BY <1>1, <1>2, SetInduction
  <1>4. PICK n : n \in S
    OBVIOUS
  <1>5. n \in Nat /\ n + 1 \in T
    BY <1>3, <1>4
  <1> QED
    BY <1>4, <1>5

\* Appending to a sequence adds one element and keeps the others.
LEMMA AppendIs ==
  ASSUME NEW S, NEW s \in Seq(S), NEW x \in S
  PROVE  /\ Append(s, x) \in Seq(S) /\ Len(Append(s, x)) = Len(s) + 1
         /\ Append(s, x)[Len(s) + 1] = x /\ \A i \in 1..Len(s) : Append(s, x)[i] = s[i]
         /\ \A k : Contains(Append(s, x), k) <=> Contains(s, k) \/ k = x
  <1>1. /\ Append(s, x) \in Seq(S) /\ Len(Append(s, x)) = Len(s) + 1 /\ Len(s) \in Nat
        /\ Append(s, x)[Len(s) + 1] = x
        /\ \A i \in 1..Len(s) : Append(s, x)[i] = s[i]
    OBVIOUS
  <1> DEFINE t == Append(s, x)
  <1> HIDE DEF t
  <1>2. ASSUME NEW k PROVE Contains(t, k) <=> Contains(s, k) \/ k = x
    <2>1. (\E i \in 1..Len(t) : t[i] = k) <=> (\E i \in 1..Len(s) : t[i] = k) \/ t[Len(s) + 1] = k
      BY <1>1 DEF t
    <2>2. (\E i \in 1..Len(s) : t[i] = k) <=> (\E i \in 1..Len(s) : s[i] = k)
      BY <1>1 DEF t
    <2> QED
      BY <1>1, <2>1, <2>2 DEF Contains, t
  <1> QED
    BY <1>1, <1>2 DEF t

\* f[i] is what is left of the first i elements of s when those at T are kept.
KeepsTo(f, s, T, n) ==
    /\ f[0] = << >>
    /\ \A i \in 1..n : f[i] = IF i \in T THEN Append(f[i - 1], s[i]) ELSE f[i - 1]

\* Such a function exists for every sequence.
LEMMA KeptExists ==
  ASSUME NEW S, NEW s \in Seq(S), NEW T
  PROVE  \E f : f \in [Nat -> Seq(S)] /\ KeepsTo(f, s, T, Len(s))
  <1> DEFINE step == [i \in Nat |-> [q \in Seq(S) |-> IF i \in 1..Len(s) /\ i \in T THEN Append(q, s[i]) ELSE q]]
  <1>1. Len(s) \in Nat /\ << >> \in Seq(S)
    OBVIOUS
  <1>2. ASSUME NEW i \in Nat
        PROVE  step[i] \in [Seq(S) -> Seq(S)]
    <2>1. ASSUME NEW q \in Seq(S), i \in 1..Len(s) PROVE Append(q, s[i]) \in Seq(S)
      BY <2>1
    <2> QED
      BY <2>1
  <1>3. step \in [Nat -> [Seq(S) -> Seq(S)]]
    BY <1>2
  <1>4. \A i \in 1..Len(s) : \A q \in Seq(S) : step[i][q] = IF i \in T THEN Append(q, s[i]) ELSE q
    <2> TAKE i \in 1..Len(s)
    <2> TAKE q \in Seq(S)
    <2>1. i \in Nat
      BY <1>1
    <2> QED
      BY <2>1
  <1> HIDE DEF step
  <1>5. PICK f : RecursTo(f, Seq(S), << >>, step, Len(s))
    BY <1>1, <1>3, RecursionExists
  <1>6. ASSUME NEW i \in 1..Len(s) PROVE f[i] = IF i \in T THEN Append(f[i - 1], s[i]) ELSE f[i - 1]
    <2>1. f[i - 1] \in Seq(S) /\ f[i] = step[i][f[i - 1]]
      BY <1>1, <1>5 DEF RecursTo
    <2> QED
      BY <1>4, <2>1
  <1>7. f \in [Nat -> Seq(S)] /\ f[0] = << >>
    BY <1>5 DEF RecursTo
  <1>8. KeepsTo(f, s, T, Len(s))
    BY <1>6, <1>7 DEF KeepsTo
  <1> QED
    BY <1>7, <1>8

\* So a definition by recursion over a sequence has the value it says.
LEMMA KeptIs ==
  ASSUME NEW S, NEW s \in Seq(S), NEW T
  PROVE  LET kept == CHOOSE e : e = [i \in 0..Len(s) |-> IF i = 0 THEN << >> ELSE
                        IF i \in T THEN Append(e[i - 1], s[i]) ELSE e[i - 1]]
         IN  KeepsTo(kept, s, T, Len(s))
  <1> DEFINE kept == CHOOSE e : e = [i \in 0..Len(s) |-> IF i = 0 THEN << >> ELSE
                        IF i \in T THEN Append(e[i - 1], s[i]) ELSE e[i - 1]]
  <1>1. Len(s) \in Nat
    OBVIOUS
  <1>2. PICK f : f \in [Nat -> Seq(S)] /\ KeepsTo(f, s, T, Len(s))
    BY KeptExists
  <1> DEFINE h == [i \in 0..Len(s) |-> f[i]]
  <1>3. h = [i \in 0..Len(s) |-> IF i = 0 THEN << >> ELSE
                        IF i \in T THEN Append(h[i - 1], s[i]) ELSE h[i - 1]]
    <2> SUFFICES ASSUME NEW i \in 0..Len(s)
                 PROVE  f[i] = IF i = 0 THEN << >> ELSE
                          IF i \in T THEN Append(h[i - 1], s[i]) ELSE h[i - 1]
      OBVIOUS
    <2>1. CASE i = 0
      BY <1>2, <2>1 DEF KeepsTo
    <2>2. CASE i # 0
      <3>1. i \in 1..Len(s) /\ i - 1 \in 0..Len(s)
        BY <1>1, <2>2
      <3>2. h[i - 1] = f[i - 1]
        BY <3>1
      <3>3. f[i] = IF i \in T THEN Append(f[i - 1], s[i]) ELSE f[i - 1]
        BY <1>2, <3>1 DEF KeepsTo
      <3> QED
        BY <2>2, <3>2, <3>3
    <2> QED
      BY <2>1, <2>2
  <1>4. kept = [i \in 0..Len(s) |-> IF i = 0 THEN << >> ELSE
                  IF i \in T THEN Append(kept[i - 1], s[i]) ELSE kept[i - 1]]
    <2> HIDE DEF h
    <2> QED
      BY <1>3
  <1> HIDE DEF kept
  <1>5. kept[0] = << >>
    BY <1>1, <1>4
  <1>6. \A i \in 1..Len(s) : kept[i] = IF i \in T THEN Append(kept[i - 1], s[i]) ELSE kept[i - 1]
    <2> TAKE i \in 1..Len(s)
    <2>1. i \in 0..Len(s) /\ i # 0
      BY <1>1
    <2> QED
      BY <1>4, <2>1
  <1>7. KeepsTo(kept, s, T, Len(s))
    BY <1>5, <1>6 DEF KeepsTo
  <1> QED
    BY <1>7 DEF kept

\* Which elements are left.
LEMMA KeptAre ==
  ASSUME NEW S, NEW s \in Seq(S), NEW T, NEW f, KeepsTo(f, s, T, Len(s))
  PROVE  /\ f[Len(s)] \in Seq(S) /\ Len(f[Len(s)]) <= Len(s)
         /\ \A k : Contains(f[Len(s)], k) <=> \E i \in 1..Len(s) : i \in T /\ s[i] = k
  <1> DEFINE Q == {n \in Nat : n <= Len(s) =>
                     /\ f[n] \in Seq(S) /\ Len(f[n]) <= n
                     /\ \A k : Contains(f[n], k) <=> \E i \in 1..n : i \in T /\ s[i] = k}
  <1>1. Len(s) \in Nat /\ \A i \in 1..Len(s) : s[i] \in S
    OBVIOUS
  <1>2. 0 \in Q
    <2>1. << >> \in Seq(S) /\ Len(<< >>) = 0 /\ \A k : ~Contains(<< >>, k)
      BY DEF Contains
    <2>2. \A k : ~ \E i \in 1..0 : i \in T /\ s[i] = k
      OBVIOUS
    <2>3. f[0] \in Seq(S) /\ Len(f[0]) <= 0 /\ \A k : ~Contains(f[0], k)
      BY <2>1 DEF KeepsTo
    <2> QED
      BY <2>2, <2>3
  <1>3. ASSUME NEW n \in Nat, n \in Q PROVE n + 1 \in Q
    <2> SUFFICES ASSUME n + 1 <= Len(s)
                 PROVE  /\ f[n + 1] \in Seq(S) /\ Len(f[n + 1]) <= n + 1
                        /\ \A k : Contains(f[n + 1], k) <=> \E i \in 1..n + 1 : i \in T /\ s[i] = k
      OBVIOUS
    <2>1. /\ f[n] \in Seq(S) /\ Len(f[n]) <= n
          /\ \A k : Contains(f[n], k) <=> \E i \in 1..n : i \in T /\ s[i] = k
      BY <1>1, <1>3
    <2>2. /\ n + 1 \in 1..Len(s) /\ (n + 1) - 1 = n
          /\ s[n + 1] \in S
      BY <1>1
    <2>3. f[n + 1] = IF n + 1 \in T THEN Append(f[n], s[n + 1]) ELSE f[n]
      BY <2>2 DEF KeepsTo
    <2>4. ASSUME NEW k
          PROVE  (\E i \in 1..n + 1 : i \in T /\ s[i] = k)
                   <=> (\E i \in 1..n : i \in T /\ s[i] = k) \/ (n + 1 \in T /\ s[n + 1] = k)
      OBVIOUS
    <2>5. CASE n + 1 \notin T
      <3>1. f[n + 1] = f[n]
        BY <2>3, <2>5
      <3>2. Len(f[n]) \in Nat /\ Len(f[n]) <= n + 1
        BY <2>1
      <3> QED
        BY <2>1, <2>4, <2>5, <3>1, <3>2
    <2>6. CASE n + 1 \in T
      <3>1. f[n + 1] = Append(f[n], s[n + 1])
        BY <2>3, <2>6
      <3>2. /\ f[n + 1] \in Seq(S) /\ Len(f[n + 1]) = Len(f[n]) + 1
            /\ \A k : Contains(f[n + 1], k) <=> Contains(f[n], k) \/ k = s[n + 1]
        BY <2>1, <2>2, <3>1, AppendIs
      <3>3. Len(f[n + 1]) <= n + 1
        <4>1. Len(f[n]) \in Nat
          BY <2>1
        <4> QED
          BY <2>1, <3>2, <4>1
      <3> QED
        BY <2>1, <2>4, <2>6, <3>2, <3>3
    <2> QED
      BY <2>5, <2>6
  <1>4. Len(s) \in Q
    <2> HIDE DEF Q
    <2> QED
      BY <1>1, <1>2, <1>3, SetInduction
  <1> QED
    BY <1>1, <1>4 DEF Contains

-----------------------------------------------------------------------------
(* Putting sequences one behind the other.                                  *)

\* f[i] is the first i sequences of ss, one behind the other.
JoinsTo(f, ss, n) ==
    /\ f[0] = << >>
    /\ \A i \in 1..n : f[i] = f[i - 1] \o ss[i]

\* FlattenSeq returns the last value of such a function.
LEMMA FlattenIs ==
  ASSUME NEW S, NEW ss \in Seq(Seq(S))
  PROVE  \E f : f \in [Nat -> Seq(S)] /\ JoinsTo(f, ss, Len(ss)) /\ FlattenSeq(ss) = f[Len(ss)]
  <1> DEFINE step == [i \in Nat |-> [q \in Seq(S) |-> IF i \in 1..Len(ss) THEN q \o ss[i] ELSE q]]
  <1>1. Len(ss) \in Nat /\ << >> \in Seq(S) /\ \A i \in 1..Len(ss) : ss[i] \in Seq(S)
    OBVIOUS
  <1>2. ASSUME NEW i \in Nat
        PROVE  step[i] \in [Seq(S) -> Seq(S)]
    <2>1. ASSUME NEW q \in Seq(S), i \in 1..Len(ss) PROVE q \o ss[i] \in Seq(S)
      BY <1>1, <2>1, ConcatProperties
    <2> QED
      BY <2>1
  <1>3. step \in [Nat -> [Seq(S) -> Seq(S)]]
    BY <1>2
  <1>4. \A i \in 1..Len(ss) : \A q \in Seq(S) : step[i][q] = q \o ss[i]
    <2> TAKE i \in 1..Len(ss)
    <2> TAKE q \in Seq(S)
    <2>1. i \in Nat
      BY <1>1
    <2> QED
      BY <2>1
  <1> HIDE DEF step
  <1>5. PICK f : RecursTo(f, Seq(S), << >>, step, Len(ss))
    BY <1>1, <1>3, RecursionExists
  <1>6. f \in [Nat -> Seq(S)] /\ JoinsTo(f, ss, Len(ss))
    <2>1. ASSUME NEW i \in 1..Len(ss) PROVE f[i] = f[i - 1] \o ss[i]
      <3>1. f[i - 1] \in Seq(S) /\ f[i] = step[i][f[i - 1]]
        BY <1>1, <1>5 DEF RecursTo
      <3> QED
        BY <1>4, <3>1
    <2> QED
      BY <1>5, <2>1 DEF RecursTo, JoinsTo
  <1>7. CASE Len(ss) = 0
    <2>1. FlattenSeq(ss) = << >>
      BY <1>7 DEF FlattenSeq
    <2> QED
      BY <1>6, <1>7, <2>1 DEF JoinsTo
  <1>8. CASE Len(ss) # 0
    <2> DEFINE h == [i \in 1..Len(ss) |-> f[i]]
               flat == CHOOSE e : e = [i \in 1..Len(ss) |-> IF i = 1 THEN ss[i] ELSE e[i - 1] \o ss[i]]
    <2>1. h = [i \in 1..Len(ss) |-> IF i = 1 THEN ss[i] ELSE h[i - 1] \o ss[i]]
      <3> SUFFICES ASSUME NEW i \in 1..Len(ss)
                   PROVE  f[i] = IF i = 1 THEN ss[i] ELSE h[i - 1] \o ss[i]
        OBVIOUS
      <3>1. f[i] = f[i - 1] \o ss[i]
        BY <1>6 DEF JoinsTo
      <3>2. CASE i = 1
        <4>1. << >> \o ss[i] = ss[i]
          BY <1>1, ConcatEmptySeq
        <4>2. f[i - 1] = << >>
          BY <1>6, <3>2 DEF JoinsTo
        <4> QED
          BY <3>1, <3>2, <4>1, <4>2
      <3>3. CASE i # 1
        <4>1. i - 1 \in 1..Len(ss)
          BY <1>1, <3>3
        <4>2. h[i - 1] = f[i - 1]
          BY <4>1
        <4> QED
          BY <3>1, <3>3, <4>2
      <3> QED
        BY <3>2, <3>3
    <2>2. flat = [i \in 1..Len(ss) |-> IF i = 1 THEN ss[i] ELSE flat[i - 1] \o ss[i]]
      <3> HIDE DEF h
      <3> QED
        BY <2>1
    <2> HIDE DEF flat
    <2>3. \A i \in 1..Len(ss) : flat[i] = IF i = 1 THEN ss[i] ELSE flat[i - 1] \o ss[i]
      BY <2>2
    <2> DEFINE Q == {n \in Nat : n + 1 <= Len(ss) => flat[n + 1] = f[n + 1]}
    <2>4. 0 \in Q
      <3>1. 1 \in 1..Len(ss) /\ 1 - 1 = 0
        BY <1>1, <1>8
      <3>2. flat[1] = ss[1]
        BY <2>3, <3>1
      <3>3. f[1] = << >> \o ss[1]
        BY <1>6, <3>1 DEF JoinsTo
      <3>4. << >> \o ss[1] = ss[1]
        BY <1>1, <3>1, ConcatEmptySeq
      <3> QED
        BY <3>2, <3>3, <3>4
    <2>5. ASSUME NEW n \in Nat, n \in Q PROVE n + 1 \in Q
      <3> SUFFICES ASSUME (n + 1) + 1 <= Len(ss) PROVE flat[(n + 1) + 1] = f[(n + 1) + 1]
        OBVIOUS
      <3> DEFINE k == (n + 1) + 1
      <3>1. k \in 1..Len(ss) /\ k # 1 /\ k - 1 = n + 1 /\ n + 1 <= Len(ss)
        BY <1>1
      <3> HIDE DEF k
      <3>2. flat[k] = flat[k - 1] \o ss[k]
        BY <2>3, <3>1
      <3>3. f[k] = f[k - 1] \o ss[k]
        BY <1>6, <3>1 DEF JoinsTo
      <3>4. flat[k - 1] = f[k - 1]
        BY <2>5, <3>1
      <3> QED
        BY <3>2, <3>3, <3>4 DEF k
    <2>6. Len(ss) - 1 \in Q
      <3>1. Len(ss) - 1 \in Nat
        BY <1>1, <1>8
      <3> HIDE DEF Q
      <3> QED
        BY <2>4, <2>5, <3>1, SetInduction
    <2>7. flat[Len(ss)] = f[Len(ss)]
      <3>1. (Len(ss) - 1) + 1 = Len(ss) /\ Len(ss) <= Len(ss)
        BY <1>1
      <3> QED
        BY <2>6, <3>1
    <2>8. FlattenSeq(ss) = flat[Len(ss)]
      BY <1>8 DEF FlattenSeq, flat
    <2> QED
      BY <1>6, <2>7, <2>8
  <1> QED
    BY <1>7, <1>8

-----------------------------------------------------------------------------
\* Sums over a finite set

\* The values of f, one element after the other, as SumFunctionOnSet takes them.
First(T) == CHOOSE x \in T : TRUE
SumsOf(g, f, T) == g[T] = IF T = {} THEN 0 ELSE f[First(T)] + g[T \ {First(T)}]

LEMMA FirstIs ==
  ASSUME NEW T, IsFiniteSet(T), T # {}
  PROVE  /\ First(T) \in T /\ IsFiniteSet(T \ {First(T)})
         /\ Cardinality(T \ {First(T)}) = Cardinality(T) - 1 /\ Cardinality(T) \in Nat \ {0}
  <1>1. First(T) \in T
    BY DEF First
  <1>2. Cardinality(T) \in Nat /\ Cardinality(T) # 0
    BY FS_CardinalityType, FS_EmptySet
  <1> QED
    BY <1>1, <1>2, FS_RemoveElement

LEMMA SubFinite ==
  ASSUME NEW D, IsFiniteSet(D), NEW T \in SUBSET D
  PROVE  IsFiniteSet(T) /\ Cardinality(T) \in Nat /\ Cardinality(T) <= Cardinality(D)
  BY FS_Subset, FS_CardinalityType

LEMMA SumsExist ==
  ASSUME NEW D, IsFiniteSet(D), NEW f, NEW V \in {Nat, Int}, \A x \in D : f[x] \in V
  PROVE  \E g \in [SUBSET D -> V] : \A T \in SUBSET D : SumsOf(g, f, T)
  <1> DEFINE Good(g, n) == \A T \in SUBSET D : Cardinality(T) <= n => SumsOf(g, f, T)
             P == {n \in Nat : \E g \in [SUBSET D -> V] : Good(g, n)}
  <1>1. 0 \in P
    <2> DEFINE g == [T \in SUBSET D |-> 0]
    <2>1. ASSUME NEW T \in SUBSET D, Cardinality(T) <= 0 PROVE SumsOf(g, f, T)
      <3>1. T = {}
        BY <2>1, SubFinite, FS_EmptySet
      <3> QED
        BY <3>1 DEF SumsOf
    <2>2. g \in [SUBSET D -> V] /\ Good(g, 0)
      <3>1. 0 \in V
        OBVIOUS
      <3> QED
        BY <2>1, <3>1
    <2> QED
      BY <2>2
  <1>2. ASSUME NEW n \in Nat, n \in P PROVE n + 1 \in P
    <2>1. PICK g \in [SUBSET D -> V] : Good(g, n)
      BY <1>2
    <2> DEFINE h == [T \in SUBSET D |-> IF T = {} THEN 0 ELSE f[First(T)] + g[T \ {First(T)}]]
    <2>2. ASSUME NEW T \in SUBSET D, T # {}
          PROVE  First(T) \in D /\ T \ {First(T)} \in SUBSET D
      BY <2>2 DEF First
    <2>3. h \in [SUBSET D -> V]
      <3> SUFFICES ASSUME NEW T \in SUBSET D, T # {} PROVE f[First(T)] + g[T \ {First(T)}] \in V
        OBVIOUS
      <3>1. f[First(T)] \in V /\ g[T \ {First(T)}] \in V
        BY <2>2
      <3> QED
        BY <3>1
    <2>4. ASSUME NEW T \in SUBSET D, Cardinality(T) <= n PROVE h[T] = g[T]
      BY <2>1, <2>4 DEF SumsOf
    <2>5. ASSUME NEW T \in SUBSET D, Cardinality(T) <= n + 1 PROVE SumsOf(h, f, T)
      <3>1. CASE T = {}
        BY <3>1 DEF SumsOf
      <3>2. CASE T # {}
        <4>1. T \ {First(T)} \in SUBSET D /\ Cardinality(T \ {First(T)}) <= n
          BY <2>2, <2>5, <3>2, FirstIs, SubFinite
        <4>2. h[T \ {First(T)}] = g[T \ {First(T)}]
          BY <2>4, <4>1
        <4>3. h[T] = f[First(T)] + g[T \ {First(T)}]
          BY <3>2
        <4> HIDE DEF h
        <4> QED
          BY <3>2, <4>2, <4>3 DEF SumsOf
      <3> QED
        BY <3>1, <3>2
    <2> HIDE DEF h
    <2> QED
      BY <2>3, <2>5
  <1>3. Cardinality(D) \in P
    <2>1. Cardinality(D) \in Nat
      BY FS_CardinalityType
    <2> HIDE DEF P
    <2> QED
      BY <1>1, <1>2, <2>1, SetInduction
  <1> QED
    BY <1>3, SubFinite

AreSums(g, f, D, V) ==
    /\ g \in [SUBSET D -> V]
    /\ \A T \in SUBSET D : SumsOf(g, f, T) /\ SumFunctionOnSet(f, T) = g[T]

LEMMA SumIs ==
  ASSUME NEW D, IsFiniteSet(D), NEW f, NEW V \in {Nat, Int}, \A x \in D : f[x] \in V
  PROVE  \E g : AreSums(g, f, D, V)
  <1>1. PICK g \in [SUBSET D -> V] : \A T \in SUBSET D : SumsOf(g, f, T)
    BY SumsExist
  <1>2. ASSUME NEW S \in SUBSET D PROVE SumFunctionOnSet(f, S) = g[S]
    <2> DEFINE iter == CHOOSE it : it = [s \in SUBSET S |-> IF s = {} THEN 0
                          ELSE f[CHOOSE x \in s : TRUE] + it[s \ {CHOOSE x \in s : TRUE}]]
               h == [T \in SUBSET S |-> g[T]]
    <2>1. SumFunctionOnSet(f, S) = iter[S]
      BY DEF SumFunctionOnSet, FoldFunctionOnSet, MapThenFoldSet
    <2>2. h = [s \in SUBSET S |-> IF s = {} THEN 0
                          ELSE f[CHOOSE x \in s : TRUE] + h[s \ {CHOOSE x \in s : TRUE}]]
      <3> SUFFICES ASSUME NEW s \in SUBSET S
                   PROVE  g[s] = IF s = {} THEN 0 ELSE f[First(s)] + h[s \ {First(s)}]
        BY DEF First
      <3>1. s \in SUBSET D /\ s \ {First(s)} \in SUBSET S
        OBVIOUS
      <3>2. h[s \ {First(s)}] = g[s \ {First(s)}]
        BY <3>1
      <3> HIDE DEF h
      <3> QED
        BY <1>1, <3>1, <3>2 DEF SumsOf
    <2>3. iter = [s \in SUBSET S |-> IF s = {} THEN 0
                          ELSE f[CHOOSE x \in s : TRUE] + iter[s \ {CHOOSE x \in s : TRUE}]]
      <3> HIDE DEF h
      <3> QED
        BY <2>2
    <2>4. \A s \in SUBSET S : iter[s] = IF s = {} THEN 0 ELSE f[First(s)] + iter[s \ {First(s)}]
      <3> HIDE DEF iter
      <3> QED
        BY <2>3 DEF First
    <2> HIDE DEF iter
    <2> DEFINE Q == {n \in Nat : \A T \in SUBSET S : Cardinality(T) <= n => iter[T] = g[T]}
    <2>5. 0 \in Q
      <3> SUFFICES ASSUME NEW T \in SUBSET S, Cardinality(T) <= 0 PROVE iter[T] = g[T]
        OBVIOUS
      <3>1. T \in SUBSET D /\ T = {}
        BY SubFinite, FS_EmptySet
      <3> QED
        BY <1>1, <2>4, <3>1 DEF SumsOf
    <2>6. ASSUME NEW n \in Nat, n \in Q PROVE n + 1 \in Q
      <3> SUFFICES ASSUME NEW T \in SUBSET S, Cardinality(T) <= n + 1 PROVE iter[T] = g[T]
        OBVIOUS
      <3>1. T \in SUBSET D /\ IsFiniteSet(T)
        BY SubFinite
      <3>2. CASE T = {}
        BY <1>1, <2>4, <3>1, <3>2 DEF SumsOf
      <3>3. CASE T # {}
        <4>1. T \ {First(T)} \in SUBSET S /\ Cardinality(T \ {First(T)}) <= n
          <5>1. Cardinality(T \ {First(T)}) = Cardinality(T) - 1 /\ Cardinality(T) \in Nat
            BY <3>1, <3>3, FirstIs
          <5> QED
            BY <5>1
        <4>2. iter[T \ {First(T)}] = g[T \ {First(T)}]
          BY <2>6, <4>1
        <4>3. SumsOf(g, f, T)
          BY <1>1, <3>1
        <4>4. iter[T] = f[First(T)] + iter[T \ {First(T)}]
          BY <2>4, <3>3
        <4> HIDE DEF Q
        <4> QED
          BY <3>3, <4>2, <4>3, <4>4 DEF SumsOf
      <3> QED
        BY <3>2, <3>3
    <2>7. Cardinality(S) \in Q
      <3>1. Cardinality(S) \in Nat
        BY SubFinite
      <3> HIDE DEF Q
      <3> QED
        BY <2>5, <2>6, <3>1, SetInduction
    <2>8. iter[S] = g[S]
      <3>1. Cardinality(S) <= Cardinality(S)
        BY SubFinite
      <3> QED
        BY <2>7, <3>1
    <2> QED
      BY <2>1, <2>8
  <1> QED
    BY <1>1, <1>2 DEF AreSums

\* A sum over no, and over one more, element: of natural numbers, and of integers.
LEMMA SumOf ==
  ASSUME NEW D, IsFiniteSet(D), NEW f, NEW V \in {Nat, Int}, \A x \in D : f[x] \in V
  PROVE  /\ SumFunctionOnSet(f, {}) = 0 /\ SumFunctionOnSet(f, D) \in V
         /\ \A x \in D : SumFunctionOnSet(f, D) = f[x] + SumFunctionOnSet(f, D \ {x})
  <1>0. PICK g : AreSums(g, f, D, V)
    BY SumIs
  <1>1. g \in [SUBSET D -> V] /\ \A T \in SUBSET D : SumsOf(g, f, T) /\ SumFunctionOnSet(f, T) = g[T]
    BY <1>0 DEF AreSums
  <1> DEFINE Q == {n \in Nat : \A T \in SUBSET D : Cardinality(T) <= n =>
                     \A x \in T : g[T] = f[x] + g[T \ {x}]}
  <1>2. 0 \in Q
    <2> SUFFICES ASSUME NEW T \in SUBSET D, Cardinality(T) <= 0 PROVE T = {}
      OBVIOUS
    <2> QED
      BY SubFinite, FS_EmptySet
  <1>3. ASSUME NEW n \in Nat, n \in Q PROVE n + 1 \in Q
    <2> SUFFICES ASSUME NEW T \in SUBSET D, Cardinality(T) <= n + 1, NEW x \in T
                 PROVE  g[T] = f[x] + g[T \ {x}]
      OBVIOUS
    <2> DEFINE c == First(T)
               U == T \ {c}
               W == T \ {x}
    <2>1. IsFiniteSet(T) /\ T # {} /\ c \in T
      BY SubFinite DEF First
    <2>2. g[T] = f[c] + g[U]
      BY <1>1, <2>1 DEF SumsOf
    <2>3. CASE x = c
      BY <2>2, <2>3
    <2>4. CASE x # c
      <3>1. Cardinality(U) <= n /\ Cardinality(W) <= n
        <4>1. Cardinality(U) = Cardinality(T) - 1 /\ Cardinality(W) = Cardinality(T) - 1
          BY <2>1, FS_RemoveElement
        <4>2. Cardinality(T) \in Nat
          BY SubFinite
        <4> HIDE DEF U, W
        <4> QED
          BY <4>1, <4>2
      <3>2. U \in SUBSET D /\ W \in SUBSET D /\ x \in U /\ c \in W /\ U \ {x} = W \ {c}
        BY <2>1, <2>4
      <3> HIDE DEF U, W, c
      <3>3. g[U] = f[x] + g[U \ {x}] /\ g[W] = f[c] + g[W \ {c}]
        BY <1>3, <3>1, <3>2
      <3>4. f[x] \in V /\ f[c] \in V /\ g[U \ {x}] \in V
        <4>1. x \in D /\ c \in D /\ U \ {x} \in SUBSET D
          BY <3>2
        <4>2. g[U \ {x}] \in V
          BY <1>1, <4>1
        <4> QED
          BY <4>1, <4>2
      <3>5. g[T] = f[x] + g[W]
        <4>1. g[U] = f[x] + g[U \ {x}] /\ g[W] = f[c] + g[U \ {x}]
          BY <3>2, <3>3
        <4> QED
          BY <2>2, <3>4, <4>1
      <3> QED
        BY <3>5 DEF W
    <2> QED
      BY <2>3, <2>4
  <1>4. Cardinality(D) \in Nat
    BY FS_CardinalityType
  <1>5. Cardinality(D) \in Q
    <2> HIDE DEF Q
    <2> QED
      BY <1>2, <1>3, <1>4, SetInduction
  <1>6. \A x \in D : g[D] = f[x] + g[D \ {x}]
    BY <1>4, <1>5
  <1>7. SumFunctionOnSet(f, {}) = 0 /\ SumFunctionOnSet(f, D) = g[D] /\ g[D] \in V
    BY <1>1 DEF SumsOf
  <1>8. \A x \in D : SumFunctionOnSet(f, D \ {x}) = g[D \ {x}]
    BY <1>1
  <1> QED
    BY <1>6, <1>7, <1>8

LEMMA SumOne ==
  ASSUME NEW D, IsFiniteSet(D), NEW f, \A x \in D : f[x] \in Nat
  PROVE  /\ SumFunctionOnSet(f, {}) = 0 /\ SumFunctionOnSet(f, D) \in Nat
         /\ \A x \in D : SumFunctionOnSet(f, D) = f[x] + SumFunctionOnSet(f, D \ {x})
  BY SumOf

LEMMA IntSumOne ==
  ASSUME NEW D, IsFiniteSet(D), NEW f, \A x \in D : f[x] \in Int
  PROVE  /\ SumFunctionOnSet(f, {}) = 0 /\ SumFunctionOnSet(f, D) \in Int
         /\ \A x \in D : SumFunctionOnSet(f, D) = f[x] + SumFunctionOnSet(f, D \ {x})
  BY SumOf

\* A function that is at most v is at most v times the number of elements in sum.
LEMMA SumAtMost ==
  ASSUME NEW D, IsFiniteSet(D), NEW f, NEW v \in Nat, \A x \in D : f[x] \in Nat /\ f[x] <= v
  PROVE  SumFunctionOnSet(f, D) <= Cardinality(D) * v
  <1> DEFINE Q == {n \in Nat : \A T \in SUBSET D : Cardinality(T) = n => SumFunctionOnSet(f, T) <= n * v}
  <1>1. 0 \in Q
    <2> SUFFICES ASSUME NEW T \in SUBSET D, Cardinality(T) = 0 PROVE SumFunctionOnSet(f, T) <= 0 * v
      OBVIOUS
    <2>1. IsFiniteSet(T) /\ T = {}
      BY SubFinite, FS_EmptySet
    <2>2. SumFunctionOnSet(f, T) = 0
      BY <2>1, SumOne
    <2> QED
      BY <2>2
  <1>2. ASSUME NEW n \in Nat, n \in Q PROVE n + 1 \in Q
    <2> SUFFICES ASSUME NEW T \in SUBSET D, Cardinality(T) = n + 1
                 PROVE  SumFunctionOnSet(f, T) <= (n + 1) * v
      OBVIOUS
    <2>1. IsFiniteSet(T) /\ T # {}
      BY SubFinite, FS_EmptySet
    <2>2. PICK x \in T : TRUE
      BY <2>1
    <2>3. /\ SumFunctionOnSet(f, T) = f[x] + SumFunctionOnSet(f, T \ {x})
          /\ f[x] \in Nat /\ f[x] <= v
      BY <2>1, SumOne
    <2>4. T \ {x} \in SUBSET D /\ IsFiniteSet(T \ {x}) /\ Cardinality(T \ {x}) = n
      <3>1. Cardinality(T \ {x}) = (n + 1) - 1 /\ IsFiniteSet(T \ {x})
        BY <2>1, FS_RemoveElement
      <3> QED
        BY <3>1
    <2>5. SumFunctionOnSet(f, T \ {x}) <= n * v
      BY <1>2, <2>4
    <2>6. SumFunctionOnSet(f, T \ {x}) \in Nat
      BY <2>4, SumOne
    <2>7. (n + 1) * v = n * v + v /\ n * v \in Nat
      OBVIOUS
    <2> QED
      BY <2>3, <2>5, <2>6, <2>7
  <1>3. Cardinality(D) \in Nat
    BY FS_CardinalityType
  <1>4. Cardinality(D) \in Q
    <2> HIDE DEF Q
    <2> QED
      BY <1>1, <1>2, <1>3, SetInduction
  <1> QED
    BY <1>4

\* A sum is at least each of its elements, and at least their number if each is positive.
LEMMA SumAtLeast ==
  ASSUME NEW D, IsFiniteSet(D), NEW f, \A x \in D : f[x] \in Nat
  PROVE  /\ \A x \in D : f[x] <= SumFunctionOnSet(f, D)
         /\ (\A x \in D : f[x] >= 1) => Cardinality(D) <= SumFunctionOnSet(f, D)
  <1>1. ASSUME NEW x \in D PROVE f[x] <= SumFunctionOnSet(f, D)
    <2>1. SumFunctionOnSet(f, D) = f[x] + SumFunctionOnSet(f, D \ {x})
      BY SumOne
    <2>2. IsFiniteSet(D \ {x})
      BY FS_RemoveElement
    <2>3. SumFunctionOnSet(f, D \ {x}) \in Nat
      BY <2>2, SumOne
    <2> QED
      BY <2>1, <2>3
  <1>2. ASSUME \A x \in D : f[x] >= 1 PROVE Cardinality(D) <= SumFunctionOnSet(f, D)
    <2> DEFINE Q == {n \in Nat : \A T \in SUBSET D : Cardinality(T) = n => n <= SumFunctionOnSet(f, T)}
    <2>1. 0 \in Q
      <3> SUFFICES ASSUME NEW T \in SUBSET D, Cardinality(T) = 0 PROVE 0 <= SumFunctionOnSet(f, T)
        OBVIOUS
      <3>1. IsFiniteSet(T) /\ T = {}
        BY SubFinite, FS_EmptySet
      <3>2. SumFunctionOnSet(f, T) = 0
        BY <3>1, SumOne
      <3> QED
        BY <3>2
    <2>2. ASSUME NEW n \in Nat, n \in Q PROVE n + 1 \in Q
      <3> SUFFICES ASSUME NEW T \in SUBSET D, Cardinality(T) = n + 1
                   PROVE  n + 1 <= SumFunctionOnSet(f, T)
        OBVIOUS
      <3>1. IsFiniteSet(T) /\ T # {}
        BY SubFinite, FS_EmptySet
      <3>2. PICK x \in T : TRUE
        BY <3>1
      <3>3. SumFunctionOnSet(f, T) = f[x] + SumFunctionOnSet(f, T \ {x}) /\ f[x] \in Nat /\ f[x] >= 1
        BY <1>2, <3>1, SumOne
      <3>4. T \ {x} \in SUBSET D /\ IsFiniteSet(T \ {x}) /\ Cardinality(T \ {x}) = n
        <4>1. Cardinality(T \ {x}) = (n + 1) - 1 /\ IsFiniteSet(T \ {x})
          BY <3>1, FS_RemoveElement
        <4> QED
          BY <4>1
      <3>5. n <= SumFunctionOnSet(f, T \ {x})
        BY <2>2, <3>4
      <3>6. SumFunctionOnSet(f, T \ {x}) \in Nat
        BY <3>4, SumOne
      <3> QED
        BY <3>3, <3>5, <3>6
    <2>3. Cardinality(D) \in Nat
      BY FS_CardinalityType
    <2>4. Cardinality(D) \in Q
      <3> HIDE DEF Q
      <3> QED
        BY <2>1, <2>2, <2>3, SetInduction
    <2> QED
      BY <2>4
  <1> QED
    BY <1>1, <1>2

-----------------------------------------------------------------------------
\* The elements of a set in an order

\* R orders S: a place for each element.
IsOrder(R, S) ==
    /\ \A d \in S : <<d, d>> \notin R
    /\ \A d, e \in S : d # e => <<d, e>> \in R \/ <<e, d>> \in R
    /\ \A d, e, f \in S : <<d, e>> \in R /\ <<e, f>> \in R => <<d, f>> \in R
Preceding(R, S, d) == {e \in S : <<e, d>> \in R}

LEMMA AheadIs ==
  ASSUME NEW S, IsFiniteSet(S), NEW R, IsOrder(R, S), NEW d \in S
  PROVE  /\ IsFiniteSet(Preceding(R, S, d)) /\ Cardinality(Preceding(R, S, d)) \in 0..(Cardinality(S) - 1)
         /\ \A e \in S : <<d, e>> \in R => Cardinality(Preceding(R, S, d)) < Cardinality(Preceding(R, S, e))
  <1>1. \A e \in S : IsFiniteSet(Preceding(R, S, e)) /\ Cardinality(Preceding(R, S, e)) \in Nat
    BY SubFinite DEF Preceding
  <1>2. ASSUME NEW X, NEW Y \in SUBSET X, IsFiniteSet(X), NEW x \in X, x \notin Y
        PROVE  Cardinality(Y) < Cardinality(X) /\ Cardinality(X) \in Nat
    BY <1>2, FS_Subset, FS_CardinalityType, SubFinite
  <1>3. Cardinality(Preceding(R, S, d)) < Cardinality(S) /\ Cardinality(S) \in Nat
    <2>1. Preceding(R, S, d) \in SUBSET S /\ d \notin Preceding(R, S, d)
      BY DEF Preceding, IsOrder
    <2> QED
      BY <1>2, <2>1
  <1>4. ASSUME NEW e \in S, <<d, e>> \in R
        PROVE  Cardinality(Preceding(R, S, d)) < Cardinality(Preceding(R, S, e))
    <2>1. Preceding(R, S, d) \in SUBSET Preceding(R, S, e) /\ d \notin Preceding(R, S, d) /\ d \in Preceding(R, S, e)
      BY <1>4 DEF Preceding, IsOrder
    <2> QED
      BY <1>1, <1>2, <2>1
  <1> QED
    BY <1>1, <1>3, <1>4

\* Every place has an element.
LEMMA PlacesFilled ==
  ASSUME NEW S, IsFiniteSet(S), NEW R, IsOrder(R, S), NEW k \in 1..Cardinality(S)
  PROVE  \E d \in S : Cardinality(Preceding(R, S, d)) = k - 1
  <1> DEFINE f == [d \in S |-> Cardinality(Preceding(R, S, d))]
             T == 0..(Cardinality(S) - 1)
  <1>1. Cardinality(S) \in Nat
    BY FS_CardinalityType
  <1>2. f \in [S -> T]
    BY AheadIs
  <1>3. ASSUME NEW d \in S, NEW e \in S, d # e PROVE f[d] # f[e]
    <2>1. f[d] \in Nat /\ f[e] \in Nat
      BY <1>1, <1>2
    <2>2. CASE <<d, e>> \in R
      BY <2>1, <2>2, AheadIs
    <2>3. CASE <<e, d>> \in R
      BY <2>1, <2>3, AheadIs
    <2> QED
      BY <1>3, <2>2, <2>3 DEF IsOrder
  <1>4. f \in Injection(S, T)
    BY <1>2, <1>3 DEF Injection, IsInjective
  <1>5. IsFiniteSet(T) /\ Cardinality(T) = Cardinality(S)
    <2>1. 0 \in Int /\ Cardinality(S) - 1 \in Int
      BY <1>1
    <2>2. IsFiniteSet(T) /\ Cardinality(T) = IF 0 > Cardinality(S) - 1 THEN 0 ELSE (Cardinality(S) - 1) - 0 + 1
      BY <2>1, FS_Interval
    <2> QED
      BY <1>1, <2>2
  <1>6. f \in Surjection(S, T)
    <2> HIDE DEF f, T
    <2> QED
      BY <1>4, <1>5, FS_Injection
  <1>7. k - 1 \in T
    BY <1>1
  <1>8. PICK d \in S : f[d] = k - 1
    BY <1>6, <1>7 DEF Surjection
  <1> QED
    BY <1>8

\* A list of all elements, each in its place.
LEMMA LinedUp ==
  ASSUME NEW S, IsFiniteSet(S), NEW R, IsOrder(R, S), NEW o,
         o = [k \in 1..Cardinality(S) |-> o[k]],
         \A k \in 1..Cardinality(S) : o[k] \in S /\ Cardinality(Preceding(R, S, o[k])) = k - 1
  PROVE  /\ o \in Seq(S) /\ Len(o) = Cardinality(S) /\ Len(o) \in Nat
         /\ \A i, j \in 1..Len(o) : o[i] = o[j] => i = j
         /\ \A d \in S : \E k \in 1..Len(o) : o[k] = d
         /\ \A i, j \in 1..Len(o) : i < j => <<o[i], o[j]>> \in R
  <1>1. Cardinality(S) \in Nat
    BY FS_CardinalityType
  <1>2. o \in Seq(S) /\ Len(o) = Cardinality(S)
    <2>1. o \in [1..Cardinality(S) -> S]
      <3> DEFINE n == Cardinality(S)
      <3> HIDE DEF n
      <3>1. o = [k \in 1..n |-> o[k]] /\ \A k \in 1..n : o[k] \in S
        BY DEF n
      <3>2. o \in [1..n -> S]
        BY <3>1
      <3> QED
        BY <3>2 DEF n
    <2> QED
      BY <1>1, <2>1
  <1>3. ASSUME NEW i \in 1..Len(o), NEW j \in 1..Len(o), o[i] = o[j] PROVE i = j
    <2>1. i - 1 = j - 1
      BY <1>2, <1>3
    <2> QED
      BY <1>1, <1>2, <2>1
  <1>4. ASSUME NEW d \in S PROVE \E k \in 1..Len(o) : o[k] = d
    <2> DEFINE k == Cardinality(Preceding(R, S, d)) + 1
    <2>1. k \in 1..Cardinality(S)
      BY <1>1, AheadIs
    <2>2. o[k] \in S /\ Cardinality(Preceding(R, S, o[k])) = k - 1
      BY <2>1
    <2>3. Cardinality(Preceding(R, S, d)) \in Nat
      BY <1>1, AheadIs
    <2>4. ~(<<o[k], d>> \in R) /\ ~(<<d, o[k]>> \in R)
      <3> DEFINE e == o[k]
      <3>1. e \in S /\ Cardinality(Preceding(R, S, e)) = Cardinality(Preceding(R, S, d))
        BY <2>2, <2>3
      <3> HIDE DEF e, k
      <3>2. ~(<<e, d>> \in R) /\ ~(<<d, e>> \in R)
        BY <2>3, <3>1, AheadIs
      <3> QED
        BY <3>2 DEF e
    <2>5. o[k] = d
      BY <2>2, <2>4 DEF IsOrder
    <2> HIDE DEF k
    <2> QED
      BY <1>2, <2>1, <2>5
  <1>5. ASSUME NEW i \in 1..Len(o), NEW j \in 1..Len(o), i < j PROVE <<o[i], o[j]>> \in R
    <2>1. o[i] \in S /\ o[j] \in S /\ o[i] # o[j]
      <3>1. i # j
        BY <1>1, <1>2, <1>5
      <3> QED
        BY <1>2, <1>3, <3>1
    <2>2. Cardinality(Preceding(R, S, o[i])) = i - 1 /\ Cardinality(Preceding(R, S, o[j])) = j - 1
      BY <1>2
    <2>3. ~(<<o[j], o[i]>> \in R)
      <3> SUFFICES ASSUME <<o[j], o[i]>> \in R PROVE FALSE
        OBVIOUS
      <3>1. Cardinality(Preceding(R, S, o[j])) < Cardinality(Preceding(R, S, o[i]))
        BY <2>1, AheadIs
      <3>2. j - 1 < i - 1
        BY <2>2, <3>1
      <3> QED
        BY <1>1, <1>2, <1>5, <3>2
    <2> QED
      BY <2>1, <2>3 DEF IsOrder
  <1> QED
    BY <1>1, <1>2, <1>3, <1>4, <1>5

\* Of numbers in a row one is the largest, and the first of those.
LEMMA FirstLargest ==
  ASSUME NEW n \in Nat \ {0}, NEW f \in [1..n -> Nat]
  PROVE  \E k \in 1..n : (\A j \in 1..n : f[j] <= f[k]) /\ (\A j \in 1..(k - 1) : f[j] < f[k])
  <1> DEFINE Q == {m \in Nat : m + 1 <= n => \E k \in 1..(m + 1) : \A j \in 1..(m + 1) : f[j] <= f[k]}
  <1>1. 0 \in Q
    <2>1. 1 \in 1..(0 + 1) /\ \A j \in 1..(0 + 1) : j = 1
      OBVIOUS
    <2>2. f[1] \in Nat
      OBVIOUS
    <2> QED
      BY <2>1, <2>2
  <1>2. ASSUME NEW m \in Nat, m \in Q PROVE m + 1 \in Q
    <2> SUFFICES ASSUME (m + 1) + 1 <= n
                 PROVE  \E k \in 1..((m + 1) + 1) : \A j \in 1..((m + 1) + 1) : f[j] <= f[k]
      OBVIOUS
    <2>1. PICK k \in 1..(m + 1) : \A j \in 1..(m + 1) : f[j] <= f[k]
      BY <1>2
    <2> DEFINE l == (m + 1) + 1
    <2>2. \A j \in 1..l : j \in 1..(m + 1) \/ j = l
      OBVIOUS
    <2>3. l \in 1..l /\ k \in 1..l /\ 1..l \subseteq 1..n
      OBVIOUS
    <2> HIDE DEF l
    <2>4. \A j \in 1..l : f[j] \in Nat
      BY <2>3
    <2>5. CASE f[l] <= f[k]
      BY <2>1, <2>2, <2>3, <2>5 DEF l
    <2>6. CASE ~(f[l] <= f[k])
      <3>1. \A j \in 1..l : f[j] <= f[l]
        BY <2>1, <2>2, <2>3, <2>4, <2>6
      <3> QED
        BY <2>3, <3>1 DEF l
    <2> QED
      BY <2>5, <2>6
  <1>3. n - 1 \in Q
    <2> HIDE DEF Q
    <2>1. n - 1 \in Nat
      OBVIOUS
    <2> QED
      BY <1>1, <1>2, <2>1, SetInduction
  <1> DEFINE M == {k \in 1..n : \A j \in 1..n : f[j] <= f[k]}
  <1>4. M # {} /\ M \subseteq Nat
    <2>1. (n - 1) + 1 = n /\ n <= n
      OBVIOUS
    <2>2. PICK k \in 1..n : \A j \in 1..n : f[j] <= f[k]
      BY <1>3, <2>1
    <2> QED
      BY <2>2
  <1>5. PICK k \in M : \A j \in M : k <= j
    <2> HIDE DEF M
    <2> QED
      BY <1>4, LeastExists
  <1>6. ASSUME NEW j \in 1..(k - 1) PROVE f[j] < f[k]
    <2>1. j \in 1..n /\ ~(k <= j) /\ f[j] \in Nat /\ f[k] \in Nat /\ f[j] <= f[k]
      BY <1>5
    <2>2. j \notin M
      <3> HIDE DEF M
      <3> QED
        BY <1>5, <2>1
    <2>3. PICK i \in 1..n : ~(f[i] <= f[j])
      BY <2>1, <2>2
    <2>4. f[i] <= f[k] /\ f[i] \in Nat
      BY <1>5
    <2> QED
      BY <2>1, <2>3, <2>4
  <1> QED
    BY <1>5, <1>6

-----------------------------------------------------------------------------
\* Lists without repetitions

Distinct(dir) == \A i, j \in 1..Len(dir) : dir[i] = dir[j] => i = j

\* What is kept of a list without repetitions has none.
LEMMA KeptDistinct ==
    ASSUME NEW S, NEW s \in Seq(S), Distinct(s), NEW T, NEW k, KeepsTo(k, s, T, Len(s))
    PROVE  Distinct(k[Len(s)])
<1> DEFINE Q == {n \in Nat : n <= Len(s) =>
                   /\ k[n] \in Seq(S) /\ Distinct(k[n])
                   /\ \A i \in 1..Len(k[n]) : \E j \in 1..n : k[n][i] = s[j]}
<1>1. Len(s) \in Nat /\ \A i \in 1..Len(s) : s[i] \in S
  OBVIOUS
<1>2. 0 \in Q
  <2>1. << >> \in Seq(S) /\ Len(<< >>) = 0
    OBVIOUS
  <2>2. k[0] = << >>
    BY DEF KeepsTo
  <2>3. k[0] \in Seq(S) /\ 1..Len(k[0]) = {}
    BY <2>1, <2>2
  <2>4. Distinct(k[0])
    BY <2>3 DEF Distinct
  <2> QED
    BY <2>3, <2>4
<1>3. ASSUME NEW n \in Nat, n \in Q PROVE n + 1 \in Q
  <2> SUFFICES ASSUME n + 1 <= Len(s)
               PROVE  /\ k[n + 1] \in Seq(S) /\ Distinct(k[n + 1])
                      /\ \A i \in 1..Len(k[n + 1]) : \E j \in 1..n + 1 : k[n + 1][i] = s[j]
    OBVIOUS
  <2>1. /\ k[n] \in Seq(S) /\ Distinct(k[n]) /\ Len(k[n]) \in Nat
        /\ \A i \in 1..Len(k[n]) : \E j \in 1..n : k[n][i] = s[j]
    BY <1>1, <1>3
  <2>2. n + 1 \in 1..Len(s) /\ (n + 1) - 1 = n /\ s[n + 1] \in S /\ 1..n \subseteq 1..n + 1
    BY <1>1
  <2>3. k[n + 1] = IF n + 1 \in T THEN Append(k[n], s[n + 1]) ELSE k[n]
    BY <2>2 DEF KeepsTo
  <2>4. CASE n + 1 \notin T
    BY <2>1, <2>2, <2>3, <2>4
  <2>5. CASE n + 1 \in T
    <3> DEFINE t == Append(k[n], s[n + 1])
               l == Len(k[n])
    <3>1. t \in Seq(S) /\ Len(t) = l + 1 /\ t[l + 1] = s[n + 1] /\ \A i \in 1..l : t[i] = k[n][i]
      BY <2>1, <2>2, AppendIs
    <3>2. \A i \in 1..l : k[n][i] # s[n + 1]
      <4> SUFFICES ASSUME NEW i \in 1..l, k[n][i] = s[n + 1] PROVE FALSE
        OBVIOUS
      <4>1. PICK j \in 1..n : s[j] = s[n + 1]
        BY <2>1
      <4>2. j \in 1..Len(s) /\ j # n + 1
        BY <1>1, <2>2
      <4> QED
        BY <2>2, <4>1, <4>2 DEF Distinct
    <3> HIDE DEF t
    <3>3. \A i \in 1..Len(t) : i \in 1..l \/ i = l + 1
      BY <2>1, <3>1
    <3>4. Distinct(t)
      <4> SUFFICES ASSUME NEW i \in 1..Len(t), NEW j \in 1..Len(t), t[i] = t[j] PROVE i = j
        BY DEF Distinct
      <4>1. CASE i \in 1..l /\ j \in 1..l
        BY <2>1, <3>1, <4>1 DEF Distinct
      <4>2. CASE ~(i \in 1..l /\ j \in 1..l)
        BY <3>1, <3>2, <3>3, <4>2
      <4> QED
        BY <4>1, <4>2
    <3>5. \A i \in 1..Len(t) : \E j \in 1..n + 1 : t[i] = s[j]
      <4> SUFFICES ASSUME NEW i \in 1..Len(t) PROVE \E j \in 1..n + 1 : t[i] = s[j]
        OBVIOUS
      <4>1. CASE i = l + 1
        <5>1. n + 1 \in 1..n + 1
          OBVIOUS
        <5> QED
          BY <3>1, <4>1, <5>1
      <4>2. CASE i \in 1..l
        BY <2>1, <2>2, <3>1, <4>2
      <4> QED
        BY <3>3, <4>1, <4>2
    <3>6. k[n + 1] = t
      BY <2>3, <2>5 DEF t
    <3> QED
      BY <3>1, <3>4, <3>5, <3>6
  <2> QED
    BY <2>4, <2>5
<1>4. Len(s) \in Q
  <2> HIDE DEF Q
  <2> QED
    BY <1>1, <1>2, <1>3, SetInduction
<1> QED
  BY <1>1, <1>4

\* As many elements as the list is long.
LEMMA DistinctCount ==
    ASSUME NEW S, NEW s \in Seq(S), Distinct(s)
    PROVE  LET all == {s[i] : i \in 1..Len(s)}
           IN  IsFiniteSet(all) /\ Cardinality(all) = Len(s) /\ all \subseteq S
<1> DEFINE all == {s[i] : i \in 1..Len(s)}
           fn == [i \in 1..Len(s) |-> s[i]]
<1>1. Len(s) \in Nat /\ \A i \in 1..Len(s) : s[i] \in S
  OBVIOUS
<1>2. fn \in Bijection(1..Len(s), all)
  BY <1>1 DEF Distinct, Bijection, Injection, Surjection, IsInjective
<1>3. IsFiniteSet(1..Len(s)) /\ Cardinality(1..Len(s)) = IF 1 > Len(s) THEN 0 ELSE Len(s) - 1 + 1
  BY <1>1, FS_Interval
<1>4. (IF 1 > Len(s) THEN 0 ELSE Len(s) - 1 + 1) = Len(s)
  BY <1>1
<1> HIDE DEF fn, all
<1>5. IsFiniteSet(all) /\ Cardinality(all) = Cardinality(1..Len(s))
  <2>1. ExistsBijection(1..Len(s), all)
    BY <1>2 DEF ExistsBijection
  <2> QED
    BY <1>3, <2>1, FS_Bijection
<1> QED
  BY <1>1, <1>3, <1>4, <1>5 DEF all

\* Two lists without a common element, one behind the other.
LEMMA JoinedDistinct ==
    ASSUME NEW S, NEW s \in Seq(S), NEW t \in Seq(S), Distinct(s), Distinct(t),
           \A x : ~(Contains(s, x) /\ Contains(t, x))
    PROVE  /\ s \o t \in Seq(S) /\ Distinct(s \o t) /\ Len(s \o t) = Len(s) + Len(t)
           /\ \A x : Contains(s \o t, x) <=> Contains(s, x) \/ Contains(t, x)
<1> DEFINE q == s \o t
           m == Len(s)
           n == Len(t)
<1>1. /\ q \in Seq(S) /\ Len(q) = m + n /\ m \in Nat /\ n \in Nat
      /\ \A i \in 1..m : q[i] = s[i]
      /\ \A i \in 1..n : q[m + i] = t[i]
  <2>1. q \in Seq(S) /\ Len(q) = m + n /\ m \in Nat /\ n \in Nat
    BY ConcatProperties
  <2>2. \A i \in 1..(m + n) : q[i] = IF i <= m THEN s[i] ELSE t[i - m]
    BY ConcatProperties
  <2> HIDE DEF q
  <2>3. \A i \in 1..m : q[i] = s[i]
    BY <2>1, <2>2
  <2>4. ASSUME NEW i \in 1..n PROVE q[m + i] = t[i]
    <3>1. m + i \in 1..(m + n) /\ ~(m + i <= m) /\ (m + i) - m = i
      BY <2>1
    <3> QED
      BY <2>2, <3>1
  <2> QED
    BY <2>1, <2>3, <2>4
<1>2. \A i \in 1..Len(q) : i \in 1..m \/ (i - m \in 1..n /\ i = m + (i - m))
  BY <1>1
<1> HIDE DEF q, m, n
<1>3. /\ \A i \in 1..m : Contains(s, s[i]) 
      /\ \A i \in 1..n : Contains(t, t[i])
  BY DEF Contains, m, n
<1>4. ASSUME NEW i \in 1..Len(q), NEW j \in 1..Len(q), q[i] = q[j] PROVE i = j
  <2>1. CASE i \in 1..m /\ j \in 1..m
    BY <1>1, <1>4, <2>1 DEF Distinct, m
  <2>2. CASE i \in 1..m /\ j \notin 1..m
    <3>1. q[i] = s[i] /\ q[j] = t[j - m] /\ j - m \in 1..n
      BY <1>1, <1>2, <2>2
    <3> QED
      BY <1>3, <1>4, <2>2, <3>1
  <2>3. CASE i \notin 1..m /\ j \in 1..m
    <3>1. q[j] = s[j] /\ q[i] = t[i - m] /\ i - m \in 1..n
      BY <1>1, <1>2, <2>3
    <3> QED
      BY <1>3, <1>4, <2>3, <3>1
  <2>4. CASE i \notin 1..m /\ j \notin 1..m
    <3>1. q[i] = t[i - m] /\ i - m \in 1..n /\ q[j] = t[j - m] /\ j - m \in 1..n
      BY <1>1, <1>2, <2>4
    <3>2. i - m = j - m
      BY <1>4, <3>1 DEF Distinct, n
    <3> QED
      BY <1>1, <3>2
  <2> QED
    BY <2>1, <2>2, <2>3, <2>4
<1>5. ASSUME NEW x PROVE Contains(q, x) <=> Contains(s, x) \/ Contains(t, x)
  <2>1. (\E i \in 1..Len(q) : q[i] = x) <=> (\E i \in 1..m : s[i] = x) \/ (\E i \in 1..n : t[i] = x)
    <3>1. ASSUME NEW i \in 1..m PROVE i \in 1..Len(q) /\ q[i] = s[i]
      BY <1>1
    <3>2. ASSUME NEW i \in 1..n PROVE m + i \in 1..Len(q) /\ q[m + i] = t[i]
      BY <1>1
    <3>3. ASSUME NEW i \in 1..Len(q) PROVE (i \in 1..m /\ q[i] = s[i]) \/ (i - m \in 1..n /\ q[i] = t[i - m])
      BY <1>1, <1>2
    <3> QED
      BY <3>1, <3>2, <3>3
  <2>2. Contains(q, x) <=> \E i \in 1..Len(q) : q[i] = x
    BY DEF Contains
  <2>3. Contains(s, x) <=> \E i \in 1..m : s[i] = x
    BY DEF Contains, m
  <2>4. Contains(t, x) <=> \E i \in 1..n : t[i] = x
    BY DEF Contains, n
  <2> QED
    BY <2>1, <2>2, <2>3, <2>4
<1> QED
  BY <1>1, <1>4, <1>5 DEF Distinct, q, m, n

\* Induction on the subsets of a finite set, one element at a time.
LEMMA SubsetInduction ==
  ASSUME NEW D, IsFiniteSet(D), NEW Q, {} \in Q,
         \A T \in SUBSET D : \A x \in D \ T : T \in Q => T \cup {x} \in Q
  PROVE  D \in Q
  <1> DEFINE P == {n \in Nat : \A T \in SUBSET D : Cardinality(T) = n => T \in Q}
  <1>1. 0 \in P
    <2> SUFFICES ASSUME NEW T \in SUBSET D, Cardinality(T) = 0 PROVE T \in Q
      OBVIOUS
    <2>1. T = {}
      BY SubFinite, FS_EmptySet
    <2> QED
      BY <2>1
  <1>2. ASSUME NEW n \in Nat, n \in P PROVE n + 1 \in P
    <2> SUFFICES ASSUME NEW T \in SUBSET D, Cardinality(T) = n + 1 PROVE T \in Q
      OBVIOUS
    <2>1. IsFiniteSet(T)
      BY SubFinite
    <2>0. n \in Nat /\ Cardinality({}) = 0
      BY FS_EmptySet
    <2>2. T # {}
      BY <2>0
    <2>3. PICK x \in T : TRUE
      BY <2>2
    <2>4. Cardinality(T \ {x}) = n
      <3>1. Cardinality(T \ {x}) = Cardinality(T) - 1
        BY <2>1, <2>3, FS_RemoveElement
      <3> QED
        BY <2>0, <3>1
    <2>5. T \ {x} \in Q
      BY <1>2, <2>4
    <2>6. (T \ {x}) \cup {x} \in Q
      BY <2>3, <2>5
    <2>7. (T \ {x}) \cup {x} = T
      BY <2>3
    <2> QED
      BY <2>6, <2>7
  <1>3. Nat \subseteq P
    <2> HIDE DEF P
    <2> QED
      BY <1>1, <1>2, SetInduction
  <1>4. Cardinality(D) \in P
    BY <1>3, FS_CardinalityType
  <1> QED
    BY <1>4

\* The sum over a set and one more element.
LEMMA SumMore ==
  ASSUME NEW D, IsFiniteSet(D), NEW f, \A x \in D : f[x] \in Nat
  PROVE  \A T \in SUBSET D : \A x \in D \ T :
           SumFunctionOnSet(f, T \cup {x}) = f[x] + SumFunctionOnSet(f, T) /\ SumFunctionOnSet(f, T) \in Nat
  <1> SUFFICES ASSUME NEW T \in SUBSET D, NEW x \in D \ T
               PROVE  SumFunctionOnSet(f, T \cup {x}) = f[x] + SumFunctionOnSet(f, T)
                        /\ SumFunctionOnSet(f, T) \in Nat
    OBVIOUS
  <1> DEFINE E == T \cup {x}
  <1>1. E \in SUBSET D /\ E \ {x} = T /\ x \in E
    OBVIOUS
  <1>2. IsFiniteSet(E) /\ IsFiniteSet(T)
    BY <1>1, SubFinite
  <1>3. (\A y \in E : f[y] \in Nat) /\ \A y \in T : f[y] \in Nat
    BY <1>1
  <1> HIDE DEF E
  <1>4. SumFunctionOnSet(f, E) = f[x] + SumFunctionOnSet(f, E \ {x}) /\ SumFunctionOnSet(f, E) \in Nat
    BY <1>1, <1>2, <1>3, SumOne
  <1>5. SumFunctionOnSet(f, T) \in Nat
    BY <1>2, <1>3, SumOne
  <1> QED
    BY <1>1, <1>4, <1>5 DEF E

\* Sums of sums, of parts and of what is no larger.
LEMMA SumPlus ==
  ASSUME NEW D, IsFiniteSet(D), NEW f, NEW g, NEW h,
         \A x \in D : f[x] \in Nat /\ g[x] \in Nat /\ h[x] = f[x] + g[x]
  PROVE  SumFunctionOnSet(h, D) = SumFunctionOnSet(f, D) + SumFunctionOnSet(g, D)
  <1> DEFINE Q == {T \in SUBSET D : SumFunctionOnSet(h, T) = SumFunctionOnSet(f, T) + SumFunctionOnSet(g, T)}
  <1>a. \A x \in D : f[x] \in Nat
    OBVIOUS
  <1>a1. \A T \in SUBSET D : \A x \in D \ T :
           SumFunctionOnSet(f, T \cup {x}) = f[x] + SumFunctionOnSet(f, T) /\ SumFunctionOnSet(f, T) \in Nat
    BY <1>a, SumMore
  <1>b. \A x \in D : g[x] \in Nat
    OBVIOUS
  <1>b1. \A T \in SUBSET D : \A x \in D \ T :
           SumFunctionOnSet(g, T \cup {x}) = g[x] + SumFunctionOnSet(g, T) /\ SumFunctionOnSet(g, T) \in Nat
    BY <1>b, SumMore
  <1>c. \A x \in D : h[x] \in Nat
    OBVIOUS
  <1>c1. \A T \in SUBSET D : \A x \in D \ T :
           SumFunctionOnSet(h, T \cup {x}) = h[x] + SumFunctionOnSet(h, T) /\ SumFunctionOnSet(h, T) \in Nat
    BY <1>c, SumMore
  <1>1. {} \in Q
    <2>1. SumFunctionOnSet(f, {}) = 0 /\ SumFunctionOnSet(g, {}) = 0 /\ SumFunctionOnSet(h, {}) = 0
      BY <1>a, <1>b, <1>c, SumOne
    <2> QED
      BY <2>1
  <1>2. ASSUME NEW T \in SUBSET D, NEW x \in D \ T, T \in Q PROVE T \cup {x} \in Q
    <2>1. SumFunctionOnSet(f, T \cup {x}) = f[x] + SumFunctionOnSet(f, T) /\ SumFunctionOnSet(f, T) \in Nat
      BY <1>a1
    <2>2. SumFunctionOnSet(g, T \cup {x}) = g[x] + SumFunctionOnSet(g, T) /\ SumFunctionOnSet(g, T) \in Nat
      BY <1>b1
    <2>3. SumFunctionOnSet(h, T \cup {x}) = h[x] + SumFunctionOnSet(h, T) /\ SumFunctionOnSet(h, T) \in Nat
      BY <1>c1
    <2>4. SumFunctionOnSet(h, T) = SumFunctionOnSet(f, T) + SumFunctionOnSet(g, T) /\ h[x] = f[x] + g[x]
          /\ f[x] \in Nat /\ g[x] \in Nat /\ T \cup {x} \in SUBSET D
      BY <1>2
    <2> QED
      BY <2>1, <2>2, <2>3, <2>4
  <1> HIDE DEF Q
  <1>3. D \in Q
    BY <1>1, <1>2, SubsetInduction
  <1> QED
    BY <1>3 DEF Q

\* The sum of the multiples is the multiple of the sum.
LEMMA SumTimes ==
  ASSUME NEW D, IsFiniteSet(D), NEW f, NEW c \in Nat, NEW h,
         \A x \in D : f[x] \in Nat /\ h[x] = c * f[x]
  PROVE  SumFunctionOnSet(h, D) = c * SumFunctionOnSet(f, D)
  <1> DEFINE Q == {T \in SUBSET D : SumFunctionOnSet(h, T) = c * SumFunctionOnSet(f, T)}
  <1>a. \A x \in D : f[x] \in Nat
    OBVIOUS
  <1>a1. \A T \in SUBSET D : \A x \in D \ T :
           SumFunctionOnSet(f, T \cup {x}) = f[x] + SumFunctionOnSet(f, T) /\ SumFunctionOnSet(f, T) \in Nat
    BY <1>a, SumMore
  <1>c. \A x \in D : h[x] \in Nat
    OBVIOUS
  <1>c1. \A T \in SUBSET D : \A x \in D \ T :
           SumFunctionOnSet(h, T \cup {x}) = h[x] + SumFunctionOnSet(h, T) /\ SumFunctionOnSet(h, T) \in Nat
    BY <1>c, SumMore
  <1>1. {} \in Q
    <2>1. SumFunctionOnSet(f, {}) = 0 /\ SumFunctionOnSet(h, {}) = 0
      BY <1>a, <1>c, SumOne
    <2> QED
      BY <2>1
  <1>2. ASSUME NEW T \in SUBSET D, NEW x \in D \ T, T \in Q PROVE T \cup {x} \in Q
    <2>1. SumFunctionOnSet(f, T \cup {x}) = f[x] + SumFunctionOnSet(f, T) /\ SumFunctionOnSet(f, T) \in Nat
      BY <1>a1
    <2>2. SumFunctionOnSet(h, T \cup {x}) = h[x] + SumFunctionOnSet(h, T)
      BY <1>c1
    <2>3. SumFunctionOnSet(h, T) = c * SumFunctionOnSet(f, T) /\ h[x] = c * f[x] /\ f[x] \in Nat
          /\ T \cup {x} \in SUBSET D
      BY <1>2
    <2>4. c * (f[x] + SumFunctionOnSet(f, T)) = c * f[x] + c * SumFunctionOnSet(f, T)
      <3> DEFINE a == f[x]
                 b == SumFunctionOnSet(f, T)
      <3>1. a \in Nat /\ b \in Nat
        BY <2>1, <2>3
      <3> HIDE DEF a, b
      <3>2. c * (a + b) = c * a + c * b
        BY <3>1
      <3> QED
        BY <3>2 DEF a, b
    <2> QED
      BY <2>1, <2>2, <2>3, <2>4
  <1> HIDE DEF Q
  <1>3. D \in Q
    BY <1>1, <1>2, SubsetInduction
  <1> QED
    BY <1>3 DEF Q

\* Equal and zero values.
LEMMA SumInside ==
  ASSUME NEW D, IsFiniteSet(D), NEW S \in SUBSET D, NEW f, NEW g,
         \A x \in D : f[x] \in Nat /\ (x \in S => g[x] = f[x]) /\ (x \notin S => f[x] = 0)
  PROVE  SumFunctionOnSet(f, D) = SumFunctionOnSet(g, S)
  <1> DEFINE Q == {T \in SUBSET D : SumFunctionOnSet(f, T) = SumFunctionOnSet(g, T \cap S)}
  <1>0. IsFiniteSet(S) /\ (\A x \in S : g[x] \in Nat) /\ \A x \in D : f[x] \in Nat
    BY SubFinite
  <1>00. \A x \in S : g[x] \in Nat
    BY <1>0
  <1>01. \A T \in SUBSET S : \A x \in S \ T :
           SumFunctionOnSet(g, T \cup {x}) = g[x] + SumFunctionOnSet(g, T) /\ SumFunctionOnSet(g, T) \in Nat
    BY <1>0, <1>00, SumMore
  <1>02. \A T \in SUBSET D : \A x \in D \ T :
           SumFunctionOnSet(f, T \cup {x}) = f[x] + SumFunctionOnSet(f, T) /\ SumFunctionOnSet(f, T) \in Nat
    BY <1>0, SumMore
  <1>1. {} \in Q
    <2>1. SumFunctionOnSet(f, {}) = 0 /\ SumFunctionOnSet(g, {}) = 0
      BY <1>0, SumOne
    <2>2. {} \cap S = {}
      OBVIOUS
    <2> QED
      BY <2>1, <2>2
  <1>2. ASSUME NEW T \in SUBSET D, NEW x \in D \ T, T \in Q PROVE T \cup {x} \in Q
    <2>1. SumFunctionOnSet(f, T \cup {x}) = f[x] + SumFunctionOnSet(f, T) /\ SumFunctionOnSet(f, T) \in Nat
      BY <1>02
    <2>2. T \cup {x} \in SUBSET D /\ SumFunctionOnSet(f, T) = SumFunctionOnSet(g, T \cap S)
      BY <1>2
    <2>3. CASE x \in S
      <3>1. (T \cup {x}) \cap S = (T \cap S) \cup {x} /\ T \cap S \in SUBSET S /\ x \in S \ (T \cap S)
        BY <2>3
      <3>2. SumFunctionOnSet(g, (T \cap S) \cup {x}) = g[x] + SumFunctionOnSet(g, T \cap S)
        BY <1>01, <3>1
      <3> QED
        BY <2>1, <2>2, <2>3, <3>1, <3>2
    <2>4. CASE x \notin S
      <3>1. (T \cup {x}) \cap S = T \cap S /\ f[x] = 0
        BY <2>4
      <3> QED
        BY <2>1, <2>2, <3>1
    <2> QED
      BY <2>3, <2>4
  <1> HIDE DEF Q
  <1>3. D \in Q
    BY <1>1, <1>2, SubsetInduction
  <1>4. D \cap S = S
    OBVIOUS
  <1> QED
    BY <1>3, <1>4 DEF Q

\* No smaller values with no larger sum are the same.
LEMMA SumTight ==
  ASSUME NEW D, IsFiniteSet(D), NEW f, NEW g,
         \A x \in D : f[x] \in Nat /\ g[x] \in Nat /\ f[x] <= g[x]
  PROVE  /\ SumFunctionOnSet(f, D) <= SumFunctionOnSet(g, D)
         /\ SumFunctionOnSet(g, D) <= SumFunctionOnSet(f, D) => \A x \in D : f[x] = g[x]
  <1> DEFINE h == [x \in D |-> g[x] - f[x]]
  <1>1. \A x \in D : f[x] \in Nat /\ h[x] \in Nat /\ g[x] = f[x] + h[x]
    OBVIOUS
  <1> HIDE DEF h
  <1>2. SumFunctionOnSet(g, D) = SumFunctionOnSet(f, D) + SumFunctionOnSet(h, D)
    BY <1>1, SumPlus
  <1>3. SumFunctionOnSet(f, D) \in Nat /\ SumFunctionOnSet(h, D) \in Nat
    BY <1>1, SumOne
  <1>4. ASSUME NEW x \in D PROVE h[x] <= SumFunctionOnSet(h, D)
    <2>1. IsFiniteSet(D \ {x}) /\ \A y \in D \ {x} : h[y] \in Nat
      BY <1>1, FS_RemoveElement
    <2>2. SumFunctionOnSet(h, D) = h[x] + SumFunctionOnSet(h, D \ {x}) /\ SumFunctionOnSet(h, D \ {x}) \in Nat
      BY <1>1, <2>1, SumOne
    <2> QED
      BY <1>1, <2>2
  <1>5. SumFunctionOnSet(g, D) <= SumFunctionOnSet(f, D) => SumFunctionOnSet(h, D) = 0
    BY <1>2, <1>3
  <1> QED
    BY <1>1, <1>2, <1>3, <1>4, <1>5

\* The larger and the smaller of two.
LEMMA OfTwo ==
    ASSUME NEW a \in Nat, NEW b \in Nat
    PROVE  /\ Max({a, b}) \in Nat /\ Max({a, b}) >= a /\ Max({a, b}) >= b
           /\ Min({a, b}) \in {a, b} /\ Min({a, b}) <= a /\ Min({a, b}) <= b
<1> DEFINE S == {a, b}
<1>1. (\E x \in S : \A y \in S : x >= y) /\ (\E x \in S : \A y \in S : x <= y)
  BY DEF S
<1>2. Max(S) \in S /\ \A y \in S : Max(S) >= y
  <2> HIDE DEF S
  <2> QED
    BY <1>1 DEF Max
<1>3. Min(S) \in S /\ \A y \in S : Min(S) <= y
  <2> HIDE DEF S
  <2> QED
    BY <1>1 DEF Min
<1> QED
  BY <1>2, <1>3

\* The least of some numbers.
LEMMA MinIs ==
    ASSUME NEW S, S \subseteq Nat, S # {}
    PROVE  Min(S) \in S /\ \A m \in S : Min(S) <= m
<1>1. \E n \in S : \A m \in S : n <= m
  BY LeastExists
<1> QED
  BY <1>1 DEF Min

\* Of no larger factors the product is no larger.
LEMMA Products ==
    ASSUME NEW a \in Nat, NEW b \in Nat, NEW c \in Nat, NEW d \in Nat, a <= c, b <= d
    PROVE  a * b \in Nat /\ a * b <= c * d
<1>1. a * b <= a * d
  OBVIOUS
<1>2. a * d <= c * d
  OBVIOUS
<1>3. a * b \in Nat /\ a * d \in Nat /\ c * d \in Nat
  OBVIOUS
<1> QED
  BY <1>1, <1>2, <1>3

\* A quotient is a number, and one of more is no less.
LEMMA Quotients ==
    ASSUME NEW a \in Nat, NEW b \in Nat, NEW t \in Nat \ {0}, a >= b
    PROVE  /\ a \div t \in Nat /\ b \div t \in Nat /\ a \div t >= b \div t
           /\ a >= t => a \div t > 0
<1>1. t > 0
  OBVIOUS
<1>2. a \div t \in Nat /\ b \div t \in Nat
  BY <1>1
<1>3. a \div t >= b \div t
  BY <1>1
<1>4. a >= t => a \div t > 0
  BY <1>1
<1> QED
  BY <1>2, <1>3, <1>4

\* The same of sums of integers.
LEMMA IntSumMore ==
  ASSUME NEW D, IsFiniteSet(D), NEW f, \A x \in D : f[x] \in Int
  PROVE  \A T \in SUBSET D : /\ SumFunctionOnSet(f, T) \in Int
                             /\ \A x \in D \ T : SumFunctionOnSet(f, T \cup {x}) = f[x] + SumFunctionOnSet(f, T)
  <1> TAKE T \in SUBSET D
  <1>1. IsFiniteSet(T) /\ \A y \in T : f[y] \in Int
    BY SubFinite
  <1>2. SumFunctionOnSet(f, T) \in Int
    BY <1>1, IntSumOne
  <1>3. ASSUME NEW x \in D \ T PROVE SumFunctionOnSet(f, T \cup {x}) = f[x] + SumFunctionOnSet(f, T)
    <2> DEFINE E == T \cup {x}
    <2>1. E \in SUBSET D /\ E \ {x} = T /\ x \in E
      OBVIOUS
    <2>2. IsFiniteSet(E) /\ \A y \in E : f[y] \in Int
      BY <2>1, SubFinite
    <2> HIDE DEF E
    <2>3. SumFunctionOnSet(f, E) = f[x] + SumFunctionOnSet(f, E \ {x})
      BY <2>1, <2>2, IntSumOne
    <2> QED
      BY <2>1, <2>3 DEF E
  <1> QED
    BY <1>2, <1>3

\* Sums of the same values are the same.
LEMMA IntSumSame ==
  ASSUME NEW D, IsFiniteSet(D), NEW f, NEW g, \A x \in D : f[x] \in Int /\ g[x] = f[x]
  PROVE  SumFunctionOnSet(g, D) = SumFunctionOnSet(f, D)
  <1> DEFINE Q == {T \in SUBSET D : SumFunctionOnSet(g, T) = SumFunctionOnSet(f, T)}
  <1>a. (\A x \in D : f[x] \in Int) /\ \A x \in D : g[x] \in Int
    OBVIOUS
  <1>b. \A T \in SUBSET D : /\ SumFunctionOnSet(f, T) \in Int
                            /\ \A x \in D \ T : SumFunctionOnSet(f, T \cup {x}) = f[x] + SumFunctionOnSet(f, T)
    BY <1>a, IntSumMore
  <1>c. \A T \in SUBSET D : /\ SumFunctionOnSet(g, T) \in Int
                            /\ \A x \in D \ T : SumFunctionOnSet(g, T \cup {x}) = g[x] + SumFunctionOnSet(g, T)
    BY <1>a, IntSumMore
  <1>1. {} \in Q
    BY <1>a, IntSumOne
  <1>2. ASSUME NEW T \in SUBSET D, NEW x \in D \ T, T \in Q PROVE T \cup {x} \in Q
    BY <1>b, <1>c, <1>2
  <1> HIDE DEF Q
  <1>3. D \in Q
    BY <1>1, <1>2, SubsetInduction
  <1> QED
    BY <1>3 DEF Q

\* The sum over two sets that share nothing.
LEMMA IntSumUnion ==
  ASSUME NEW D, IsFiniteSet(D), NEW f, \A x \in D : f[x] \in Int,
         NEW A \in SUBSET D, NEW B \in SUBSET D, A \cap B = {}
  PROVE  SumFunctionOnSet(f, A \cup B) = SumFunctionOnSet(f, A) + SumFunctionOnSet(f, B)
  <1> DEFINE Q == {T \in SUBSET B : SumFunctionOnSet(f, A \cup T) = SumFunctionOnSet(f, A) + SumFunctionOnSet(f, T)}
  <1>a. \A T \in SUBSET D : /\ SumFunctionOnSet(f, T) \in Int
                            /\ \A x \in D \ T : SumFunctionOnSet(f, T \cup {x}) = f[x] + SumFunctionOnSet(f, T)
    BY IntSumMore
  <1>1. {} \in Q
    <2>1. SumFunctionOnSet(f, {}) = 0 /\ SumFunctionOnSet(f, A) \in Int /\ A \cup {} = A
      BY <1>a, IntSumOne
    <2> QED
      BY <2>1
  <1>2. ASSUME NEW T \in SUBSET B, NEW x \in B \ T, T \in Q PROVE T \cup {x} \in Q
    <2>1. A \cup T \in SUBSET D /\ x \in D \ (A \cup T) /\ x \in D \ T /\ T \in SUBSET D /\ (A \cup T) \cup {x} = A \cup (T \cup {x})
      OBVIOUS
    <2>2. /\ SumFunctionOnSet(f, (A \cup T) \cup {x}) = f[x] + SumFunctionOnSet(f, A \cup T)
          /\ SumFunctionOnSet(f, T \cup {x}) = f[x] + SumFunctionOnSet(f, T)
          /\ SumFunctionOnSet(f, T) \in Int /\ SumFunctionOnSet(f, A) \in Int /\ f[x] \in Int
      BY <1>a, <2>1
    <2>3. SumFunctionOnSet(f, A \cup T) = SumFunctionOnSet(f, A) + SumFunctionOnSet(f, T)
      BY <1>2
    <2>4. SumFunctionOnSet(f, A \cup (T \cup {x})) = SumFunctionOnSet(f, A) + SumFunctionOnSet(f, T \cup {x})
      <3> DEFINE a == SumFunctionOnSet(f, A)
                 b == SumFunctionOnSet(f, T)
                 both == SumFunctionOnSet(f, A \cup T)
                 more == SumFunctionOnSet(f, T \cup {x})
                 all == SumFunctionOnSet(f, (A \cup T) \cup {x})
                 v == f[x]
      <3>1. all = v + both /\ more = v + b /\ both = a + b /\ a \in Int /\ b \in Int /\ v \in Int
        BY <2>2, <2>3
      <3> HIDE DEF a, b, both, more, all, v
      <3>2. all = a + more
        BY <3>1
      <3> QED
        BY <2>1, <3>2 DEF a, more, all
    <2> QED
      BY <2>4
  <1>3. IsFiniteSet(B)
    BY SubFinite
  <1> HIDE DEF Q
  <1>4. B \in Q
    BY <1>1, <1>2, <1>3, SubsetInduction
  <1> QED
    BY <1>4 DEF Q

\* The sum of the multiples is the multiple of the sum.
LEMMA IntSumTimes ==
  ASSUME NEW D, IsFiniteSet(D), NEW f, NEW c \in Int, NEW h,
         \A x \in D : f[x] \in Int /\ h[x] = c * f[x]
  PROVE  SumFunctionOnSet(h, D) = c * SumFunctionOnSet(f, D)
  <1> DEFINE Q == {T \in SUBSET D : SumFunctionOnSet(h, T) = c * SumFunctionOnSet(f, T)}
  <1>a. \A x \in D : f[x] \in Int
    OBVIOUS
  <1>b. \A x \in D : h[x] \in Int
    BY <1>a
  <1>c. \A T \in SUBSET D : /\ SumFunctionOnSet(f, T) \in Int
                            /\ \A x \in D \ T : SumFunctionOnSet(f, T \cup {x}) = f[x] + SumFunctionOnSet(f, T)
    BY <1>a, IntSumMore
  <1>d. \A T \in SUBSET D : /\ SumFunctionOnSet(h, T) \in Int
                            /\ \A x \in D \ T : SumFunctionOnSet(h, T \cup {x}) = h[x] + SumFunctionOnSet(h, T)
    BY <1>b, IntSumMore
  <1>1. {} \in Q
    <2>1. SumFunctionOnSet(f, {}) = 0 /\ SumFunctionOnSet(h, {}) = 0
      BY <1>a, <1>b, IntSumOne
    <2> QED
      BY <2>1
  <1>2. ASSUME NEW T \in SUBSET D, NEW x \in D \ T, T \in Q PROVE T \cup {x} \in Q
    <2> DEFINE s == SumFunctionOnSet(f, T)
               v == f[x]
    <2>1. s \in Int /\ v \in Int /\ h[x] = c * v /\ SumFunctionOnSet(h, T) = c * s
      BY <1>c, <1>2
    <2>2. SumFunctionOnSet(f, T \cup {x}) = v + s /\ SumFunctionOnSet(h, T \cup {x}) = h[x] + SumFunctionOnSet(h, T)
      BY <1>c, <1>d
    <2> HIDE DEF s, v
    <2>3. c * v + c * s = c * (v + s)
      BY <2>1
    <2> QED
      BY <2>1, <2>2, <2>3
  <1> HIDE DEF Q
  <1>3. D \in Q
    BY <1>1, <1>2, SubsetInduction
  <1> QED
    BY <1>3 DEF Q
=============================================================================
