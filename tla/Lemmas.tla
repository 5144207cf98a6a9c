------------------------------- MODULE Lemmas -------------------------------
(***************************************************************************)
(* Facts about numbers, finite sets and sequences that the proofs of        *)
(* several modules rest on.  Those about all numbers are stated with a set  *)
(* or a function where one would think of a predicate or an operator: the   *)
(* provers can instantiate the former, and a set is a predicate as well.    *)
(***************************************************************************)
EXTENDS Sorting, Sequences, SequencesExt, FiniteSetTheorems, SequenceTheorems, TLAPS

(* Sorted sequences *)

Below(S, R, x) == {y \in S : <<y, x>> \in R}

OrdersAll(S, R) ==
    /\ \A x \in S : <<x, x>> \notin R
    /\ \A x, y \in S : x = y \/ <<x, y>> \in R \/ <<y, x>> \in R
    /\ \A x, y, z \in S : <<x, y>> \in R /\ <<y, z>> \in R => <<x, z>> \in R

(* In a total order of a finite set, the members' ranks are the numbers from *)
(* 1 to their number, each once.                                             *)
LEMMA RanksCount ==
    ASSUME NEW S, IsFiniteSet(S), NEW R, OrdersAll(S, R)
    PROVE  /\ Cardinality(S) \in Nat
           /\ \A i \in 1 .. Cardinality(S) : \E x \in S : Cardinality(Below(S, R, x)) = i - 1
           /\ \A x \in S : Cardinality(Below(S, R, x)) + 1 \in 1 .. Cardinality(S)
           /\ \A x, y \in S : Cardinality(Below(S, R, x)) = Cardinality(Below(S, R, y)) => x = y
<1> DEFINE n == Cardinality(S)
           rank == [x \in S |-> Cardinality(Below(S, R, x)) + 1]
<1>1. n \in Nat
  BY FS_CardinalityType
<1>2. ASSUME NEW x \in S
      PROVE  /\ IsFiniteSet(Below(S, R, x)) /\ Cardinality(Below(S, R, x)) \in Nat
             /\ Cardinality(Below(S, R, x)) < n
  <2>1. Below(S, R, x) \in SUBSET S /\ Below(S, R, x) # S
    BY DEF Below, OrdersAll
  <2>2. IsFiniteSet(Below(S, R, x)) /\ Cardinality(Below(S, R, x)) <= n /\ Cardinality(Below(S, R, x)) # n
    BY <2>1, FS_Subset
  <2>3. Cardinality(Below(S, R, x)) \in Nat
    BY <2>2, FS_CardinalityType
  <2> QED
    BY <1>1, <2>2, <2>3
<1>3. ASSUME NEW x \in S, NEW y \in S, <<x, y>> \in R
      PROVE  Cardinality(Below(S, R, x)) < Cardinality(Below(S, R, y))
  <2>1. Below(S, R, x) \in SUBSET Below(S, R, y) /\ Below(S, R, x) # Below(S, R, y)
    BY <1>3 DEF Below, OrdersAll
  <2>2. /\ Cardinality(Below(S, R, x)) <= Cardinality(Below(S, R, y))
        /\ Cardinality(Below(S, R, x)) # Cardinality(Below(S, R, y))
    BY <1>2, <2>1, FS_Subset
  <2> QED
    BY <1>2, <2>2
<1>4. \A x, y \in S : Cardinality(Below(S, R, x)) = Cardinality(Below(S, R, y)) => x = y
  <2> SUFFICES ASSUME NEW x \in S, NEW y \in S, x # y
               PROVE  Cardinality(Below(S, R, x)) # Cardinality(Below(S, R, y))
    OBVIOUS
  <2>1. <<x, y>> \in R \/ <<y, x>> \in R
    BY DEF OrdersAll
  <2> QED
    BY <1>2, <1>3, <2>1
<1>5. \A x \in S : rank[x] \in 1 .. n
  BY <1>1, <1>2
<1>6. rank \in Injection(S, 1 .. n)
  <2>1. \A x, y \in S : rank[x] = rank[y] => x = y
    BY <1>2, <1>4
  <2> QED
    BY <1>5, <2>1 DEF Injection, IsInjective
<1>7. IsFiniteSet(1 .. n) /\ Cardinality(1 .. n) = n
  BY <1>1, FS_Interval
<1>8. rank \in Surjection(S, 1 .. n)
  BY <1>6, <1>7, FS_Injection
<1>9. ASSUME NEW i \in 1 .. n
      PROVE  \E x \in S : Cardinality(Below(S, R, x)) = i - 1
  <2>1. PICK x \in S : rank[x] = i
    BY <1>8 DEF Surjection
  <2> QED
    BY <1>1, <1>2, <2>1
<1> QED
  BY <1>1, <1>4, <1>5, <1>9

Ranked(S, R) ==
    [i \in 1 .. Cardinality(S) |-> CHOOSE x \in S : Cardinality(Below(S, R, x)) = i - 1]

(* A sequence that puts each member where its rank is has each member once.  *)
LEMMA RanksSort ==
    ASSUME NEW S, IsFiniteSet(S), NEW R, OrdersAll(S, R)
    PROVE  /\ Cardinality(S) \in Nat /\ Ranked(S, R) \in [1 .. Cardinality(S) -> S]
           /\ \A x \in S : \E i \in 1 .. Cardinality(S) : Ranked(S, R)[i] = x
           /\ \A i, j \in 1 .. Cardinality(S) : Ranked(S, R)[i] = Ranked(S, R)[j] => i = j
<1> DEFINE n == Cardinality(S)
           all == Ranked(S, R)
<1>1. /\ n \in Nat
      /\ \A i \in 1 .. n : \E x \in S : Cardinality(Below(S, R, x)) = i - 1
      /\ \A x \in S : Cardinality(Below(S, R, x)) + 1 \in 1 .. n
      /\ \A x, y \in S : Cardinality(Below(S, R, x)) = Cardinality(Below(S, R, y)) => x = y
  BY RanksCount
<1>2. ASSUME NEW i \in 1 .. n
      PROVE  all[i] \in S /\ Cardinality(Below(S, R, all[i])) = i - 1
  <2>1. all[i] = CHOOSE x \in S : Cardinality(Below(S, R, x)) = i - 1
    BY DEF Ranked
  <2>2. \E x \in S : Cardinality(Below(S, R, x)) = i - 1
    BY <1>1
  <2> QED
    BY <2>1, <2>2
<1>3. ASSUME NEW x \in S
      PROVE  \E i \in 1 .. n : all[i] = x
  <2> DEFINE i == Cardinality(Below(S, R, x)) + 1
  <2>1. i \in 1 .. n
    BY <1>1
  <2>2. all[i] \in S /\ Cardinality(Below(S, R, all[i])) = i - 1
    BY <1>2, <2>1
  <2>3. Cardinality(Below(S, R, x)) \in Int
    <3>1. Below(S, R, x) \in SUBSET S
      BY DEF Below
    <3> QED
      BY <3>1, FS_Subset, FS_CardinalityType
  <2>4. all[i] = x
    BY <1>1, <2>2, <2>3
  <2> QED
    BY <2>1, <2>4
<1>4. \A i, j \in 1 .. n : all[i] = all[j] => i = j
  BY <1>1, <1>2
<1>5. all \in [1 .. n -> S]
  BY <1>2 DEF Ranked
<1> QED
  BY <1>1, <1>3, <1>4, <1>5

(* Each member of it stands behind those that come before it, and no others. *)
LEMMA RanksStand ==
    ASSUME NEW S, IsFiniteSet(S), NEW R, OrdersAll(S, R), NEW i \in 1 .. Cardinality(S)
    PROVE  Cardinality(Below(S, R, Ranked(S, R)[i])) = i - 1
<1>1. Ranked(S, R)[i] = CHOOSE x \in S : Cardinality(Below(S, R, x)) = i - 1
  BY DEF Ranked
<1>2. \E x \in S : Cardinality(Below(S, R, x)) = i - 1
  BY RanksCount
<1> QED
  BY <1>1, <1>2

-----------------------------------------------------------------------------
(* Induction and recursion *)

(* A set of numbers has a least member: the one of rank 0 among those that   *)
(* are no greater than some other.                                           *)
LEMMA Least ==
    ASSUME NEW T \in SUBSET Nat, T # {}
    PROVE  \E x \in T : \A y \in T : x <= y
<1>1. PICK n \in T : TRUE
  OBVIOUS
<1> DEFINE S == T \cap (0 .. n)
           R == {p \in S \X S : p[1] < p[2]}
<1>2. IsFiniteSet(S) /\ n \in S
  <2>1. IsFiniteSet(0 .. n) /\ S \in SUBSET (0 .. n)
    BY FS_Interval
  <2> QED
    BY <1>1, <2>1, FS_Subset
<1>3. \A x, y \in S : <<x, y>> \in R <=> x < y
  OBVIOUS
<1>4. \A x \in S : Below(S, R, x) = {y \in S : y < x}
  BY <1>3 DEF Below
<1>5. S \subseteq Nat
  OBVIOUS
<1> HIDE DEF R
<1>6. OrdersAll(S, R)
  BY <1>3, <1>5 DEF OrdersAll
<1>7. Cardinality(S) \in Nat /\ Cardinality(S) # 0
  BY <1>2, FS_CardinalityType, FS_EmptySet
<1>8. PICK x \in S : Cardinality(Below(S, R, x)) = 0
  <2>1. 1 \in 1 .. Cardinality(S)
    BY <1>7
  <2>2. \E x \in S : Cardinality(Below(S, R, x)) = 1 - 1
    BY <1>2, <1>6, <2>1, RanksCount
  <2> QED
    BY <2>2
<1>9. Below(S, R, x) = {}
  <2>1. Below(S, R, x) \in SUBSET S
    BY DEF Below
  <2>2. IsFiniteSet(Below(S, R, x))
    BY <1>2, <2>1, FS_Subset
  <2> QED
    BY <1>8, <2>2, FS_EmptySet
<1>10. \A y \in S : ~(y < x)
  BY <1>4, <1>8, <1>9
<1> USE DEF R
<1>11. \A y \in T : x <= y
  BY <1>1, <1>8, <1>10
<1> QED
  BY <1>8, <1>11

(* Induction over the naturals, for a set in the place of a predicate. *)
LEMMA Induction ==
    ASSUME NEW S, 0 \in S, \A n \in Nat : n \in S => n + 1 \in S
    PROVE  Nat \subseteq S
<1> SUFFICES ASSUME Nat \ S # {} PROVE FALSE
  OBVIOUS
<1>1. PICK x \in Nat \ S : \A y \in Nat \ S : x <= y
  BY Least
<1>2. x # 0 /\ x - 1 \in Nat
  BY <1>1
<1>3. x - 1 \in S
  BY <1>1, <1>2
<1> QED
  BY <1>2, <1>3

IsStep(step, V) == step \in [Nat \X V -> V]
Iterates(f, V, v0, step) ==
    f \in [Nat -> V] /\ f[0] = v0 /\ \A n \in Nat : f[n + 1] = step[<<n, f[n]>>]

(* Recursion: for any first value and any step there is the function. *)
LEMMA Recursion ==
    ASSUME NEW V, NEW v0 \in V, NEW step, IsStep(step, V)
    PROVE  \E f : Iterates(f, V, v0, step)
<1>0. step \in [Nat \X V -> V]
  BY DEF IsStep
<1> DEFINE Starts(g, n) == g[0] = v0 /\ \A i \in 0 .. n - 1 : g[i + 1] = step[<<i, g[i]>>]
           S == {n \in Nat : \E g \in [0 .. n -> V] : Starts(g, n)}
<1>1. 0 \in S
  <2>1. [i \in 0 .. 0 |-> v0] \in [0 .. 0 -> V] /\ Starts([i \in 0 .. 0 |-> v0], 0)
    OBVIOUS
  <2> QED
    BY <2>1
<1>2. ASSUME NEW n \in Nat, n \in S PROVE n + 1 \in S
  <2>1. PICK g \in [0 .. n -> V] : Starts(g, n)
    BY <1>2
  <2> DEFINE h == [i \in 0 .. n + 1 |-> IF i = n + 1 THEN step[<<n, g[n]>>] ELSE g[i]]
  <2>2. h \in [0 .. n + 1 -> V] /\ h[n + 1] = step[<<n, g[n]>>] /\ \A i \in 0 .. n : h[i] = g[i]
    BY <1>0
  <2> HIDE DEF h
  <2>3. \A i \in 0 .. n : h[i + 1] = step[<<i, h[i]>>]
    <3> TAKE i \in 0 .. n
    <3>1. CASE i = n
      BY <2>2, <3>1
    <3>2. CASE i # n
      <4>1. i \in 0 .. n - 1 /\ i + 1 \in 0 .. n
        BY <3>2
      <4>2. g[i + 1] = step[<<i, g[i]>>]
        BY <2>1, <4>1
      <4> QED
        BY <2>2, <4>1, <4>2
    <3> QED
      BY <3>1, <3>2
  <2>4. n + 1 - 1 = n /\ h[0] = v0
    BY <2>1, <2>2
  <2>5. Starts(h, n + 1)
    BY <2>3, <2>4
  <2> QED
    BY <2>2, <2>5
<1> HIDE DEF S
<1>3. Nat \subseteq S
  BY <1>1, <1>2, Induction
<1> USE DEF S
<1>4. \A n \in Nat : \E g \in [0 .. n -> V] : Starts(g, n)
  BY <1>3
<1> DEFINE G(n) == CHOOSE g \in [0 .. n -> V] : Starts(g, n)
<1>5. \A n \in Nat : G(n) \in [0 .. n -> V] /\ Starts(G(n), n)
  BY <1>4
<1> HIDE DEF G
<1>6. ASSUME NEW n \in Nat PROVE G(n + 1)[n] = G(n)[n]
  <2> DEFINE Same == {i \in Nat : i <= n => G(n + 1)[i] = G(n)[i]}
  <2>1. 0 \in Same
    BY <1>5
  <2>2. ASSUME NEW i \in Nat, i \in Same PROVE i + 1 \in Same
    <3> SUFFICES ASSUME i + 1 <= n PROVE G(n + 1)[i + 1] = G(n)[i + 1]
      OBVIOUS
    <3>1. G(n + 1)[i] = G(n)[i]
      BY <2>2
    <3>2. G(n + 1)[i + 1] = step[<<i, G(n + 1)[i]>>]
      BY <1>5
    <3>3. G(n)[i + 1] = step[<<i, G(n)[i]>>]
      BY <1>5
    <3> QED
      BY <3>1, <3>2, <3>3
  <2> HIDE DEF Same
  <2>3. n \in Same
    BY <2>1, <2>2, Induction
  <2> QED
    BY <2>3 DEF Same
<1> DEFINE f == [n \in Nat |-> G(n)[n]]
<1>7. f \in [Nat -> V] /\ f[0] = v0
  BY <1>5
<1>8. \A n \in Nat : f[n + 1] = step[<<n, f[n]>>]
  <2> TAKE n \in Nat
  <2>1. G(n + 1)[n + 1] = step[<<n, G(n + 1)[n]>>]
    BY <1>5
  <2> QED
    BY <1>6, <2>1
<1> QED
  BY <1>7, <1>8 DEF Iterates

-----------------------------------------------------------------------------
(* Sequences *)

(* SetToSeq of a finite set has each of its members once. *)
LEMMA SetToSeqOnce ==
    ASSUME NEW S, IsFiniteSet(S)
    PROVE  /\ Cardinality(S) \in Nat /\ SetToSeq(S) \in [1 .. Cardinality(S) -> S]
           /\ \A x \in S : \E i \in 1 .. Cardinality(S) : SetToSeq(S)[i] = x
           /\ \A i, j \in 1 .. Cardinality(S) : SetToSeq(S)[i] = SetToSeq(S)[j] => i = j
<1> DEFINE n == Cardinality(S)
<1>1. /\ n \in Nat
      /\ \E f \in [1 .. n -> S] : IsInjective(f)
  BY FS_CardinalityType DEF ExistsBijection, Bijection, Injection, IsInjective
<1>2. SetToSeq(S) \in [1 .. n -> S] /\ IsInjective(SetToSeq(S))
  BY <1>1 DEF SetToSeq
<1>3. \A i, j \in 1 .. n : SetToSeq(S)[i] = SetToSeq(S)[j] => i = j
  BY <1>2 DEF IsInjective
<1>4. SetToSeq(S) \in Injection(1 .. n, S)
  BY <1>2, <1>3 DEF Injection, IsInjective
<1>5. IsFiniteSet(1 .. n) /\ Cardinality(1 .. n) = n
  BY <1>1, FS_Interval
<1>6. SetToSeq(S) \in Surjection(1 .. n, S)
  BY <1>4, <1>5, FS_Injection
<1>7. \A x \in S : \E i \in 1 .. n : SetToSeq(S)[i] = x
  BY <1>6 DEF Surjection
<1> QED
  BY <1>1, <1>2, <1>3, <1>7

LEMMA SetToSeqMembers ==
    ASSUME NEW S, IsFiniteSet(S)
    PROVE  SetToSeq(S) \in Seq(S)
<1>1. /\ Cardinality(S) \in Nat
      /\ SetToSeq(S) \in [1 .. Cardinality(S) -> S]
  BY SetToSeqOnce
<1> QED
  BY <1>1

LEMMA Members ==
    ASSUME NEW S, NEW s \in Seq(S)
    PROVE  ToSet(s) \subseteq S
  BY DEF ToSet

(* A sequence is one of its own members. *)
LEMMA OwnMembers ==
    ASSUME NEW S, NEW s \in Seq(S)
    PROVE  s \in Seq(ToSet(s))
BY DEF ToSet

LEMMA Concatenation ==
    ASSUME NEW S, NEW s \in Seq(S), NEW t \in Seq(S)
    PROVE  /\ s \o t \in Seq(S) /\ Len(s \o t) = Len(s) + Len(t)
           /\ \A i \in 1 .. Len(s) : (s \o t)[i] = s[i]
           /\ \A i \in 1 .. Len(t) : (s \o t)[Len(s) + i] = t[i]
OBVIOUS

LEMMA JoinedMembers ==
    ASSUME NEW S, NEW s \in Seq(S), NEW t \in Seq(S)
    PROVE  ToSet(s \o t) = ToSet(s) \cup ToSet(t)
<1>1. /\ s \o t \in Seq(S) /\ Len(s \o t) = Len(s) + Len(t)
      /\ \A i \in 1 .. Len(s) : (s \o t)[i] = s[i]
      /\ \A i \in 1 .. Len(t) : (s \o t)[Len(s) + i] = t[i]
  BY Concatenation
<1>2. ToSet(s \o t) \subseteq ToSet(s) \cup ToSet(t)
  <2> SUFFICES ASSUME NEW i \in 1 .. Len(s \o t)
               PROVE  (s \o t)[i] \in ToSet(s) \cup ToSet(t)
    BY <1>1 DEF ToSet
  <2>1. CASE i \in 1 .. Len(s)
    BY <1>1, <2>1 DEF ToSet
  <2>2. CASE i \notin 1 .. Len(s)
    <3>1. i - Len(s) \in 1 .. Len(t) /\ Len(s) + (i - Len(s)) = i
      BY <1>1, <2>2
    <3>2. (s \o t)[i] = t[i - Len(s)]
      BY <1>1, <3>1
    <3> QED
      BY <3>1, <3>2 DEF ToSet
  <2> QED
    BY <2>1, <2>2
<1>3. ToSet(s) \subseteq ToSet(s \o t)
  BY <1>1 DEF ToSet
<1>4. ToSet(t) \subseteq ToSet(s \o t)
  <2> SUFFICES ASSUME NEW i \in 1 .. Len(t)
               PROVE  t[i] \in ToSet(s \o t)
    BY DEF ToSet
  <2>1. Len(s) + i \in 1 .. Len(s \o t)
    BY <1>1
  <2> QED
    BY <1>1, <2>1 DEF ToSet
<1> QED
  BY <1>2, <1>3, <1>4

(* A sequence without repetitions has as many members as it is long. *)
LEMMA OnceEach ==
    ASSUME NEW S, NEW s \in Seq(S), \A i, j \in 1 .. Len(s) : s[i] = s[j] => i = j
    PROVE  Cardinality(ToSet(s)) = Len(s)
<1>1. PICK n \in Nat : n = Len(s)
  OBVIOUS
<1> DEFINE T == {s[i] : i \in 1 .. n}
<1>2. IsFiniteSet(1 .. n) /\ Cardinality(1 .. n) = n
  BY FS_Interval
<1>3. s \in [1 .. n -> T] /\ ToSet(s) = T
  BY <1>1 DEF ToSet
<1>4. s \in Injection(1 .. n, T) /\ s \in Surjection(1 .. n, T)
  BY <1>1, <1>3 DEF Injection, IsInjective, Surjection
<1> QED
  BY <1>1, <1>2, <1>3, <1>4, FS_Surjection

(* A finite set of numbers in ascending order: each member once. *)
LEMMA AscendingSorts ==
    ASSUME NEW S, IsFiniteSet(S), S \subseteq Int
    PROVE  /\ Cardinality(S) \in Nat /\ Ascending(S) \in [1 .. Cardinality(S) -> S]
           /\ \A x \in S : \E i \in 1 .. Cardinality(S) : Ascending(S)[i] = x
           /\ \A i, j \in 1 .. Cardinality(S) : Ascending(S)[i] = Ascending(S)[j] => i = j
<1> DEFINE R == {p \in S \X S : p[1] < p[2]}
<1>1. \A a, b \in S : <<a, b>> \in R <=> a < b
  OBVIOUS
<1>2. \A x \in S : Below(S, R, x) = {y \in S : y < x}
  BY <1>1 DEF Below
<1> HIDE DEF R
<1>3. OrdersAll(S, R)
  BY <1>1 DEF OrdersAll
<1>4. Ascending(S) = Ranked(S, R)
  <2> DEFINE ranked(i) == CHOOSE x \in S : Cardinality(Below(S, R, x)) = i - 1
             sorted(i) == CHOOSE x \in S : Cardinality({y \in S : y < x}) = i - 1
  <2>1. \A i : ranked(i) = sorted(i)
    BY <1>2
  <2>2. /\ Ascending(S) = [i \in 1 .. Cardinality(S) |-> sorted(i)]
        /\ Ranked(S, R) = [i \in 1 .. Cardinality(S) |-> ranked(i)]
    BY DEF Ascending, InOrder, Ranked
  <2> HIDE DEF ranked, sorted
  <2> QED
    BY <2>1, <2>2
<1> QED
  BY <1>3, <1>4, RanksSort

LEMMA LesserOfTwo ==
    ASSUME NEW a \in Int, NEW b \in Int
    PROVE  Min({a, b}) = IF a <= b THEN a ELSE b
BY DEF Min

(* What a function takes a finite set to is finite. *)
LEMMA FiniteImage ==
    ASSUME NEW S, IsFiniteSet(S), NEW f, DOMAIN f = S
    PROVE  IsFiniteSet({f[x] : x \in S})
<1> DEFINE T == {f[x] : x \in S}
           g == [x \in S |-> f[x]]
<1>1. g \in Surjection(S, T)
  BY DEF Surjection
<1> QED
  BY <1>1, FS_Surjection

(* What the first n of some sequences are, one after the other. *)
Strung(parts) ==
    LET strung[n \in 0 .. Len(parts)] == IF n = 0 THEN << >> ELSE strung[n - 1] \o parts[n]
    IN strung

LEMMA Strings ==
    ASSUME NEW S, NEW parts \in Seq(Seq(S))
    PROVE  /\ Strung(parts) \in [0 .. Len(parts) -> Seq(S)] /\ Strung(parts)[0] = << >>
           /\ \A n \in 1 .. Len(parts) : Strung(parts)[n] = Strung(parts)[n - 1] \o parts[n]
<1>1. PICK len \in Nat : len = Len(parts)
  OBVIOUS
<1> DEFINE strung == CHOOSE g : g = [n \in 0 .. len |-> IF n = 0 THEN << >> ELSE g[n - 1] \o parts[n]]
           step == [p \in Nat \X Seq(S) |-> IF p[1] + 1 \in 1 .. len THEN p[2] \o parts[p[1] + 1] ELSE << >>]
<1>2. \A n \in 1 .. len : parts[n] \in Seq(S)
  BY <1>1
<1>3. \A s, t \in Seq(S) : s \o t \in Seq(S)
  OBVIOUS
<1>4. << >> \in Seq(S)
  OBVIOUS
<1>5. /\ IsStep(step, Seq(S))
      /\ \A n \in Nat, v \in Seq(S) : n + 1 \in 1 .. len => step[<<n, v>>] = v \o parts[n + 1]
  <2>1. ASSUME NEW p \in Nat \X Seq(S)
        PROVE  (IF p[1] + 1 \in 1 .. len THEN p[2] \o parts[p[1] + 1] ELSE << >>) \in Seq(S)
    <3>1. CASE p[1] + 1 \in 1 .. len
      <4>1. p[2] \in Seq(S) /\ parts[p[1] + 1] \in Seq(S)
        BY <1>2, <3>1
      <4> QED
        BY <1>3, <3>1, <4>1
    <3>2. CASE p[1] + 1 \notin 1 .. len
      BY <1>4, <3>2
    <3> QED
      BY <3>1, <3>2
  <2> QED
    BY <2>1 DEF IsStep
<1>6. PICK f : Iterates(f, Seq(S), << >>, step)
  <2> HIDE DEF step
  <2> QED
    BY <1>4, <1>5, Recursion
<1> HIDE DEF step
<1> DEFINE g == [n \in 0 .. len |-> f[n]]
<1>7. g = [n \in 0 .. len |-> IF n = 0 THEN << >> ELSE g[n - 1] \o parts[n]]
  <2>1. ASSUME NEW n \in 0 .. len, n # 0
        PROVE  g[n] = g[n - 1] \o parts[n]
    <3>1. n - 1 \in Nat /\ n - 1 \in 0 .. len /\ (n - 1) + 1 = n /\ n \in 1 .. len /\ f[n - 1] \in Seq(S)
      BY <1>6, <2>1 DEF Iterates
    <3>2. f[n] = step[<<n - 1, f[n - 1]>>]
      BY <1>6, <3>1 DEF Iterates
    <3> QED
      BY <1>5, <3>1, <3>2
  <2>2. g[0] = << >>
    BY <1>6 DEF Iterates
  <2> QED
    BY <2>1, <2>2
<1> HIDE DEF g
<1>8. strung = [n \in 0 .. len |-> IF n = 0 THEN << >> ELSE strung[n - 1] \o parts[n]]
  BY <1>7
<1>9. strung = Strung(parts)
  BY <1>1 DEF Strung
<1> HIDE DEF strung
<1>10. strung[0] = << >> /\ \A n \in 1 .. len : strung[n] = strung[n - 1] \o parts[n]
  <2>1. 0 \in 0 .. len /\ \A n \in 1 .. len : n \in 0 .. len /\ n # 0
    OBVIOUS
  <2>2. \A n \in 0 .. len : strung[n] = IF n = 0 THEN << >> ELSE strung[n - 1] \o parts[n]
    BY <1>8
  <2> QED
    BY <2>1, <2>2
<1> DEFINE Typed == {n \in Nat : n \in 0 .. len => strung[n] \in Seq(S)}
<1>11. 0 \in Typed
  BY <1>4, <1>10
<1>12. ASSUME NEW n \in Nat, n \in Typed
       PROVE  n + 1 \in Typed
  <2> SUFFICES ASSUME n + 1 \in 1 .. len
               PROVE  strung[n + 1] \in Seq(S)
    OBVIOUS
  <2>1. (n + 1) - 1 = n /\ n \in 0 .. len
    OBVIOUS
  <2>2. strung[n + 1] = strung[n] \o parts[n + 1] /\ strung[n] \in Seq(S)
    BY <1>10, <1>12, <2>1
  <2> QED
    BY <1>2, <1>3, <2>2
<1> HIDE DEF Typed
<1>13. Nat \subseteq Typed
  BY <1>11, <1>12, Induction
<1>14. strung \in [0 .. len -> Seq(S)]
  <2>1. \A n \in 0 .. len : strung[n] \in Seq(S)
    BY <1>13 DEF Typed
  <2> QED
    BY <1>8, <2>1
<1> QED
  BY <1>1, <1>9, <1>10, <1>14

(* What is in one of them is in the string, and nothing else is. *)
LEMMA StrungMembers ==
    ASSUME NEW S, NEW parts \in Seq(Seq(S)), NEW n \in 0 .. Len(parts)
    PROVE  /\ \A x \in ToSet(Strung(parts)[n]) : \E k \in 1 .. n : x \in ToSet(parts[k])
           /\ \A k \in 1 .. n : ToSet(parts[k]) \subseteq ToSet(Strung(parts)[n])
<1>1. PICK len \in Nat : len = Len(parts)
  OBVIOUS
<1> DEFINE strung == Strung(parts)
           Right(i) == /\ \A x \in ToSet(strung[i]) : \E k \in 1 .. i : x \in ToSet(parts[k])
                       /\ \A k \in 1 .. i : ToSet(parts[k]) \subseteq ToSet(strung[i])
           Rights == {i \in Nat : i \in 0 .. len => Right(i)}
<1>2. /\ strung \in [0 .. len -> Seq(S)] /\ strung[0] = << >>
      /\ \A i \in 1 .. len : strung[i] = strung[i - 1] \o parts[i]
  BY <1>1, Strings
<1>3. \A i \in 1 .. len : parts[i] \in Seq(S)
  BY <1>1
<1> HIDE DEF strung
<1>4. 0 \in Rights
  BY <1>2 DEF ToSet
<1>5. ASSUME NEW i \in Nat, i \in Rights
      PROVE  i + 1 \in Rights
  <2> SUFFICES ASSUME i + 1 \in 0 .. len
               PROVE  Right(i + 1)
    OBVIOUS
  <2>1. Right(i) /\ i \in 0 .. len /\ i + 1 \in 1 .. len /\ (i + 1) - 1 = i
    BY <1>5
  <2>2. strung[i + 1] = strung[i] \o parts[i + 1] /\ strung[i] \in Seq(S) /\ parts[i + 1] \in Seq(S)
    BY <1>2, <1>3, <2>1
  <2>3. \A s, t \in Seq(S) : ToSet(s \o t) = ToSet(s) \cup ToSet(t)
    BY JoinedMembers
  <2>4. ToSet(strung[i + 1]) = ToSet(strung[i]) \cup ToSet(parts[i + 1])
    BY <2>2, <2>3
  <2>5. \A k \in 1 .. i + 1 : k \in 1 .. i \/ k = i + 1
    OBVIOUS
  <2> QED
    BY <2>1, <2>4, <2>5
<1> HIDE DEF Rights
<1>6. n \in Nat
  OBVIOUS
<1>7. n \in Rights
  BY <1>4, <1>5, <1>6, Induction
<1> QED
  BY <1>1, <1>7 DEF Rights, strung
=============================================================================
