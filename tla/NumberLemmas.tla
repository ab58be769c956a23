----------------------------- MODULE NumberLemmas -----------------------------
(***************************************************************************)
(* Facts about numbers, finite sets and sequences that the proofs of       *)
(* several components need: least and greatest elements, what Min and Max  *)
(* return, and sequences with an element added in front or behind.         *)
(***************************************************************************)
EXTENDS Integers, Sequences, FiniteSetsExt, FiniteSetTheorems, TLAPS

\* The well-founded order on finite sets gives every set of numbers a least one: of
\* the intervals 0..n that end in the set, one contains no other.
LEMMA LeastNumber ==
  ASSUME NEW T \in SUBSET Nat, T # {}
  PROVE  \E x \in T : \A y \in T : x <= y
<1> DEFINE F == {0..n : n \in T}
<1>1. F \subseteq FiniteSubsetsOf(Nat) /\ F # {}
  <2>1. ASSUME NEW n \in Nat
        PROVE  0..n \in FiniteSubsetsOf(Nat)
    <3>1. IsFiniteSet(0..n)
      BY FS_Interval
    <3>2. 0..n \in SUBSET Nat
      OBVIOUS
    <3> QED
      BY <3>1, <3>2, Zenon DEF FiniteSubsetsOf
  <2> QED
    BY <2>1
<1>2. PICK I \in F : \A J \in F : ~ (<<J, I>> \in StrictSubsetOrdering(Nat))
  <2> HIDE DEF F
  <2> QED
    BY <1>1, FS_StrictSubsetOrderingWellFounded, WFMin
<1>3. PICK x \in T : I = 0..x
  OBVIOUS
<1>4. ASSUME NEW y \in T, ~(x <= y)
      PROVE  FALSE
  <2>1. 0..y \subseteq 0..x /\ 0..y # 0..x /\ 0..y \in SUBSET Nat /\ 0..x \in SUBSET Nat
    <3>1. x \in 0..x /\ x \notin 0..y
      BY <1>4
    <3> QED
      BY <1>4, <3>1
  <2>2. <<0..y, I>> \in StrictSubsetOrdering(Nat)
    BY <1>3, <2>1, Zenon DEF StrictSubsetOrdering
  <2> QED
    BY <1>2, <2>2
<1> QED
  BY <1>4

\* A bounded set of numbers has a greatest one.
LEMMA GreatestNumber ==
  ASSUME NEW n \in Nat, NEW T \in SUBSET (0..n), T # {}
  PROVE  \E x \in T : \A y \in T : y <= x
<1> DEFINE D == {n - y : y \in T}
<1>1. D \in SUBSET Nat /\ D # {}
  <2>1. \A y \in T : n - y \in Nat
    OBVIOUS
  <2> QED
    BY <2>1
<1>2. PICK d \in D : \A e \in D : d <= e
  <2> HIDE DEF D
  <2> QED
    BY <1>1, LeastNumber
<1>3. PICK x \in T : d = n - x
  OBVIOUS
<1>4. ASSUME NEW y \in T
      PROVE  y <= x
  <2>1. n - y \in D /\ y \in Int /\ x \in Int
    OBVIOUS
  <2> QED
    BY <1>2, <1>3, <2>1
<1> QED
  BY <1>4

\* What Min and Max return.
LEMMA MinFacts ==
  ASSUME NEW T \in SUBSET Nat, T # {}
  PROVE  Min(T) \in T /\ \A y \in T : Min(T) <= y
BY LeastNumber DEF Min

LEMMA MaxFacts ==
  ASSUME NEW n \in Nat, NEW T \in SUBSET (0..n), T # {}
  PROVE  Max(T) \in T /\ \A y \in T : y <= Max(T)
<1>1. \E x \in T : \A y \in T : x >= y
  <2>1. PICK x \in T : \A y \in T : y <= x
    BY GreatestNumber
  <2> QED
    BY <2>1
<1> QED
  BY <1>1 DEF Max

\* A finite set of numbers has a greatest one: of the parts above its members, one
\* contains no other.
LEMMA MaxOfFinite ==
  ASSUME NEW T \in SUBSET Nat, IsFiniteSet(T), T # {}
  PROVE  Max(T) \in T /\ \A y \in T : y <= Max(T)
<1> DEFINE Above(x) == {y \in T : y > x}
           F == {Above(x) : x \in T}
<1>1. F \subseteq FiniteSubsetsOf(T) /\ F # {}
  <2>1. ASSUME NEW x \in T
        PROVE  Above(x) \in FiniteSubsetsOf(T)
    <3>1. Above(x) \in SUBSET T
      OBVIOUS
    <3>2. IsFiniteSet(Above(x))
      BY <3>1, FS_Subset
    <3> QED
      BY <3>1, <3>2, Zenon DEF FiniteSubsetsOf
  <2> QED
    BY <2>1
<1>2. PICK I \in F : \A J \in F : ~ (<<J, I>> \in StrictSubsetOrdering(T))
  <2> HIDE DEF F
  <2> QED
    BY <1>1, FS_StrictSubsetOrderingWellFounded, WFMin
<1>3. PICK x \in T : I = Above(x)
  OBVIOUS
<1>4. ASSUME NEW y \in T, ~(y <= x)
      PROVE  FALSE
  <2>1. Above(y) \subseteq Above(x) /\ Above(y) # Above(x) /\ Above(x) \in SUBSET T
    <3>1. y \in Above(x) /\ y \notin Above(y)
      BY <1>4
    <3>2. ASSUME NEW z \in T, z > y PROVE z > x
      <4>1. x \in Int /\ y \in Int /\ z \in Int
        OBVIOUS
      <4> QED
        BY <1>4, <3>2, <4>1
    <3> QED
      BY <3>1, <3>2
  <2>2. <<Above(y), I>> \in StrictSubsetOrdering(T)
    BY <1>3, <2>1, Zenon DEF StrictSubsetOrdering
  <2> QED
    BY <1>2, <2>2
<1>5. \E z \in T : \A y \in T : z >= y
  BY <1>4
<1> QED
  BY <1>5 DEF Max

LEMMA ImageIsFinite ==
  ASSUME NEW S, IsFiniteSet(S), NEW f
  PROVE  IsFiniteSet({f[x] : x \in S})
<1> DEFINE T == {f[x] : x \in S}
           g == [x \in S |-> f[x]]
<1>1. g \in Surjection(S, T)
  BY DEF Surjection
<1> QED
  BY <1>1, FS_Surjection

-----------------------------------------------------------------------------
(* Sequences *)

LEMMA AppendFacts ==
  ASSUME NEW S, NEW s \in Seq(S), NEW x \in S
  PROVE  /\ Append(s, x) \in Seq(S) /\ Len(s) \in Nat
         /\ Len(Append(s, x)) = Len(s) + 1
         /\ DOMAIN Append(s, x) = 1..(Len(s) + 1) /\ DOMAIN s = 1..Len(s)
         /\ \A i \in 1..Len(s) : Append(s, x)[i] = s[i]
         /\ Append(s, x)[Len(s) + 1] = x
  OBVIOUS

LEMMA ConsFacts ==
  ASSUME NEW S, NEW s \in Seq(S), NEW x \in S
  PROVE  /\ <<x>> \o s \in Seq(S) /\ Len(s) \in Nat
         /\ Len(<<x>> \o s) = Len(s) + 1
         /\ DOMAIN (<<x>> \o s) = 1..(Len(s) + 1) /\ DOMAIN s = 1..Len(s)
         /\ (<<x>> \o s)[1] = x
         /\ \A i \in 1..Len(s) : (<<x>> \o s)[i + 1] = s[i]
<1>1. <<x>> \in Seq(S) /\ Len(<<x>>) = 1 /\ Len(s) \in Nat
  OBVIOUS
<1>2. <<x>> \o s \in Seq(S) /\ Len(<<x>> \o s) = Len(s) + 1
  BY <1>1
<1>3. \A i \in 1..Len(s) : (<<x>> \o s)[i + 1] = s[i]
  BY <1>1
<1>4. (<<x>> \o s)[1] = x
  BY <1>1
<1> QED
  BY <1>1, <1>2, <1>3, <1>4

LEMMA SameSequence ==
  ASSUME NEW S, NEW s \in Seq(S), NEW r \in Seq(S), Len(s) = Len(r),
         \A i \in 1..Len(s) : s[i] = r[i]
  PROVE  s = r
  OBVIOUS

LEMMA HeadAndTail ==
  ASSUME NEW S, NEW s \in Seq(S), s # << >>
  PROVE  /\ Head(s) \in S /\ Tail(s) \in Seq(S) /\ Head(s) = s[1]
         /\ <<Head(s)>> \o Tail(s) = s
<1>1. /\ Head(s) \in S /\ Tail(s) \in Seq(S) /\ Len(s) \in Nat /\ Len(s) >= 1
      /\ Len(Tail(s)) = Len(s) - 1 /\ Head(s) = s[1]
  OBVIOUS
<1>2. \A i \in 1..Len(Tail(s)) : Tail(s)[i] = s[i + 1]
  BY <1>1
<1>3. /\ <<Head(s)>> \o Tail(s) \in Seq(S) /\ Len(<<Head(s)>> \o Tail(s)) = Len(s)
      /\ (<<Head(s)>> \o Tail(s))[1] = s[1]
      /\ \A i \in 1..Len(Tail(s)) : (<<Head(s)>> \o Tail(s))[i + 1] = Tail(s)[i]
  BY <1>1, ConsFacts
<1>4. ASSUME NEW i \in 1..Len(s), i # 1
      PROVE  (<<Head(s)>> \o Tail(s))[i] = s[i]
  <2>1. i - 1 \in 1..Len(Tail(s)) /\ (i - 1) + 1 = i
    BY <1>1, <1>4
  <2> QED
    BY <1>2, <1>3, <2>1
<1>5. \A i \in 1..Len(<<Head(s)>> \o Tail(s)) : (<<Head(s)>> \o Tail(s))[i] = s[i]
  BY <1>3, <1>4
<1> QED
  BY <1>1, <1>3, <1>5, SameSequence

-----------------------------------------------------------------------------
(* Filters: the members of a list that are in a set, one after the other *)

\* A set of numbers that has 0 and with every n < m also n + 1 has them all.
LEMMA UpTo ==
  ASSUME NEW m \in Nat, NEW T, 0 \in T, \A n \in 0..m : n < m /\ n \in T => n + 1 \in T
  PROVE  \A n \in 0..m : n \in T
<1> DEFINE Missing == {n \in 0..m : n \notin T}
<1>1. SUFFICES ASSUME Missing # {} PROVE FALSE
  OBVIOUS
<1>2. PICK n \in Missing : \A k \in Missing : n <= k
  <2>1. Missing \in SUBSET Nat
    OBVIOUS
  <2> HIDE DEF Missing
  <2> QED
    BY <1>1, <2>1, LeastNumber
<1>3. n # 0 /\ n - 1 \in 0..m /\ n - 1 \notin Missing
  BY <1>2
<1> QED
  BY <1>2, <1>3

\* f[i] are the first i members of the list that are in S.
Filters(f, list, S) ==
  f = [i \in 0..Len(list) |->
         IF i = 0 THEN <<>>
         ELSE IF list[i] \in S THEN Append(f[i - 1], list[i]) ELSE f[i - 1]]

LEMMA FilterExists ==
  ASSUME NEW D, NEW list \in Seq(D), NEW S
  PROVE  \E f : Filters(f, list, S)
<1> DEFINE Body(f, i) == IF i = 0 THEN <<>>
                         ELSE IF list[i] \in S THEN Append(f[i - 1], list[i]) ELSE f[i - 1]
           T == {n \in 0..Len(list) : \E f : f = [i \in 0..n |-> Body(f, i)]}
<1>0. Len(list) \in Nat
  OBVIOUS
<1>1. 0 \in T
  <2>1. PICK f : f = [i \in 0..0 |-> <<>>]
    OBVIOUS
  <2>2. f = [i \in 0..0 |-> Body(f, i)]
    BY <2>1
  <2> QED
    BY <1>0, <2>2
<1>2. ASSUME NEW n \in 0..Len(list), n < Len(list), n \in T
      PROVE  n + 1 \in T
  <2>1. PICK f : f = [i \in 0..n |-> Body(f, i)]
    BY <1>2
  <2>2. PICK g : g = [i \in 0..(n + 1) |-> IF i <= n THEN f[i] ELSE Body(f, i)]
    OBVIOUS
  <2>3. \A i \in 0..n : f[i] = Body(f, i)
    BY <2>1
  <2>4. \A i \in 0..n : g[i] = f[i]
    BY <2>2
  <2>5. ASSUME NEW i \in 0..(n + 1) PROVE g[i] = Body(g, i)
    <3>1. Body(g, i) = Body(f, i)
      <4>1. CASE i = 0
        BY <4>1
      <4>2. CASE i # 0
        <5>1. i - 1 \in 0..n
          BY <1>2, <4>2
        <5> QED
          BY <2>4, <5>1
      <4> QED
        BY <4>1, <4>2
    <3>2. g[i] = Body(f, i)
      BY <2>2, <2>3
    <3> QED
      BY <3>1, <3>2
  <2>6. g = [i \in 0..(n + 1) |-> Body(g, i)]
    <3> HIDE DEF Body
    <3> QED
      BY <2>2, <2>5
  <2> QED
    BY <1>0, <1>2, <2>6, SMTT(30)
<1>3. Len(list) \in T
  <2>1. \A n \in 0..Len(list) : n < Len(list) /\ n \in T => n + 1 \in T
    BY <1>2
  <2> HIDE DEF T
  <2>2. \A n \in 0..Len(list) : n \in T
    BY <1>0, <1>1, <2>1, UpTo
  <2> QED
    BY <1>0, <2>2
<1>4. \E f : f = [i \in 0..Len(list) |-> Body(f, i)]
  BY <1>3
<1> QED
  BY <1>4 DEF Filters

\* Each pair of members, the first before the second, is in R.
Ordered(s, R) == \A i, k \in 1..Len(s) : i < k => <<s[i], s[k]>> \in R

LEMMA FilterFacts ==
  ASSUME NEW D, NEW list \in Seq(D), NEW S, NEW R, NEW f, Filters(f, list, S)
  PROVE  /\ f[Len(list)] \in Seq(D) /\ Len(f[Len(list)]) <= Len(list)
         /\ {f[Len(list)][i] : i \in 1..Len(f[Len(list)])}
              = {list[i] : i \in 1..Len(list)} \cap S
         /\ Ordered(list, R) => Ordered(f[Len(list)], R)
<1>0. Len(list) \in Nat /\ \A i \in 1..Len(list) : list[i] \in D
  OBVIOUS
<1> DEFINE Of(s) == {s[i] : i \in 1..Len(s)}
           T == {n \in 0..Len(list) :
                   /\ f[n] \in Seq(D) /\ Len(f[n]) <= n
                   /\ Of(f[n]) = {list[i] : i \in 1..n} \cap S
                   /\ Ordered(list, R) => Ordered(f[n], R)}
<1>2. 0 \in T
  <2>1. f[0] = <<>>
    BY <1>0 DEF Filters
  <2>2. <<>> \in Seq(D) /\ Of(<<>>) = {} /\ Len(<<>>) <= 0
    OBVIOUS
  <2>3. Ordered(<<>>, R)
    BY DEF Ordered
  <2>4. {list[i] : i \in 1..0} = {}
    OBVIOUS
  <2>5. Of(f[0]) = {list[i] : i \in 1..0} \cap S
    BY <2>1, <2>2, <2>4
  <2>6. f[0] \in Seq(D) /\ Ordered(f[0], R) /\ 0 \in 0..Len(list) /\ Len(f[0]) <= 0
    BY <1>0, <2>1, <2>2, <2>3
  <2> QED
    BY <2>5, <2>6, Zenon
<1>3. ASSUME NEW n \in 0..Len(list), n < Len(list), n \in T
      PROVE  n + 1 \in T
  <2>1. n + 1 \in 1..Len(list) /\ n + 1 \in 0..Len(list) /\ list[n + 1] \in D /\ (n + 1) - 1 = n
    BY <1>0, <1>3
  <2>2. f[n + 1] = IF list[n + 1] \in S THEN Append(f[n], list[n + 1]) ELSE f[n]
    <3>1. ASSUME NEW i \in 0..Len(list), i # 0
          PROVE  f[i] = IF list[i] \in S THEN Append(f[i - 1], list[i]) ELSE f[i - 1]
      BY <3>1, Zenon DEF Filters
    <3>2. n + 1 # 0
      BY <1>3
    <3>3. f[n + 1] = IF list[n + 1] \in S THEN Append(f[(n + 1) - 1], list[n + 1])
                     ELSE f[(n + 1) - 1]
      BY <2>1, <3>1, <3>2, Zenon
    <3> QED
      BY <2>1, <3>3
  <2>3. {list[i] : i \in 1..(n + 1)} = {list[i] : i \in 1..n} \cup {list[n + 1]}
    <3>1. 1..(n + 1) = (1..n) \cup {n + 1}
      BY <1>3
    <3> QED
      BY <3>1
  <2>4. CASE list[n + 1] \in S
    <3>1. PICK s \in Seq(D), e \in D : s = f[n] /\ e = list[n + 1]
      BY <1>3, <2>1
    <3>2. /\ Append(s, e) \in Seq(D) /\ Of(Append(s, e)) = Of(s) \cup {e}
          /\ Len(Append(s, e)) = Len(s) + 1 /\ Len(s) \in Nat
      BY AppendFacts
    <3>3. ASSUME Ordered(list, R) PROVE Ordered(Append(s, e), R)
      <4>1. \A i \in 1..n : <<list[i], e>> \in R
        BY <1>3, <2>1, <3>1, <3>3 DEF Ordered
      <4>2. Ordered(s, R) /\ Of(s) \subseteq {list[i] : i \in 1..n}
        BY <1>3, <3>1, <3>3
      <4>3. \A i \in 1..Len(s) : <<s[i], e>> \in R
        BY <4>1, <4>2
      <4> QED
        BY <4>2, <4>3, AppendFacts DEF Ordered
    <3>4. f[n + 1] = Append(s, e)
      BY <2>2, <2>4, <3>1
    <3>5. /\ f[n + 1] \in Seq(D) /\ Len(f[n + 1]) <= n + 1
          /\ Ordered(list, R) => Ordered(f[n + 1], R)
      BY <1>3, <3>1, <3>2, <3>3, <3>4
    <3>6. Of(f[n + 1]) = {list[i] : i \in 1..(n + 1)} \cap S
      BY <1>3, <2>3, <2>4, <3>1, <3>2, <3>4, SMTT(30)
    <3> HIDE DEF Of
    <3> QED
      BY <2>1, <3>5, <3>6
  <2>5. CASE list[n + 1] \notin S
    <3>1. f[n + 1] = f[n]
      BY <2>2, <2>5
    <3>2. /\ f[n + 1] \in Seq(D) /\ Len(f[n + 1]) <= n + 1
          /\ Ordered(list, R) => Ordered(f[n + 1], R)
      BY <1>3, <3>1
    <3>3. Of(f[n + 1]) = {list[i] : i \in 1..(n + 1)} \cap S
      BY <1>3, <2>3, <2>5, <3>1
    <3> HIDE DEF Of
    <3> QED
      BY <2>1, <3>2, <3>3
  <2> QED
    BY <2>4, <2>5
<1>4. Len(list) \in T
  <2>1. \A n \in 0..Len(list) : n < Len(list) /\ n \in T => n + 1 \in T
    BY <1>3
  <2> HIDE DEF T
  <2>2. \A n \in 0..Len(list) : n \in T
    BY <1>0, <1>2, <2>1, UpTo
  <2> QED
    BY <1>0, <2>2
<1> QED
  BY <1>4

=============================================================================
