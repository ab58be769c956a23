---------------------------- MODULE StreamProofs ----------------------------
(***************************************************************************)
(* Proofs about the readers of the model's stream (EventStream) and about  *)
(* the way of an answer to the voice (AnswerStream), for any streams,      *)
(* answers and cuts: an inductive invariant of each, from which the        *)
(* readers and the voice lose and invent nothing.  The functions on        *)
(* streams and texts are recursive: what they compute is proved from       *)
(* RecursionExists below, by induction on the length of a sequence, stated *)
(* as the inclusion of Seq(V) in a set.                                    *)
(***************************************************************************)
EXTENDS EventStream, AnswerStream, NumberLemmas, TLAPS

-----------------------------------------------------------------------------
(* Recursion, and sequences put together *)

\* A function may be defined by recursion: f[s] by C from f, which looks at no f[t] but for t
\* that are smaller by the measure M.
Depends(S, A, M, C) ==
  \A s \in S : \A f, g \in [S -> A] :
    (\A t \in S : M[t] < M[s] => f[t] = g[t]) => C[s][f] = C[s][g]
Recurs(f, S, C) == \A s \in S : f[s] = C[s][f]

LEMMA RecursionExists ==
  ASSUME NEW S, NEW A, NEW M \in [S -> Nat], NEW C \in [S -> [[S -> A] -> A]],
         NEW any \in [S -> A], Depends(S, A, M, C)
  PROVE  \E f \in [S -> A] : Recurs(f, S, C)
<1> DEFINE Upto(f, n) == f \in [S -> A] /\ \A s \in S : M[s] < n => f[s] = C[s][f]
           T == {n \in Nat : \E f : Upto(f, n)}
<1>0. \A s \in S : M[s] \in Nat
  OBVIOUS
<1>1. \A f \in [S -> A] : \A s \in S : C[s][f] \in A
  <2> TAKE f \in [S -> A]
  <2> TAKE s \in S
  <2>1. C[s] \in [[S -> A] -> A]
    OBVIOUS
  <2> QED
    BY <2>1
<1>2. ASSUME NEW f \in [S -> A], NEW g \in [S -> A], NEW s \in S,
             \A t \in S : M[t] < M[s] => f[t] = g[t]
      PROVE  C[s][f] = C[s][g]
  BY <1>2, Zenon DEF Depends
<1>3. 0 \in T
  <2>1. Upto(any, 0)
    BY <1>0
  <2> QED
    BY <2>1
<1>4. ASSUME NEW n \in Nat, n \in T
      PROVE  n + 1 \in T
  <2>1. PICK f : Upto(f, n)
    BY <1>4
  <2>2. PICK g : g = [s \in S |-> IF M[s] < n THEN f[s] ELSE C[s][f]]
    OBVIOUS
  <2>3. g \in [S -> A] /\ f \in [S -> A]
    BY <1>1, <2>1, <2>2
  <2>4. ASSUME NEW s \in S, M[s] < n + 1
        PROVE  g[s] = C[s][g]
    <3>1. \A t \in S : M[t] < M[s] => f[t] = g[t]
      <4>1. \A t \in S : M[t] < M[s] => M[t] < n
        BY <1>0, <2>4
      <4> QED
        BY <2>2, <4>1
    <3>2. C[s][f] = C[s][g]
      BY <1>2, <2>3, <3>1
    <3>3. g[s] = C[s][f]
      BY <2>1, <2>2
    <3> QED
      BY <3>2, <3>3
  <2>5. Upto(g, n + 1)
    BY <2>3, <2>4
  <2> QED
    BY <2>5
<1>5. \A n \in Nat : n \in T
  <2> TAKE n \in Nat
  <2>1. \A k \in 0..n : k < n /\ k \in T => k + 1 \in T
    BY <1>4
  <2> HIDE DEF T
  <2>2. \A k \in 0..n : k \in T
    BY <1>3, <2>1, UpTo
  <2> QED
    BY <2>2
<1>6. ASSUME NEW m \in Nat, NEW n \in Nat, NEW f, NEW g, Upto(f, m), Upto(g, n), NEW s \in S,
             M[s] < m, M[s] < n
      PROVE  f[s] = g[s]
  <2> DEFINE Wrong == {k \in Nat : \E t \in S : M[t] = k /\ k < m /\ k < n /\ f[t] # g[t]}
  <2>1. SUFFICES ASSUME Wrong # {} PROVE FALSE
    BY <1>0, <1>6
  <2>2. PICK k \in Wrong : \A j \in Wrong : k <= j
    <3>1. Wrong \in SUBSET Nat
      OBVIOUS
    <3> HIDE DEF Wrong
    <3> QED
      BY <2>1, <3>1, LeastNumber
  <2>3. PICK t \in S : M[t] = k /\ k < m /\ k < n /\ f[t] # g[t]
    BY <2>2
  <2>4. ASSUME NEW u \in S, M[u] < M[t] PROVE f[u] = g[u]
    <3>1. SUFFICES ASSUME f[u] # g[u] PROVE FALSE
      OBVIOUS
    <3>2. M[u] \in Nat /\ M[u] < k /\ M[u] < m /\ M[u] < n
      BY <1>0, <2>3, <2>4
    <3>3. M[u] \in Wrong
      BY <3>1, <3>2
    <3> QED
      BY <2>2, <3>2, <3>3
  <2>5. C[t][f] = C[t][g]
    BY <1>2, <1>6, <2>4
  <2> QED
    BY <1>6, <2>3, <2>5
<1>7. PICK h : h = [n \in Nat |-> CHOOSE f : Upto(f, n)]
  OBVIOUS
<1>8. \A n \in Nat : Upto(h[n], n)
  <2> TAKE n \in Nat
  <2>1. \E f : Upto(f, n)
    BY <1>5
  <2>2. h[n] = CHOOSE f : Upto(f, n)
    BY <1>7
  <2> HIDE DEF Upto
  <2> QED
    BY <2>1, <2>2, Zenon
<1>9. PICK f : f = [s \in S |-> h[M[s] + 1][s]]
  OBVIOUS
<1>10. \A s \in S : M[s] + 1 \in Nat /\ Upto(h[M[s] + 1], M[s] + 1)
  BY <1>0, <1>8
<1>11. f \in [S -> A]
  <2>1. \A s \in S : h[M[s] + 1][s] \in A
    BY <1>10
  <2> QED
    BY <1>9, <2>1
<1>12. ASSUME NEW s \in S PROVE f[s] = C[s][f]
  <2>1. f[s] = h[M[s] + 1][s] /\ M[s] < M[s] + 1
    BY <1>0, <1>9
  <2>2. f[s] = C[s][h[M[s] + 1]] /\ h[M[s] + 1] \in [S -> A]
    BY <1>10, <2>1
  <2>3. ASSUME NEW t \in S, M[t] < M[s] PROVE f[t] = h[M[s] + 1][t]
    <3>2. f[t] = h[M[t] + 1][t]
      BY <1>9
    <3>3. M[t] \in Nat /\ M[s] \in Nat /\ M[t] < M[t] + 1 /\ M[t] < M[s] + 1
      BY <1>0, <2>3
    <3>4. Upto(h[M[s] + 1], M[s] + 1) /\ Upto(h[M[t] + 1], M[t] + 1)
      BY <1>10
    <3> HIDE DEF Upto
    <3>5. h[M[t] + 1][t] = h[M[s] + 1][t]
      BY <1>6, <1>10, <3>3, <3>4
    <3> QED
      BY <3>2, <3>5
  <2>4. C[s][f] = C[s][h[M[s] + 1]]
    BY <1>2, <1>11, <2>2, <2>3
  <2> QED
    BY <2>2, <2>4
<1> QED
  BY <1>11, <1>12 DEF Recurs

\* The same for a function on 0..n, each value from the one before.
Steps(f, n, base, C) == f[0] = base /\ \A i \in 1..n : f[i] = C[i][f[i - 1]]

\* A function on 0..n that goes from each value to the next one.
LEMMA StepsExist ==
  ASSUME NEW n \in Nat, NEW A, NEW base \in A, NEW C \in [0..n -> [A -> A]]
  PROVE  \E f \in [0..n -> A] : Steps(f, n, base, C)
<1>0. PICK S : S = 0..n
  OBVIOUS
<1>1. PICK M : M = [i \in S |-> i]
  OBVIOUS
<1>2. PICK D : D = [i \in S |-> [f \in [S -> A] |-> IF i = 0 THEN base ELSE C[i][f[i - 1]]]]
  OBVIOUS
<1>3. M \in [S -> Nat]
  BY <1>0, <1>1
<1>4. D \in [S -> [[S -> A] -> A]]
  <2>1. \A i \in S : \A f \in [S -> A] : (IF i = 0 THEN base ELSE C[i][f[i - 1]]) \in A
    <3> TAKE i \in S
    <3> TAKE f \in [S -> A]
    <3>1. CASE i = 0
      BY <3>1
    <3>2. CASE i # 0
      <4>1. i - 1 \in S /\ C[i] \in [A -> A]
        BY <1>0, <3>2
      <4>2. f[i - 1] \in A
        BY <4>1
      <4> QED
        BY <3>2, <4>1, <4>2
    <3> QED
      BY <3>1, <3>2
  <2> QED
    BY <1>2, <2>1
<1>5. Depends(S, A, M, D)
  <2> SUFFICES ASSUME NEW i \in S, NEW f \in [S -> A], NEW g \in [S -> A],
                      \A t \in S : M[t] < M[i] => f[t] = g[t]
               PROVE  D[i][f] = D[i][g]
    BY DEF Depends
  <2>1. CASE i = 0
    BY <1>2, <2>1
  <2>2. CASE i # 0
    <3>1. i - 1 \in S /\ i - 1 < i
      BY <1>0, <2>2
    <3>2. f[i - 1] = g[i - 1]
      BY <1>1, <3>1
    <3> QED
      BY <1>2, <3>2
  <2> QED
    BY <2>1, <2>2
<1>6. [i \in S |-> base] \in [S -> A]
  OBVIOUS
<1>7. PICK f \in [S -> A] : Recurs(f, S, D)
  BY <1>3, <1>4, <1>5, <1>6, RecursionExists
<1>8. \A i \in S : f[i] = IF i = 0 THEN base ELSE C[i][f[i - 1]]
  BY <1>2, <1>7 DEF Recurs
<1>9. f[0] = base
  <2>1. 0 \in S
    BY <1>0
  <2> QED
    BY <1>8, <2>1
<1>10. \A i \in 1..n : f[i] = C[i][f[i - 1]]
  <2>1. \A i \in 1..n : i \in S /\ i # 0
    BY <1>0
  <2> QED
    BY <1>8, <2>1
<1> QED
  BY <1>0, <1>7, <1>9, <1>10 DEF Steps

\* f[i] is the first i sequences of c, one after the other.
Gathers(f, n, c) == f[0] = <<>> /\ \A i \in 1..n : f[i] = f[i - 1] \o c[i]

\* Pieces may be gathered one after the other into a sequence.
LEMMA GatherExists ==
  ASSUME NEW V, NEW n \in Nat, NEW c \in [1..n -> Seq(V)]
  PROVE  \E f \in [0..n -> Seq(V)] : Gathers(f, n, c)
<1> DEFINE A == Seq(V)
<1>1. PICK C : C = [i \in 0..n |-> [x \in A |-> IF i \in 1..n THEN x \o c[i] ELSE x]]
  OBVIOUS
<1>2. C \in [0..n -> [A -> A]]
  <2>1. \A i \in 1..n : c[i] \in A
    OBVIOUS
  <2>2. \A x, y \in A : x \o y \in A
    OBVIOUS
  <2> HIDE DEF A
  <2> QED
    BY <1>1, <2>1, <2>2
<1>3. <<>> \in A
  OBVIOUS
<1>4. PICK f \in [0..n -> A] : f[0] = <<>> /\ \A i \in 1..n : f[i] = C[i][f[i - 1]]
  <2> HIDE DEF A
  <2>1. PICK none \in A : none = <<>>
    BY <1>3
  <2>2. \E f \in [0..n -> A] : Steps(f, n, none, C)
    BY <1>2, StepsExist
  <2> QED
    BY <2>1, <2>2 DEF Steps
<1>5. ASSUME NEW i \in 1..n PROVE f[i] = f[i - 1] \o c[i]
  <2>1. i \in 0..n /\ i - 1 \in 0..n
    OBVIOUS
  <2> HIDE DEF A
  <2>2. f[i - 1] \in A
    BY <1>4, <2>1
  <2>3. C[i][f[i - 1]] = f[i - 1] \o c[i]
    BY <1>1, <2>1, <2>2
  <2> QED
    BY <1>4, <2>3
<1> QED
  BY <1>4, <1>5 DEF Gathers

\* Pieces of V give sequences of V.
LEMMA GatherTypes ==
  ASSUME NEW V, NEW n \in Nat, NEW c, \A i \in 1..n : c[i] \in Seq(V), NEW f, Gathers(f, n, c)
  PROVE  \A i \in 0..n : f[i] \in Seq(V)
<1> DEFINE T == {i \in 0..n : f[i] \in Seq(V)}
<1>1. 0 \in T
  <2>1. f[0] = <<>> /\ <<>> \in Seq(V) /\ 0 \in 0..n
    BY DEF Gathers
  <2> QED
    BY <2>1
<1>2. \A i \in 0..n : i < n /\ i \in T => i + 1 \in T
  <2> SUFFICES ASSUME NEW i \in 0..n, i < n, i \in T PROVE i + 1 \in T
    OBVIOUS
  <2>1. i + 1 \in 1..n /\ (i + 1) - 1 = i
    OBVIOUS
  <2>2. f[i + 1] = f[i] \o c[i + 1]
    BY <2>1 DEF Gathers
  <2>3. f[i] \in Seq(V) /\ c[i + 1] \in Seq(V)
    BY <2>1
  <2>4. f[i] \o c[i + 1] \in Seq(V)
    BY <2>3
  <2>5. i + 1 \in 0..n
    OBVIOUS
  <2> QED
    BY <2>2, <2>4, <2>5
<1>3. \A i \in 0..n : i \in T
  <2> HIDE DEF T
  <2> QED
    BY <1>1, <1>2, UpTo
<1> QED
  BY <1>3

\* c is the part of the list e after its first off members.
PartOf(V, off, n, c, e) == \A i \in 1..n : c[i] \in Seq(V) /\ e[off + i] = c[i]

\* What is gathered of two lists of sequences is gathered of the one list of both.
IsJoin(z, x, y) == z = x \o y

\* Three pieces may be joined from either end.
LEMMA JoinAssoc ==
  ASSUME NEW V, NEW a \in Seq(V), NEW b \in Seq(V), NEW c \in Seq(V),
         NEW ab, IsJoin(ab, a, b), NEW bc, IsJoin(bc, b, c), NEW u
  PROVE  /\ IsJoin(u, ab, c) <=> IsJoin(u, a, bc)
         /\ ab \in Seq(V) /\ bc \in Seq(V)
<1>1. ab = a \o b /\ bc = b \o c
  BY DEF IsJoin
<1>2. (a \o b) \o c = a \o (b \o c) /\ a \o b \in Seq(V) /\ b \o c \in Seq(V)
  BY SMTT(30)
<1> QED
  BY <1>1, <1>2 DEF IsJoin

GathersBoth(V, n, c, f, m, d, g, k, e, h) ==
  /\ k = n + m
  /\ PartOf(V, 0, n, c, e) /\ PartOf(V, n, m, d, e)
  /\ Gathers(f, n, c) /\ Gathers(g, m, d) /\ Gathers(h, k, e)

\* The pieces of two lists together give what the two lists give, joined.
LEMMA GatherConcat ==
  ASSUME NEW n \in Nat, NEW m \in Nat, NEW k \in Nat, NEW V, NEW c, NEW d, NEW e,
         NEW f, NEW g, NEW h, GathersBoth(V, n, c, f, m, d, g, k, e, h)
  PROVE  IsJoin(h[k], f[n], g[m])
<1>8. /\ k = n + m
      /\ PartOf(V, 0, n, c, e) /\ PartOf(V, n, m, d, e)
      /\ Gathers(f, n, c) /\ Gathers(g, m, d) /\ Gathers(h, k, e)
  BY DEF GathersBoth
<1>9. /\ \A i \in 1..n : c[i] \in Seq(V) /\ e[i] = c[i]
      /\ \A i \in 1..m : d[i] \in Seq(V) /\ e[n + i] = d[i]
  <2>1. \A i \in 1..n : 0 + i = i
    OBVIOUS
  <2>2. \A i \in 1..n : c[i] \in Seq(V) /\ e[0 + i] = c[i]
    BY <1>8, Zenon DEF PartOf
  <2>3. \A i \in 1..m : d[i] \in Seq(V) /\ e[n + i] = d[i]
    BY <1>8, Zenon DEF PartOf
  <2> QED
    BY <2>1, <2>2, <2>3
<1>0. (\A i \in 0..n : f[i] \in Seq(V)) /\ (\A i \in 0..m : g[i] \in Seq(V))
  <2>1. (\A i \in 1..n : c[i] \in Seq(V)) /\ (\A i \in 1..m : d[i] \in Seq(V))
    BY <1>9
  <2> QED
    BY <1>8, <2>1, GatherTypes, Zenon
<1> DEFINE T == {i \in 0..n : h[i] = f[i]}
           U == {i \in 0..m : h[n + i] = f[n] \o g[i]}
<1>1. \A i \in 0..n : i \in T
  <2>1. 0 \in T
    BY <1>8 DEF Gathers
  <2>2. \A i \in 0..n : i < n /\ i \in T => i + 1 \in T
    <3> SUFFICES ASSUME NEW i \in 0..n, i < n, i \in T PROVE i + 1 \in T
      OBVIOUS
    <3>1. i + 1 \in 1..n /\ i + 1 \in 1..k /\ (i + 1) - 1 = i
      BY <1>8
    <3>2. f[i + 1] = f[i] \o c[i + 1] /\ h[i + 1] = h[i] \o e[i + 1] /\ e[i + 1] = c[i + 1]
      BY <1>8, <1>9, <3>1 DEF Gathers
    <3>3. h[i] = f[i] /\ i + 1 \in 0..n
      OBVIOUS
    <3>4. h[i + 1] = f[i + 1]
      BY <3>2, <3>3
    <3> QED
      BY <3>3, <3>4
  <2> HIDE DEF T
  <2> QED
    BY <2>1, <2>2, UpTo
<1>2. h[n] = f[n]
  <2>1. n \in T
    <3> HIDE DEF T
    <3> QED
      BY <1>1
  <2> QED
    BY <2>1
<1>3. \A i \in 0..m : i \in U
  <2>1. 0 \in U
    <3>1. g[0] = <<>> /\ n + 0 = n /\ 0 \in 0..m
      BY <1>8 DEF Gathers
    <3>2. PICK x \in Seq(V) : x = f[n]
      BY <1>0
    <3>3. x \o <<>> = x
      OBVIOUS
    <3>4. h[n + 0] = f[n] \o g[0]
      BY <1>2, <3>1, <3>2, <3>3
    <3> QED
      BY <3>1, <3>4
  <2>2. \A i \in 0..m : i < m /\ i \in U => i + 1 \in U
    <3> SUFFICES ASSUME NEW i \in 0..m, i < m, i \in U PROVE i + 1 \in U
      OBVIOUS
    <3>1. /\ i + 1 \in 1..m /\ n + (i + 1) \in 1..k /\ (i + 1) - 1 = i
          /\ (n + (i + 1)) - 1 = n + i
      BY <1>8
    <3>2. \A j \in 1..k : h[j] = h[j - 1] \o e[j]
      BY <1>8 DEF Gathers
    <3>3. h[n + (i + 1)] = h[(n + (i + 1)) - 1] \o e[n + (i + 1)]
      BY <3>1, <3>2
    <3>4. g[i + 1] = g[i] \o d[i + 1] /\ e[n + (i + 1)] = d[i + 1]
      BY <1>8, <1>9, <3>1 DEF Gathers
    <3>5. h[n + (i + 1)] = (f[n] \o g[i]) \o d[i + 1]
      <4>1. h[n + i] = f[n] \o g[i]
        OBVIOUS
      <4> QED
        BY <3>1, <3>3, <3>4, <4>1
    <3>6. PICK x \in Seq(V), y \in Seq(V), z \in Seq(V) : x = f[n] /\ y = g[i] /\ z = d[i + 1]
      <4>1. f[n] \in Seq(V) /\ g[i] \in Seq(V) /\ d[i + 1] \in Seq(V)
        BY <1>0, <1>9, <3>1
      <4> QED
        BY <4>1
    <3>7. (x \o y) \o z = x \o (y \o z)
      <4>1. PICK xy, yz : IsJoin(xy, x, y) /\ IsJoin(yz, y, z)
        BY DEF IsJoin
      <4>2. PICK u : IsJoin(u, xy, z)
        BY DEF IsJoin
      <4>3. IsJoin(u, x, yz)
        BY <4>1, <4>2, JoinAssoc
      <4> QED
        BY <4>1, <4>2, <4>3 DEF IsJoin
    <3>8. h[n + (i + 1)] = f[n] \o g[i + 1]
      BY <3>4, <3>5, <3>6, <3>7
    <3>9. i + 1 \in 0..m
      OBVIOUS
    <3> QED
      BY <3>8, <3>9
  <2> HIDE DEF U
  <2> QED
    BY <2>1, <2>2, UpTo
<1>4. m \in U
  <2> HIDE DEF U
  <2> QED
    BY <1>3
<1> QED
  BY <1>4, <1>8 DEF IsJoin

\* What holds of the empty sequence, and with a sequence of each longer one, holds of all.
LEMMA AllSequences ==
  ASSUME NEW V, NEW T, <<>> \in T, \A s \in Seq(V), x \in V : s \in T => s \o <<x>> \in T
  PROVE  \A s \in Seq(V) : s \in T
<1> SUFFICES ASSUME NEW s \in Seq(V) PROVE s \in T
  OBVIOUS
<1>1. PICK n \in Nat : n = Len(s)
  OBVIOUS
<1> DEFINE U == {i \in 0..n : SubSeq(s, 1, i) \in T}
<1>2. 0 \in U
  <2>1. SubSeq(s, 1, 0) = <<>>
    OBVIOUS
  <2>2. SubSeq(s, 1, 0) \in T
    BY <2>1
  <2> QED
    BY <2>2
<1>3. \A i \in 0..n : i < n /\ i \in U => i + 1 \in U
  <2> SUFFICES ASSUME NEW i \in 0..n, i < n, i \in U PROVE i + 1 \in U
    OBVIOUS
  <2>1. PICK p : p = SubSeq(s, 1, i)
    OBVIOUS
  <2>2. p \in Seq(V) /\ s[i + 1] \in V
    BY <1>1, <2>1
  <2>3. p \in T
    BY <2>1
  <2>4. SubSeq(s, 1, i + 1) = p \o <<s[i + 1]>>
    BY <1>1, <2>1
  <2>5. SubSeq(s, 1, i + 1) \in T
    BY <2>2, <2>3, <2>4
  <2> QED
    BY <2>5
<1>4. n \in U
  <2>1. \A i \in 0..n : i \in U
    <3> HIDE DEF U
    <3> QED
      BY <1>2, <1>3, UpTo
  <2> HIDE DEF U
  <2> QED
    BY <2>1
<1>5. SubSeq(s, 1, n) = s
  BY <1>1
<1> QED
  BY <1>4, <1>5

\* f[i] are the first i members of v at the places b, in their order.
Appends(f, n, b, v) ==
  f = [i \in 0..n |-> IF i = 0 THEN <<>>
                      ELSE IF i \in b THEN Append(f[i - 1], v[i]) ELSE f[i - 1]]
Picks(n, b, v) == [i \in 1..n |-> IF i \in b THEN <<v[i]>> ELSE <<>>]

\* To append some members of a sequence is to gather pieces of one member or none.
LEMMA AppendsGather ==
  ASSUME NEW V, NEW n \in Nat, NEW b, NEW v, \A i \in 1..n : v[i] \in V
  PROVE  /\ \A i \in 1..n : Picks(n, b, v)[i] \in Seq(V)
         /\ \E f : Appends(f, n, b, v)
         /\ \A f : Appends(f, n, b, v) =>
              Gathers(f, n, Picks(n, b, v)) /\ \A i \in 0..n : f[i] \in Seq(V)
<1> DEFINE Body(f, i) == IF i = 0 THEN <<>>
                         ELSE IF i \in b THEN Append(f[i - 1], v[i]) ELSE f[i - 1]
<1>1. PICK c : c = Picks(n, b, v)
  OBVIOUS
<1>2. c \in [1..n -> Seq(V)] /\ \A i \in 1..n : c[i] = IF i \in b THEN <<v[i]>> ELSE <<>>
  <2>1. \A i \in 1..n : <<v[i]>> \in Seq(V) /\ <<>> \in Seq(V)
    OBVIOUS
  <2>2. \A i \in 1..n : (IF i \in b THEN <<v[i]>> ELSE <<>>) \in Seq(V)
    BY <2>1
  <2>3. c = [i \in 1..n |-> IF i \in b THEN <<v[i]>> ELSE <<>>]
    BY <1>1 DEF Picks
  <2> QED
    BY <2>2, <2>3
<1>3. PICK f \in [0..n -> Seq(V)] : Gathers(f, n, c)
  BY <1>2, GatherExists
<1>4. ASSUME NEW i \in 0..n PROVE f[i] = Body(f, i)
  <2>1. CASE i = 0
    BY <1>3, <2>1 DEF Gathers
  <2>2. CASE i # 0
    <3>1. i \in 1..n /\ i - 1 \in 0..n
      BY <2>2
    <3>2. f[i] = f[i - 1] \o c[i]
      BY <1>3, <3>1 DEF Gathers
    <3>3. PICK x \in Seq(V), y \in V : x = f[i - 1] /\ y = v[i]
      BY <1>3, <3>1
    <3>4. Append(x, y) = x \o <<y>> /\ x \o <<>> = x
      OBVIOUS
    <3>5. c[i] = IF i \in b THEN <<y>> ELSE <<>>
      BY <1>2, <3>1, <3>3
    <3> QED
      BY <2>2, <3>2, <3>3, <3>4, <3>5
  <2> QED
    BY <2>1, <2>2
<1>5. f = [i \in 0..n |-> Body(f, i)]
  <2> HIDE DEF Body
  <2> QED
    BY <1>4
<1>6. ASSUME NEW g, g = [i \in 0..n |-> Body(g, i)]
      PROVE  g = f
  <2>0. \A i \in 0..n : g[i] = Body(g, i)
    <3> HIDE DEF Body
    <3> QED
      BY <1>6
  <2> DEFINE T == {i \in 0..n : g[i] = f[i]}
  <2>1. 0 \in T
    BY <1>4, <2>0
  <2>2. \A i \in 0..n : i < n /\ i \in T => i + 1 \in T
    <3> SUFFICES ASSUME NEW i \in 0..n, i < n, i \in T PROVE i + 1 \in T
      OBVIOUS
    <3>1. i + 1 \in 0..n /\ i + 1 # 0 /\ (i + 1) - 1 = i
      OBVIOUS
    <3>2. g[i] = f[i]
      OBVIOUS
    <3>3. Body(g, i + 1) = Body(f, i + 1)
      BY <3>1, <3>2
    <3>4. g[i + 1] = f[i + 1]
      <4> HIDE DEF Body
      <4> QED
        BY <1>4, <2>0, <3>1, <3>3
    <3> QED
      BY <3>1, <3>4
  <2>3. \A i \in 0..n : g[i] = f[i]
    <3>1. \A i \in 0..n : i \in T
      <4> HIDE DEF T
      <4> QED
        BY <2>1, <2>2, UpTo
    <3> QED
      BY <3>1
  <2>4. f = [i \in 0..n |-> f[i]] /\ g = [i \in 0..n |-> g[i]]
    <3> HIDE DEF Body
    <3> QED
      BY <1>3, <1>6
  <2> QED
    BY <2>3, <2>4
<1>7. \A g : Appends(g, n, b, v) <=> g = [i \in 0..n |-> Body(g, i)]
  BY DEF Appends
<1> HIDE DEF Body
<1>8. \A g : Appends(g, n, b, v) => g = f
  BY <1>6, <1>7
<1>9. Appends(f, n, b, v)
  BY <1>5, <1>7
<1>10. \A i \in 0..n : f[i] \in Seq(V)
  BY <1>3
<1> QED
  BY <1>1, <1>2, <1>3, <1>8, <1>9, <1>10

\* With one more member, what is appended so far stays.
LEMMA OneMore ==
  ASSUME NEW n \in Nat, NEW k \in Nat, k = n + 1, NEW b, NEW v, NEW f, Appends(f, n, b, v),
         NEW d, NEW w, NEW h, Appends(h, k, d, w),
         \A i \in 1..n : (i \in b <=> i \in d) /\ v[i] = w[i]
  PROVE  h[k] = IF k \in d THEN Append(f[n], w[k]) ELSE f[n]
<1>1. \A i \in 0..n : f[i] = IF i = 0 THEN <<>> ELSE IF i \in b THEN Append(f[i - 1], v[i]) ELSE f[i - 1]
  BY DEF Appends
<1>2. \A i \in 0..k : h[i] = IF i = 0 THEN <<>> ELSE IF i \in d THEN Append(h[i - 1], w[i]) ELSE h[i - 1]
  BY DEF Appends
<1> DEFINE T == {i \in 0..n : f[i] = h[i]}
<1>3. 0 \in T
  BY <1>1, <1>2
<1>4. \A i \in 0..n : i < n /\ i \in T => i + 1 \in T
  <2> SUFFICES ASSUME NEW i \in 0..n, i < n, i \in T PROVE i + 1 \in T
    OBVIOUS
  <2>1. i + 1 \in 1..n /\ i + 1 \in 0..n /\ i + 1 \in 0..k /\ i + 1 # 0 /\ (i + 1) - 1 = i
    OBVIOUS
  <2>2. f[i] = h[i]
    OBVIOUS
  <2>3. f[i + 1] = h[i + 1]
    BY <1>1, <1>2, <2>1, <2>2
  <2> QED
    BY <2>1, <2>3
<1>5. f[n] = h[n]
  <2>1. n \in T
    <3> HIDE DEF T
    <3>1. \A i \in 0..n : i \in T
      BY <1>3, <1>4, UpTo
    <3> QED
      BY <3>1
  <2> QED
    BY <2>1
<1>6. k \in 0..k /\ k # 0 /\ k - 1 = n
  OBVIOUS
<1> QED
  BY <1>2, <1>5, <1>6

IsOneMore(u, s, m) == u = s \o <<m>>

LEMMA OneMoreFacts ==
  ASSUME NEW V, NEW s \in Seq(V), NEW m \in V, NEW u, IsOneMore(u, s, m),
         NEW n \in Nat, n = Len(s), NEW k \in Nat, k = n + 1
  PROVE  /\ u \in Seq(V) /\ Len(u) = k /\ u[k] = m
         /\ \A i \in 1..n : u[i] = s[i]
<1>1. u = s \o <<m>>
  BY DEF IsOneMore
<1>2. /\ s \o <<m>> \in Seq(V) /\ Len(s \o <<m>>) = k /\ (s \o <<m>>)[k] = m
      /\ \A i \in 1..n : (s \o <<m>>)[i] = s[i]
  OBVIOUS
<1> QED
  BY <1>1, <1>2, Zenon

LEMMA JoinFacts ==
  ASSUME NEW V, NEW s \in Seq(V), NEW t \in Seq(V), NEW u, IsJoin(u, s, t)
  PROVE  /\ u \in Seq(V) /\ Len(u) = Len(s) + Len(t)
         /\ \A i \in 1..Len(s) : u[i] = s[i]
         /\ \A i \in 1..Len(t) : u[Len(s) + i] = t[i]
<1>1. u = s \o t
  BY DEF IsJoin
<1>2. /\ s \o t \in Seq(V) /\ Len(s \o t) = Len(s) + Len(t)
      /\ (\A i \in 1..Len(s) : (s \o t)[i] = s[i])
      /\ \A i \in 1..Len(t) : (s \o t)[Len(s) + i] = t[i]
  OBVIOUS
<1> QED
  BY <1>1, <1>2, Zenon

\* What JoinFacts says of a join.
Follows(V, u, s, t) ==
  /\ u \in Seq(V) /\ Len(u) = Len(s) + Len(t)
  /\ \A i \in 1..Len(s) : u[i] = s[i]
  /\ \A i \in 1..Len(t) : u[Len(s) + i] = t[i]

LEMMA JoinFollows ==
  ASSUME NEW V, NEW s \in Seq(V), NEW t \in Seq(V), NEW u, IsJoin(u, s, t)
  PROVE  Follows(V, u, s, t)
BY JoinFacts DEF Follows

\* The first of what is joined are those of its first part.
LEMMA JoinStarts ==
  ASSUME NEW V, NEW s \in Seq(V), NEW t \in Seq(V), NEW u, IsJoin(u, s, t), NEW k \in 0..Len(s)
  PROVE  SubSeq(u, 1, k) = SubSeq(s, 1, k) /\ SubSeq(s, 1, k) \in Seq(V) /\ Len(SubSeq(s, 1, k)) = k
<1>1. u \in Seq(V) /\ Len(u) = Len(s) + Len(t) /\ \A i \in 1..Len(s) : u[i] = s[i]
  BY JoinFacts
<1>2. PICK p \in Seq(V), q \in Seq(V) :
        /\ p = SubSeq(u, 1, k) /\ q = SubSeq(s, 1, k) /\ Len(p) = k /\ Len(q) = k
        /\ \A i \in 1..k : p[i] = u[i] /\ q[i] = s[i]
  <2>1. SubSeq(u, 1, k) \in Seq(V) /\ SubSeq(s, 1, k) \in Seq(V)
    BY <1>1
  <2>2. Len(SubSeq(u, 1, k)) = k /\ Len(SubSeq(s, 1, k)) = k
    BY <1>1
  <2>3. \A i \in 1..k : SubSeq(u, 1, k)[i] = u[i] /\ SubSeq(s, 1, k)[i] = s[i]
    BY <1>1
  <2> QED
    BY <2>1, <2>2, <2>3
<1>3. \A i \in 1..Len(p) : p[i] = q[i]
  BY <1>1, <1>2
<1>4. p = q
  BY <1>2, <1>3, SameSequence
<1> QED
  BY <1>2, <1>4

\* And a part of its second one follows the whole first one.
LEMMA JoinMiddle ==
  ASSUME NEW V, NEW s \in Seq(V), NEW t \in Seq(V), NEW u, IsJoin(u, s, t),
         NEW n \in Nat, n = Len(s), NEW j \in 0..Len(t), NEW k \in Nat, k = n + j,
         NEW w, IsJoin(w, s, SubSeq(t, 1, j))
  PROVE  w = SubSeq(u, 1, k)
<1>1. /\ u \in Seq(V) /\ Len(u) = n + Len(t) /\ (\A i \in 1..n : u[i] = s[i])
      /\ \A i \in 1..Len(t) : u[n + i] = t[i]
  BY JoinFacts
<1>2. PICK p \in Seq(V) : p = SubSeq(t, 1, j) /\ Len(p) = j /\ \A i \in 1..j : p[i] = t[i]
  <2>1. SubSeq(t, 1, j) \in Seq(V) /\ Len(SubSeq(t, 1, j)) = j /\ \A i \in 1..j : SubSeq(t, 1, j)[i] = t[i]
    OBVIOUS
  <2> QED
    BY <2>1
<1>3. /\ w \in Seq(V) /\ Len(w) = n + j /\ (\A i \in 1..n : w[i] = s[i])
      /\ \A i \in 1..j : w[n + i] = p[i]
  <2>1. IsJoin(w, s, p)
    BY <1>2
  <2>2. /\ w \in Seq(V) /\ Len(w) = Len(s) + Len(p) /\ (\A i \in 1..Len(s) : w[i] = s[i])
        /\ \A i \in 1..Len(p) : w[Len(s) + i] = p[i]
    <3>1. Follows(V, w, s, p)
      BY <2>1, JoinFollows
    <3> QED
      BY <3>1 DEF Follows
  <2> QED
    BY <1>2, <2>2
<1>4. PICK q \in Seq(V) : q = SubSeq(u, 1, k) /\ Len(q) = k /\ \A i \in 1..k : q[i] = u[i]
  <2>1. u \in Seq(V) /\ k \in 0..Len(u)
    <3>1. PICK m \in Nat : m = Len(t)
      OBVIOUS
    <3>2. j \in 0..m /\ Len(u) = n + m /\ u \in Seq(V)
      BY <1>1, <3>1
    <3> QED
      BY <3>2
  <2>2. /\ SubSeq(u, 1, k) \in Seq(V) /\ Len(SubSeq(u, 1, k)) = k
        /\ \A i \in 1..k : SubSeq(u, 1, k)[i] = u[i]
    BY <2>1
  <2> QED
    BY <2>2
<1>5. ASSUME NEW i \in 1..Len(w) PROVE w[i] = q[i]
  <2>1. CASE i <= n
    BY <1>1, <1>3, <1>4, <2>1
  <2>2. CASE i > n
    <3>1. PICK l \in 1..j : i = n + l
      <4>1. i - n \in 1..j /\ i = n + (i - n)
        BY <1>3, <2>2
      <4> QED
        BY <4>1
    <3>2. w[n + l] = p[l] /\ p[l] = t[l] /\ u[n + l] = t[l] /\ q[n + l] = u[n + l]
      <4>1. l \in 1..Len(t) /\ n + l \in 1..k
        OBVIOUS
      <4> QED
        BY <1>1, <1>2, <1>3, <1>4, <4>1
    <3> QED
      BY <3>1, <3>2
  <2> QED
    BY <1>3, <2>1, <2>2
<1>6. w = q
  BY <1>3, <1>4, <1>5, SameSequence
<1> QED
  BY <1>4, <1>6

-----------------------------------------------------------------------------
(* Texts: what is joined, cut and found *)

\* A sequence with the length and the members of a join is it.
LEMMA JoinIf ==
  ASSUME NEW V, NEW s \in Seq(V), NEW t \in Seq(V), NEW u \in Seq(V), NEW n \in Nat, n = Len(s),
         NEW m \in Nat, m = Len(t), Len(u) = n + m, \A i \in 1..n : u[i] = s[i],
         \A i \in 1..m : u[n + i] = t[i]
  PROVE  IsJoin(u, s, t)
<1>1. PICK w : IsJoin(w, s, t)
  BY DEF IsJoin
<1>2. /\ w \in Seq(V) /\ Len(w) = n + m /\ (\A i \in 1..n : w[i] = s[i])
      /\ \A i \in 1..m : w[n + i] = t[i]
  BY <1>1, JoinFacts
<1>3. ASSUME NEW i \in 1..Len(w) PROVE w[i] = u[i]
  <2>1. CASE i <= n
    <3>1. i \in 1..n
      BY <2>1
    <3> QED
      BY <1>2, <3>1
  <2>2. CASE i > n
    <3>1. PICK j \in 1..m : i = n + j
      <4>1. i - n \in 1..m /\ i = n + (i - n)
        BY <1>2, <2>2
      <4> QED
        BY <4>1
    <3> QED
      BY <1>2, <3>1
  <2> QED
    BY <1>2, <2>1, <2>2
<1>4. w = u
  BY <1>2, <1>3, SameSequence
<1> QED
  BY <1>1, <1>4

\* u has the n members of s and then the m members of t.
MadeOf(V, u, s, t, n, m) ==
  /\ u \in Seq(V) /\ s \in Seq(V) /\ t \in Seq(V)
  /\ n = Len(s) /\ m = Len(t) /\ Len(u) = n + m
  /\ \A i \in 1..n : u[i] = s[i]
  /\ \A i \in 1..m : u[n + i] = t[i]

LEMMA MadeIsJoin ==
  ASSUME NEW V, NEW u, NEW s, NEW t, NEW n \in Nat, NEW m \in Nat, MadeOf(V, u, s, t, n, m)
  PROVE  IsJoin(u, s, t)
<1>1. /\ u \in Seq(V) /\ s \in Seq(V) /\ t \in Seq(V)
      /\ n = Len(s) /\ m = Len(t) /\ Len(u) = n + m
      /\ (\A i \in 1..n : u[i] = s[i]) /\ \A i \in 1..m : u[n + i] = t[i]
  BY DEF MadeOf
<1> QED
  BY <1>1, JoinIf

\* p is the first k members of s, and q is the others.
Cuts(V, s, n, k, p, q) ==
  /\ IsJoin(s, p, q) /\ p \in Seq(V) /\ q \in Seq(V) /\ Len(p) = k /\ Len(q) = n - k
  /\ \A i \in 1..k : p[i] = s[i]
  /\ \A i \in 1..(n - k) : q[i] = s[k + i]

\* A sequence that is cut is its two pieces joined.
LEMMA CutJoin ==
  ASSUME NEW V, NEW s \in Seq(V), NEW n \in Nat, n = Len(s), NEW k \in 0..n, NEW l \in Nat, l = k + 1,
         NEW p, p = SubSeq(s, 1, k), NEW q, q = SubSeq(s, l, n)
  PROVE  Cuts(V, s, n, k, p, q)
<1>1. p \in Seq(V) /\ Len(p) = k /\ \A i \in 1..k : p[i] = s[i]
  <2>1. SubSeq(s, 1, k) \in Seq(V) /\ Len(SubSeq(s, 1, k)) = k
    OBVIOUS
  <2>2. \A i \in 1..k : SubSeq(s, 1, k)[i] = s[i]
    OBVIOUS
  <2> QED
    BY <2>1, <2>2
<1>2. q \in Seq(V) /\ Len(q) = n - k /\ \A i \in 1..(n - k) : q[i] = s[k + i]
  <2>1. SubSeq(s, l, n) \in Seq(V) /\ Len(SubSeq(s, l, n)) = n - l + 1
    OBVIOUS
  <2>2. \A i \in 1..(n - l + 1) : SubSeq(s, l, n)[i] = s[l + i - 1]
    BY <2>1
  <2>3. n - l + 1 = n - k /\ \A i \in 1..(n - k) : l + i - 1 = k + i
    OBVIOUS
  <2> QED
    BY <2>1, <2>2, <2>3
<1>3. PICK m \in Nat, kk \in Nat : m = n - k /\ kk = k
  <2>1. n - k \in Nat /\ k \in Nat
    OBVIOUS
  <2> QED
    BY <2>1
<1>4. IsJoin(s, p, q)
  <2>1. Len(q) = m /\ Len(s) = k + m /\ (\A i \in 1..k : s[i] = p[i]) /\ \A i \in 1..m : s[k + i] = q[i]
    BY <1>1, <1>2, <1>3
  <2>2. /\ Len(p) = kk /\ Len(q) = m /\ Len(s) = kk + m /\ (\A i \in 1..kk : s[i] = p[i])
        /\ \A i \in 1..m : s[kk + i] = q[i]
    BY <1>1, <1>3, <2>1
  <2>3. p \in Seq(V) /\ q \in Seq(V)
    BY <1>1, <1>2
  <2>4. MadeOf(V, s, p, q, kk, m)
    BY <2>2, <2>3 DEF MadeOf
  <2> QED
    BY <2>4, MadeIsJoin
<1> QED
  BY <1>1, <1>2, <1>4 DEF Cuts

\* There is one way to cut a sequence at a place.
LEMMA JoinCancel ==
  ASSUME NEW V, NEW a \in Seq(V), NEW b \in Seq(V), NEW c \in Seq(V), NEW d \in Seq(V),
         NEW u, IsJoin(u, a, b), IsJoin(u, c, d), Len(a) = Len(c)
  PROVE  a = c /\ b = d
<1>1. PICK n \in Nat, m \in Nat : n = Len(a) /\ m = Len(b)
  OBVIOUS
<1>2. Len(u) = n + m /\ (\A i \in 1..n : u[i] = a[i]) /\ \A i \in 1..m : u[n + i] = b[i]
  BY <1>1, JoinFacts
<1>3. Len(u) = n + Len(d) /\ (\A i \in 1..n : u[i] = c[i]) /\ \A i \in 1..Len(d) : u[n + i] = d[i]
  BY <1>1, JoinFacts
<1>4. Len(d) = m
  BY <1>2, <1>3
<1>5. a = c
  <2>1. \A i \in 1..Len(a) : a[i] = c[i]
    BY <1>1, <1>2, <1>3
  <2> QED
    BY <2>1, SameSequence
<1>6. b = d
  <2>1. \A i \in 1..Len(b) : b[i] = d[i]
    BY <1>1, <1>2, <1>3, <1>4
  <2> QED
    BY <1>1, <1>4, <2>1, SameSequence
<1> QED
  BY <1>5, <1>6

LEMMA JoinLeft ==
  ASSUME NEW V, NEW a \in Seq(V), NEW b \in Seq(V), NEW c \in Seq(V),
         NEW ab, IsJoin(ab, a, b), NEW bc, IsJoin(bc, b, c), NEW u, IsJoin(u, ab, c)
  PROVE  IsJoin(u, a, bc)
BY JoinAssoc

LEMMA JoinRight ==
  ASSUME NEW V, NEW a \in Seq(V), NEW b \in Seq(V), NEW c \in Seq(V),
         NEW ab, IsJoin(ab, a, b), NEW bc, IsJoin(bc, b, c), NEW u, IsJoin(u, a, bc)
  PROVE  IsJoin(u, ab, c)
BY JoinAssoc

LEMMA JoinExists == ASSUME NEW a, NEW b PROVE \E u : IsJoin(u, a, b)
BY DEF IsJoin

LEMMA JoinEmpty ==
  ASSUME NEW V, NEW a \in Seq(V), NEW none, none = <<>>
  PROVE  IsJoin(a, a, none) /\ IsJoin(a, none, a) /\ none \in Seq(V) /\ Len(none) = 0
<1>1. a \o <<>> = a /\ <<>> \o a = a /\ <<>> \in Seq(V) /\ Len(<<>>) = 0
  OBVIOUS
<1> QED
  BY <1>1 DEF IsJoin

\* The empty sequence is the one without length.
LEMMA NoneLong ==
  ASSUME NEW V, NEW s \in Seq(V)
  PROVE  Len(s) = 0 <=> s = <<>>
OBVIOUS

-----------------------------------------------------------------------------
(* Search *)

LEMMA FirstIs ==
  ASSUME NEW T \in SUBSET Nat, T # {}
  PROVE  First(T) \in T /\ \A y \in T : First(T) <= y
BY LeastNumber, Zenon DEF First

LEMMA FinalIs ==
  ASSUME NEW n \in Nat, NEW T \in SUBSET (0..n), T # {}
  PROVE  Final(T) \in T /\ \A y \in T : y <= Final(T)
<1>1. \E x \in T : \A y \in T : y <= x
  BY GreatestNumber
<1> QED
  BY <1>1, Zenon DEF Final

\* pat begins in s at i.
StartsAt(s, n, pat, m, i) ==
  i \in Nat /\ i >= 1 /\ i + m <= n + 1 /\ \A j \in 1..m : s[i + (j - 1)] = pat[j]

\* Where a pattern begins in a text, letter by letter.
LEMMA BeginsIs ==
  ASSUME NEW V, NEW W, NEW s \in Seq(V), NEW pat \in Seq(W), NEW n \in Nat, n = Len(s),
         NEW m \in Nat, m = Len(pat), m # 0, NEW i
  PROVE  i \in Begins(s, pat) <=> StartsAt(s, n, pat, m, i)
<1>1. i \in Begins(s, pat) <=> i \in 1..(n - m + 1) /\ SubSeq(s, i, i + m - 1) = pat
  BY DEF Begins
<1>2. SUFFICES ASSUME i \in Nat, i >= 1, i + m <= n + 1
               PROVE  SubSeq(s, i, i + m - 1) = pat <=> \A j \in 1..m : s[i + (j - 1)] = pat[j]
  <2>1. i \in 1..(n - m + 1) <=> i \in Nat /\ i >= 1 /\ i + m <= n + 1
    OBVIOUS
  <2> QED
    BY <1>1, <2>1 DEF StartsAt
<1>3. PICK X : X = V \cup W
  OBVIOUS
<1>4. s \in Seq(X) /\ pat \in Seq(X)
  <2>1. (\A j \in 1..n : s[j] \in X) /\ \A j \in 1..m : pat[j] \in X
    BY <1>3
  <2>2. s \in [1..n -> X] /\ pat \in [1..m -> X]
    <3>1. s = [j \in 1..n |-> s[j]] /\ pat = [j \in 1..m |-> pat[j]]
      OBVIOUS
    <3> QED
      BY <2>1, <3>1
  <2> QED
    BY <2>2
<1>5. PICK k \in Nat : k = i + m - 1
  BY <1>2
<1>6. PICK q \in Seq(X) : /\ q = SubSeq(s, i, k) /\ Len(q) = m
                          /\ \A j \in 1..m : q[j] = s[i + (j - 1)]
  <2>1. SubSeq(s, i, k) \in Seq(X) /\ Len(SubSeq(s, i, k)) = k - i + 1
    BY <1>2, <1>4, <1>5
  <2>2. \A j \in 1..(k - i + 1) : SubSeq(s, i, k)[j] = s[i + j - 1]
    BY <1>2, <1>4, <1>5, <2>1
  <2>3. k - i + 1 = m
    BY <1>2, <1>5
  <2>4. \A j \in 1..m : i + j - 1 = i + (j - 1)
    BY <1>2
  <2> QED
    BY <2>1, <2>2, <2>3, <2>4
<1>7. SubSeq(s, i, i + m - 1) = q
  BY <1>5, <1>6
<1>8. q = pat <=> \A j \in 1..m : q[j] = pat[j]
  <2>1. ASSUME \A j \in 1..m : q[j] = pat[j] PROVE q = pat
    <3>1. \A j \in 1..Len(q) : q[j] = pat[j]
      BY <1>6, <2>1
    <3> QED
      BY <1>4, <1>6, <3>1, SameSequence
  <2> QED
    BY <2>1
<1> QED
  BY <1>6, <1>7, <1>8

\* What is before the first pat in s, and what comes after it.
PartsAround(V, s, n, pat, m, f) ==
  /\ StartsAt(s, n, pat, m, f)
  /\ \A i : StartsAt(s, n, pat, m, i) => f <= i
  /\ Before(s, pat) \in Seq(V) /\ Len(Before(s, pat)) = f - 1
  /\ \A i \in 1..(f - 1) : Before(s, pat)[i] = s[i]
  /\ After(s, pat) \in Seq(V) /\ Len(After(s, pat)) = n + 1 - (f + m)
  /\ \A i \in 1..(n + 1 - (f + m)) : After(s, pat)[i] = s[(f + m - 1) + i]
  /\ \E r \in Seq(V) : IsJoin(s, Before(s, pat), r)

\* A text with a pattern in it is what is before it, the pattern and what is after it.
LEMMA PartsExist ==
  ASSUME NEW V, NEW W, NEW s \in Seq(V), NEW pat \in Seq(W), NEW n \in Nat, n = Len(s),
         NEW m \in Nat, m = Len(pat), m # 0, Begins(s, pat) # {}
  PROVE  \E f \in Nat : PartsAround(V, s, n, pat, m, f)
<1>1. \A i : i \in Begins(s, pat) <=> StartsAt(s, n, pat, m, i)
  BY BeginsIs
<1>2. Begins(s, pat) \in SUBSET Nat
  BY <1>1 DEF StartsAt
<1>3. PICK f : f = First(Begins(s, pat))
  OBVIOUS
<1>4. f \in Begins(s, pat) /\ \A i \in Begins(s, pat) : f <= i
  BY <1>2, <1>3, FirstIs
<1>5. StartsAt(s, n, pat, m, f) /\ \A i : StartsAt(s, n, pat, m, i) => f <= i
  BY <1>1, <1>4
<1>6. f \in Nat /\ f >= 1 /\ f + m <= n + 1
  BY <1>5 DEF StartsAt
<1>7. PICK k \in Nat, l \in Nat, g \in Nat : k = f - 1 /\ l = f + m /\ g = l - 1
  <2>1. f - 1 \in Nat /\ f + m \in Nat /\ (f + m) - 1 \in Nat
    BY <1>6
  <2> QED
    BY <2>1
<1>8. PICK p, q : p = SubSeq(s, 1, k) /\ q = SubSeq(s, l, n)
  OBVIOUS
<1>9. p \in Seq(V) /\ Len(p) = k /\ (\A i \in 1..k : p[i] = s[i])
      /\ \E r \in Seq(V) : IsJoin(s, p, r)
  <2>1. k \in 0..n
    BY <1>6, <1>7
  <2>3. PICK c \in Nat : c = k + 1 /\ f = c
    <3>1. k + 1 \in Nat /\ f = k + 1
      BY <1>6, <1>7
    <3> QED
      BY <3>1
  <2>2. PICK r : r = SubSeq(s, c, n)
    OBVIOUS
  <2>5. c = k + 1 /\ p = SubSeq(s, 1, k)
    BY <1>8, <2>3
  <2>4. IsJoin(s, p, r) /\ p \in Seq(V) /\ r \in Seq(V) /\ Len(p) = k /\ \A i \in 1..k : p[i] = s[i]
    <3>1. Cuts(V, s, n, k, p, r)
      BY <2>1, <2>2, <2>5, CutJoin
    <3> QED
      BY <3>1 DEF Cuts
  <2> QED
    BY <2>4
<1>10. q \in Seq(V) /\ Len(q) = n - g /\ \A i \in 1..(n - g) : q[i] = s[g + i]
  <2>1. g \in 0..n /\ l = g + 1
    BY <1>6, <1>7
  <2>2. PICK r : r = SubSeq(s, 1, g)
    OBVIOUS
  <2> QED
    <3>1. Cuts(V, s, n, g, r, q)
      BY <1>8, <2>1, <2>2, CutJoin
    <3> QED
      BY <3>1 DEF Cuts
<1>11. Before(s, pat) = p /\ After(s, pat) = q
  BY <1>3, <1>7, <1>8 DEF Before, After, From
<1>12. f - 1 = k /\ n + 1 - (f + m) = n - g /\ (f + m - 1) = g
  BY <1>6, <1>7
<1>13. /\ Before(s, pat) \in Seq(V) /\ Len(Before(s, pat)) = f - 1
       /\ \A i \in 1..(f - 1) : Before(s, pat)[i] = s[i]
  BY <1>9, <1>11, <1>12
<1>14. /\ After(s, pat) \in Seq(V) /\ Len(After(s, pat)) = n + 1 - (f + m)
       /\ \A i \in 1..(n + 1 - (f + m)) : After(s, pat)[i] = s[(f + m - 1) + i]
  BY <1>10, <1>11, <1>12
<1>15. \E r \in Seq(V) : IsJoin(s, Before(s, pat), r)
  BY <1>9, <1>11
<1>16. PartsAround(V, s, n, pat, m, f)
  BY <1>5, <1>13, <1>14, <1>15 DEF PartsAround
<1> QED
  BY <1>6, <1>16

\* The first pat of s is still the first one when more follows.
LEMMA SearchLeft ==
  ASSUME NEW V, NEW W, NEW s \in Seq(V), NEW z \in Seq(V), NEW u, IsJoin(u, s, z),
         NEW pat \in Seq(W), pat # <<>>, Begins(s, pat) # {}
  PROVE  /\ Begins(u, pat) # {}
         /\ Before(u, pat) = Before(s, pat) /\ Before(s, pat) \in Seq(V)
         /\ After(s, pat) \in Seq(V) /\ IsJoin(After(u, pat), After(s, pat), z)
<1>1. PICK n \in Nat, o \in Nat, m \in Nat, l \in Nat :
        n = Len(s) /\ o = Len(z) /\ m = Len(pat) /\ m # 0 /\ l = n + o
  OBVIOUS
<1>2. u \in Seq(V) /\ Len(u) = l /\ (\A i \in 1..n : u[i] = s[i]) /\ \A i \in 1..o : u[n + i] = z[i]
  <2>1. Follows(V, u, s, z)
    BY JoinFollows
  <2> QED
    BY <1>1, <2>1 DEF Follows
<1>3. PICK f \in Nat : PartsAround(V, s, n, pat, m, f)
  BY <1>1, PartsExist
<1>4. ASSUME NEW i \in Nat, i >= 1, i + m <= n + 1
      PROVE  StartsAt(u, l, pat, m, i) <=> StartsAt(s, n, pat, m, i)
  <2>1. \A j \in 1..m : i + (j - 1) \in 1..n
    BY <1>4
  <2>2. \A j \in 1..m : u[i + (j - 1)] = s[i + (j - 1)]
    BY <1>2, <2>1
  <2>3. i + m <= l + 1
    BY <1>1, <1>4
  <2> QED
    BY <1>4, <2>2, <2>3 DEF StartsAt
<1>5. /\ StartsAt(s, n, pat, m, f) /\ f >= 1 /\ f + m <= n + 1
      /\ \A i : StartsAt(s, n, pat, m, i) => f <= i
  BY <1>3 DEF PartsAround, StartsAt
<1>6. StartsAt(u, l, pat, m, f)
  BY <1>4, <1>5
<1>7. Begins(u, pat) # {}
  <2>1. f \in Begins(u, pat)
    BY <1>1, <1>2, <1>6, BeginsIs
  <2> QED
    BY <2>1
<1>8. PICK g \in Nat : PartsAround(V, u, l, pat, m, g)
  BY <1>1, <1>2, <1>7, PartsExist
<1>9. g = f
  <2>1. g <= f /\ StartsAt(u, l, pat, m, g)
    BY <1>6, <1>8 DEF PartsAround
  <2>2. g >= 1 /\ g + m <= n + 1
    BY <1>5, <2>1 DEF StartsAt
  <2>3. StartsAt(s, n, pat, m, g)
    BY <1>4, <2>1, <2>2
  <2> QED
    BY <1>5, <2>1, <2>3
<1>10. PICK p, q, x, y : p = Before(s, pat) /\ q = After(s, pat) /\ x = Before(u, pat) /\ y = After(u, pat)
  OBVIOUS
<1>11. PICK h \in Nat, k \in Nat, d \in Nat :
         h = f - 1 /\ k = f + m - 1 /\ d = n - k /\ k + d = n
  BY <1>5
<1>12. /\ p \in Seq(V) /\ Len(p) = h /\ (\A i \in 1..h : p[i] = s[i])
       /\ q \in Seq(V) /\ Len(q) = d /\ (\A i \in 1..d : q[i] = s[k + i])
  <2>1. n + 1 - (f + m) = d /\ f + m - 1 = k
    BY <1>11
  <2> QED
    BY <1>3, <1>10, <1>11, <2>1 DEF PartsAround
<1>13. /\ x \in Seq(V) /\ Len(x) = h /\ (\A i \in 1..h : x[i] = u[i])
       /\ y \in Seq(V) /\ Len(y) = d + o /\ (\A i \in 1..(d + o) : y[i] = u[k + i])
  <2>1. l + 1 - (f + m) = d + o /\ f + m - 1 = k
    BY <1>1, <1>11
  <2> QED
    BY <1>8, <1>9, <1>10, <1>11, <2>1 DEF PartsAround
<1>14. x = p
  <2>1. \A i \in 1..Len(x) : x[i] = p[i]
    <3>1. \A i \in 1..h : i \in 1..n
      BY <1>5, <1>11
    <3> QED
      BY <1>2, <1>12, <1>13, <3>1
  <2> QED
    BY <1>12, <1>13, <2>1, SameSequence
<1>15. IsJoin(y, q, z)
  <2>1. ASSUME NEW i \in 1..d PROVE y[i] = q[i]
    <3>1. i \in 1..(d + o) /\ k + i \in 1..n
      BY <1>11
    <3> QED
      BY <1>2, <1>12, <1>13, <3>1
  <2>2. ASSUME NEW i \in 1..o PROVE y[d + i] = z[i]
    <3>1. d + i \in 1..(d + o) /\ k + (d + i) = n + i
      BY <1>11
    <3>2. y[d + i] = u[k + (d + i)]
      BY <1>13, <3>1
    <3> QED
      BY <1>2, <3>1, <3>2
  <2> QED
    BY <1>1, <1>12, <1>13, <2>1, <2>2, JoinIf
<1> QED
  BY <1>7, <1>10, <1>12, <1>14, <1>15

-----------------------------------------------------------------------------
(* The readers of the stream: the events of a stream of bytes *)

KindsGathered(V, s, n, kinds, b, f) ==
  /\ \A i \in 1..n : i \in b <=> s[i].is \in kinds
  /\ Gathers(f, n, Picks(n, b, s))
  /\ \A i \in 1..n : Picks(n, b, s)[i] \in Seq(V)
  /\ \A i \in 0..n : f[i] \in Seq(V)
  /\ OfKind(s, kinds) = f[n]

\* The lines of some kinds, gathered one by one.
LEMMA OfKindIs ==
  ASSUME NEW V, NEW s \in Seq(V), NEW n \in Nat, n = Len(s), NEW kinds
  PROVE  \E b, f : KindsGathered(V, s, n, kinds, b, f)
<1>1. \A i \in 1..n : s[i] \in V
  OBVIOUS
<1>2. PICK b : b = {i \in 1..Len(s) : s[i].is \in kinds}
  OBVIOUS
<1> DEFINE Is(f) == f = [i \in 0..Len(s) |->
                           IF i = 0 THEN <<>>
                           ELSE IF s[i].is \in kinds THEN Append(f[i - 1], s[i]) ELSE f[i - 1]]
<1>3. ASSUME NEW f PROVE Is(f) <=> Appends(f, n, b, s)
  <2>1. \A i \in 0..n : i # 0 => (i \in b <=> s[i].is \in kinds)
    BY <1>2
  <2>2. [i \in 0..n |-> IF i = 0 THEN <<>>
                        ELSE IF s[i].is \in kinds THEN Append(f[i - 1], s[i]) ELSE f[i - 1]]
        = [i \in 0..n |-> IF i = 0 THEN <<>>
                          ELSE IF i \in b THEN Append(f[i - 1], s[i]) ELSE f[i - 1]]
    BY <2>1
  <2> QED
    BY <2>2 DEF Appends
<1>4. /\ \A i \in 1..n : Picks(n, b, s)[i] \in Seq(V)
      /\ \E f : Appends(f, n, b, s)
      /\ \A f : Appends(f, n, b, s) =>
              Gathers(f, n, Picks(n, b, s)) /\ \A i \in 0..n : f[i] \in Seq(V)
  BY <1>1, AppendsGather
<1>5. OfKind(s, kinds) = (CHOOSE f : Is(f))[n]
  BY DEF OfKind
<1> HIDE DEF Is
<1>6. \E f : Is(f)
  BY <1>3, <1>4
<1>7. PICK f : f = CHOOSE g : Is(g)
  OBVIOUS
<1>8. Is(f)
  BY <1>6, <1>7, Zenon
<1>9. \A i \in 1..n : i \in b <=> s[i].is \in kinds
  BY <1>2
<1> QED
  BY <1>3, <1>4, <1>5, <1>7, <1>8, <1>9 DEF KindsGathered

\* The lines of some kinds of two sequences are those of the first and those of the second.
LEMMA OfKindJoin ==
  ASSUME NEW V, NEW s \in Seq(V), NEW t \in Seq(V), NEW u, IsJoin(u, s, t), NEW kinds
  PROVE  /\ OfKind(s, kinds) \in Seq(V) /\ OfKind(t, kinds) \in Seq(V)
         /\ OfKind(u, kinds) \in Seq(V)
         /\ IsJoin(OfKind(u, kinds), OfKind(s, kinds), OfKind(t, kinds))
<1>11. PICK n \in Nat, m \in Nat :
        /\ u = s \o t /\ n = Len(s) /\ m = Len(t) /\ Len(u) = n + m /\ u \in Seq(V)
        /\ (\A i \in 1..n : u[i] = s[i]) /\ \A i \in 1..m : u[n + i] = t[i]
  <2>1. /\ s \o t \in Seq(V) /\ Len(s) \in Nat /\ Len(t) \in Nat /\ Len(s \o t) = Len(s) + Len(t)
        /\ (\A i \in 1..Len(s) : (s \o t)[i] = s[i])
        /\ \A i \in 1..Len(t) : (s \o t)[Len(s) + i] = t[i]
    OBVIOUS
  <2>2. u = s \o t
    BY DEF IsJoin
  <2> QED
    BY <2>1, <2>2, Zenon
<1>1. /\ n = Len(s) /\ m = Len(t) /\ Len(u) = n + m /\ u \in Seq(V)
      /\ (\A i \in 1..n : u[i] = s[i]) /\ \A i \in 1..m : u[n + i] = t[i]
  BY <1>11, Zenon
<1>2. PICK b, f : KindsGathered(V, s, n, kinds, b, f)
  BY <1>1, OfKindIs
<1>3. PICK c, g : KindsGathered(V, t, m, kinds, c, g)
  BY <1>1, OfKindIs
<1>0. PICK k \in Nat : k = n + m
  OBVIOUS
<1>4. PICK d, h : KindsGathered(V, u, k, kinds, d, h)
  <2>1. k = Len(u) /\ u \in Seq(V)
    BY <1>1, <1>0
  <2> QED
    BY <2>1, OfKindIs
<1>5. PICK p, q, r : p = Picks(n, b, s) /\ q = Picks(m, c, t) /\ r = Picks(k, d, u)
  OBVIOUS
<1>6. PartOf(V, 0, n, p, r)
  <2> SUFFICES ASSUME NEW i \in 1..n PROVE p[i] \in Seq(V) /\ r[0 + i] = p[i]
    BY DEF PartOf
  <2>1. i \in 1..k /\ 0 + i = i
    BY <1>0
  <2>2. i \in d <=> i \in b
    <3>1. (i \in d <=> u[i].is \in kinds) /\ (i \in b <=> s[i].is \in kinds)
      BY <1>2, <1>4, <2>1 DEF KindsGathered
    <3> QED
      BY <1>1, <3>1
  <2>3. p[i] \in Seq(V)
    BY <1>2, <1>5 DEF KindsGathered
  <2> QED
    BY <1>1, <1>5, <2>1, <2>2, <2>3 DEF Picks
<1>7. PartOf(V, n, m, q, r)
  <2> SUFFICES ASSUME NEW i \in 1..m PROVE q[i] \in Seq(V) /\ r[n + i] = q[i]
    BY DEF PartOf
  <2>1. n + i \in 1..k
    BY <1>0
  <2>2. n + i \in d <=> i \in c
    <3>1. (n + i \in d <=> u[n + i].is \in kinds) /\ (i \in c <=> t[i].is \in kinds)
      BY <1>3, <1>4, <2>1 DEF KindsGathered
    <3> QED
      BY <1>1, <3>1
  <2>3. q[i] \in Seq(V)
    BY <1>3, <1>5 DEF KindsGathered
  <2> QED
    BY <1>1, <1>5, <2>1, <2>2, <2>3 DEF Picks
<1>8. IsJoin(h[k], f[n], g[m])
  <2>1. Gathers(f, n, p) /\ Gathers(g, m, q) /\ Gathers(h, k, r)
    BY <1>2, <1>3, <1>4, <1>5 DEF KindsGathered
  <2>2. GathersBoth(V, n, p, f, m, q, g, k, r, h)
    BY <1>0, <1>6, <1>7, <2>1 DEF GathersBoth
  <2> QED
    BY <2>2, GatherConcat
<1>9. /\ OfKind(s, kinds) = f[n] /\ OfKind(t, kinds) = g[m] /\ OfKind(u, kinds) = h[k]
      /\ f[n] \in Seq(V) /\ g[m] \in Seq(V) /\ h[k] \in Seq(V)
  BY <1>2, <1>3, <1>4 DEF KindsGathered
<1> QED
  BY <1>8, <1>9

LEMMA OfKindOne ==
  ASSUME NEW V, NEW m \in V, NEW kinds
  PROVE  /\ OfKind(<<>>, kinds) = <<>>
         /\ OfKind(<<m>>, kinds) = IF m.is \in kinds THEN <<m>> ELSE <<>>
<1>1. OfKind(<<>>, kinds) = <<>>
  <2>1. PICK s \in Seq(V) : s = <<>> /\ Len(s) = 0
    <3>1. <<>> \in Seq(V) /\ Len(<<>>) = 0
      OBVIOUS
    <3> QED
      BY <3>1
  <2>2. PICK b, f : KindsGathered(V, s, 0, kinds, b, f)
    BY <2>1, OfKindIs
  <2> QED
    BY <2>1, <2>2 DEF KindsGathered, Gathers
<1>2. OfKind(<<m>>, kinds) = IF m.is \in kinds THEN <<m>> ELSE <<>>
  <2>1. PICK s \in Seq(V) : s = <<m>> /\ Len(s) = 1 /\ s[1] = m
    <3>1. <<m>> \in Seq(V) /\ Len(<<m>>) = 1 /\ <<m>>[1] = m
      OBVIOUS
    <3> QED
      BY <3>1
  <2>2. PICK b, f : KindsGathered(V, s, 1, kinds, b, f)
    BY <2>1, OfKindIs
  <2>3. PICK one \in Seq(V) : one = IF m.is \in kinds THEN <<m>> ELSE <<>>
    <3>1. <<m>> \in Seq(V) /\ <<>> \in Seq(V)
      OBVIOUS
    <3> QED
      BY <3>1
  <2>4. Picks(1, b, s)[1] = one
    <3>1. 1 \in 1..1 /\ (1 \in b <=> m.is \in kinds)
      BY <2>1, <2>2 DEF KindsGathered
    <3> QED
      BY <2>1, <2>3, <3>1 DEF Picks
  <2>5. f[0] = <<>> /\ f[1] = f[0] \o Picks(1, b, s)[1]
    <3>1. \A i \in 1..1 : f[i] = f[i - 1] \o Picks(1, b, s)[i]
      BY <2>2, Zenon DEF KindsGathered, Gathers
    <3>2. f[0] = <<>>
      BY <2>2 DEF KindsGathered, Gathers
    <3>3. 1 \in 1..1 /\ 1 - 1 = 0
      OBVIOUS
    <3> QED
      BY <3>1, <3>2, <3>3
  <2>6. <<>> \o one = one
    OBVIOUS
  <2> QED
    BY <2>1, <2>2, <2>3, <2>4, <2>5, <2>6 DEF KindsGathered
<1> QED
  BY <1>1, <1>2
\* What is chosen is of the kinds, and choosing more narrowly gives the same as doing so at once.
LEMMA OfKindOfKind ==
  ASSUME NEW V, NEW s \in Seq(V), NEW kinds, NEW fewer, fewer \subseteq kinds
  PROVE  /\ \A i \in 1..Len(OfKind(s, kinds)) : OfKind(s, kinds)[i].is \in kinds
         /\ OfKind(OfKind(s, kinds), fewer) = OfKind(s, fewer)
<1> DEFINE T == {t \in Seq(V) :
                   /\ \A i \in 1..Len(OfKind(t, kinds)) : OfKind(t, kinds)[i].is \in kinds
                   /\ OfKind(OfKind(t, kinds), fewer) = OfKind(t, fewer)}
<1>1. PICK none \in Seq(V) : none = <<>> /\ Len(none) = 0
  <2>1. <<>> \in Seq(V) /\ Len(<<>>) = 0
    OBVIOUS
  <2> QED
    BY <2>1
<1>2. OfKind(none, kinds) = none /\ OfKind(none, fewer) = none
  <2>1. CASE V = {}
    <3>1. \A t \in Seq(V) : t = none
      <4> TAKE t \in Seq(V)
      <4>1. Len(t) = 0
        BY <2>1
      <4> QED
        BY <1>1, <4>1
    <3> QED
      <4>1. IsJoin(none, none, none) /\ OfKind(none, kinds) \in Seq(V) /\ OfKind(none, fewer) \in Seq(V)
        <5>1. none = none \o none
          BY <1>1
        <5>2. IsJoin(none, none, none)
          BY <5>1 DEF IsJoin
        <5> QED
          BY <5>2, OfKindJoin
      <4> QED
        BY <3>1, <4>1
  <2>2. CASE V # {}
    BY <1>1, <2>2, OfKindOne
  <2> QED
    BY <2>1, <2>2
<1>3. <<>> \in T
  <2>1. none \in T
    BY <1>1, <1>2
  <2> QED
    BY <1>1, <2>1
<1>4. ASSUME NEW t \in Seq(V), NEW x \in V, t \in T PROVE t \o <<x>> \in T
  <2>1. PICK y \in Seq(V), u \in Seq(V) : y = <<x>> /\ u = t \o y /\ Len(y) = 1 /\ y[1] = x
    <3>1. <<x>> \in Seq(V) /\ Len(<<x>>) = 1 /\ <<x>>[1] = x /\ t \o <<x>> \in Seq(V)
      OBVIOUS
    <3> QED
      BY <3>1
  <2>2. PICK a \in Seq(V), b \in Seq(V), c \in Seq(V), d \in Seq(V) :
          /\ a = OfKind(t, kinds) /\ b = OfKind(y, kinds)
          /\ c = OfKind(t, fewer) /\ d = OfKind(y, fewer)
    <3>1. IsJoin(u, t, y)
      BY <2>1 DEF IsJoin
    <3> QED
      BY <3>1, OfKindJoin
  <2>3. OfKind(u, kinds) = a \o b /\ OfKind(u, fewer) = c \o d
    <3>1. IsJoin(u, t, y)
      BY <2>1 DEF IsJoin
    <3>2. IsJoin(OfKind(u, kinds), a, b) /\ IsJoin(OfKind(u, fewer), c, d)
      BY <2>2, <3>1, OfKindJoin
    <3> QED
      BY <3>2 DEF IsJoin
  <2>4. OfKind(a \o b, fewer) = OfKind(a, fewer) \o OfKind(b, fewer)
    <3>1. PICK w : w = a \o b
      OBVIOUS
    <3>2. IsJoin(w, a, b)
      BY <3>1 DEF IsJoin
    <3>3. IsJoin(OfKind(w, fewer), OfKind(a, fewer), OfKind(b, fewer))
      BY <3>2, OfKindJoin
    <3> QED
      BY <3>1, <3>3 DEF IsJoin
  <2>5. OfKind(a, fewer) = c /\ \A i \in 1..Len(a) : a[i].is \in kinds
    BY <1>4, <2>2
  <2>6. b = IF x.is \in kinds THEN y ELSE none
    BY <1>1, <2>1, <2>2, OfKindOne
  <2>7. d = IF x.is \in fewer THEN y ELSE none
    BY <1>1, <2>1, <2>2, OfKindOne
  <2>8. OfKind(b, fewer) = d
    <3>1. CASE x.is \in kinds
      BY <2>2, <2>6, <3>1
    <3>2. CASE x.is \notin kinds
      BY <1>2, <2>6, <2>7, <3>2
    <3> QED
      BY <3>1, <3>2
  <2>9. \A i \in 1..Len(a \o b) : (a \o b)[i].is \in kinds
    <3> SUFFICES ASSUME NEW i \in 1..Len(a \o b) PROVE (a \o b)[i].is \in kinds
      OBVIOUS
    <3>1. CASE i <= Len(a)
      <4>1. (a \o b)[i] = a[i] /\ i \in 1..Len(a)
        BY <3>1
      <4> QED
        BY <2>5, <4>1
    <3>2. CASE i > Len(a)
      <4>1. Len(b) # 0 /\ Len(a \o b) = Len(a) + Len(b)
        BY <3>2
      <4>2. b = y /\ x.is \in kinds
        BY <1>1, <2>6, <4>1
      <4>3. (a \o b)[i] = x
        BY <2>1, <3>2, <4>1, <4>2
      <4> QED
        BY <4>2, <4>3
    <3> QED
      BY <3>1, <3>2
  <2>10. PICK w : w = a \o b
    OBVIOUS
  <2>11. u \in T
    <3>1. OfKind(u, kinds) = w
      BY <2>3, <2>10
    <3>2. \A i \in 1..Len(w) : w[i].is \in kinds
      BY <2>9, <2>10
    <3>3. OfKind(w, fewer) = OfKind(u, fewer)
      BY <2>3, <2>4, <2>5, <2>8, <2>10
    <3> QED
      BY <3>1, <3>2, <3>3
  <2> QED
    BY <2>1, <2>11
<1>5. s \in T
  <2> HIDE DEF T
  <2> QED
    BY <1>3, <1>4, AllSequences
<1> QED
  BY <1>5

-----------------------------------------------------------------------------
(* Blank lines *)

Closing(c) == c = <<>> \/ (Len(c) >= 2 /\ c[Len(c) - 1] = LF /\ c[Len(c)] = LF)

\* What is complete ends in a blank line, and what is not has none.
LEMMA CompleteFacts ==
  ASSUME NEW V, NEW s \in Seq(V)
  PROVE  /\ Complete(s) \in Seq(V) /\ Incomplete(s) \in Seq(V)
         /\ IsJoin(s, Complete(s), Incomplete(s))
         /\ Closing(Complete(s)) /\ BlankLines(Incomplete(s)) = {}
<1>1. PICK n \in Nat : n = Len(s)
  OBVIOUS
<1>2. PICK B \in SUBSET (0..n) : B = BlankLines(s)
  <2>1. BlankLines(s) \in SUBSET (0..n)
    BY <1>1 DEF BlankLines
  <2> QED
    BY <2>1
<1>3. \A i : i \in B <=> i \in 1..(n - 1) /\ s[i] = LF /\ s[i + 1] = LF
  BY <1>1, <1>2 DEF BlankLines
<1>4. CASE B = {}
  <2>1. Complete(s) = <<>> /\ Incomplete(s) = SubSeq(s, 1, n)
    BY <1>1, <1>2, <1>4 DEF Complete, Incomplete
  <2>2. SubSeq(s, 1, n) = s /\ <<>> \in Seq(V) /\ <<>> \o s = s
    BY <1>1
  <2> QED
    BY <1>2, <1>4, <2>1, <2>2 DEF Closing, IsJoin
<1>5. CASE B # {}
  <2>1. PICK l \in B : \A j \in B : j <= l
    BY <1>5, GreatestNumber
  <2>2. LastBlank(s) = l
    <3>1. LastBlank(s) = CHOOSE i \in B : \A j \in B : j <= i
      BY <1>2 DEF LastBlank
    <3>2. \A i \in B : (\A j \in B : j <= i) => i = l
      BY <2>1
    <3> QED
      BY <2>1, <3>1, <3>2
  <2>3. l \in 1..(n - 1) /\ s[l] = LF /\ s[l + 1] = LF
    BY <1>3
  <2>4. Complete(s) = SubSeq(s, 1, l + 1)
    BY <1>2, <1>5, <2>2 DEF Complete
  <2>5. PICK c \in Seq(V) : /\ c = SubSeq(s, 1, l + 1) /\ Len(c) = l + 1
                            /\ \A i \in 1..(l + 1) : c[i] = s[i]
    <3>1. /\ SubSeq(s, 1, l + 1) \in Seq(V) /\ Len(SubSeq(s, 1, l + 1)) = l + 1
          /\ \A i \in 1..(l + 1) : SubSeq(s, 1, l + 1)[i] = s[i]
      BY <1>1, <2>3
    <3> QED
      BY <3>1
  <2>6. PICK r \in Seq(V) : /\ r = SubSeq(s, l + 2, n) /\ Len(r) = n - (l + 1)
                            /\ \A i \in 1..(n - (l + 1)) : r[i] = s[l + 1 + i]
    <3>1. PICK k \in 0..n, o \in Nat : k = l + 1 /\ o = k + 1 /\ o = l + 2
      BY <2>3
    <3>2. PICK p, r : p = SubSeq(s, 1, k) /\ r = SubSeq(s, o, n)
      OBVIOUS
    <3>3. Cuts(V, s, n, k, p, r)
      BY <1>1, <3>1, <3>2, CutJoin
    <3>4. r \in Seq(V) /\ Len(r) = n - k /\ \A i \in 1..(n - k) : r[i] = s[k + i]
      BY <3>3 DEF Cuts
    <3> QED
      BY <3>1, <3>2, <3>4
  <2>7. Incomplete(s) = r /\ Complete(s) = c
    <3>1. Len(Complete(s)) + 1 = l + 2
      BY <2>3, <2>4, <2>5
    <3> QED
      BY <1>1, <2>4, <2>5, <2>6, <3>1 DEF Incomplete
  <2>8. s = c \o r
    <3>1. PICK w \in Seq(V) : /\ w = c \o r /\ Len(w) = Len(c) + Len(r)
                              /\ (\A i \in 1..Len(c) : w[i] = c[i])
                              /\ \A i \in 1..Len(r) : w[Len(c) + i] = r[i]
      <4>1. /\ c \o r \in Seq(V) /\ Len(c \o r) = Len(c) + Len(r)
            /\ (\A i \in 1..Len(c) : (c \o r)[i] = c[i])
            /\ \A i \in 1..Len(r) : (c \o r)[Len(c) + i] = r[i]
        OBVIOUS
      <4> QED
        BY <4>1, Zenon
    <3>2. Len(w) = n
      BY <2>3, <2>5, <2>6, <3>1
    <3>3. \A i \in 1..n : w[i] = s[i]
      <4> SUFFICES ASSUME NEW i \in 1..n PROVE w[i] = s[i]
        OBVIOUS
      <4>1. CASE i <= l + 1
        BY <2>5, <3>1, <4>1
      <4>2. CASE i > l + 1
        <5>1. PICK j \in 1..(n - (l + 1)) : i = l + 1 + j
          <6>1. i - (l + 1) \in 1..(n - (l + 1)) /\ i = l + 1 + (i - (l + 1))
            BY <2>3, <4>2
          <6> QED
            BY <6>1
        <5>2. w[Len(c) + j] = r[j] /\ r[j] = s[l + 1 + j] /\ Len(c) + j = i
          BY <2>5, <2>6, <3>1, <5>1
        <5> QED
          BY <5>1, <5>2
      <4> QED
        BY <2>3, <4>1, <4>2
    <3>4. w = s
      BY <1>1, <3>2, <3>3, SameSequence
    <3> QED
      BY <3>1, <3>4
  <2>9. Closing(c)
    BY <2>3, <2>5 DEF Closing
  <2>10. BlankLines(r) = {}
    <3> SUFFICES ASSUME NEW i \in 1..(Len(r) - 1), r[i] = LF, r[i + 1] = LF PROVE FALSE
      BY DEF BlankLines
    <3>1. /\ i \in 1..(n - (l + 1)) /\ i + 1 \in 1..(n - (l + 1))
          /\ l + 1 + i \in 1..(n - 1) /\ l + 1 + i > l
      BY <2>3, <2>6
    <3>2. s[l + 1 + i] = LF /\ s[l + 1 + (i + 1)] = LF /\ l + 1 + (i + 1) = (l + 1 + i) + 1
      BY <2>6, <3>1
    <3>3. l + 1 + i \in B
      BY <1>3, <3>1, <3>2
    <3> QED
      BY <2>1, <2>3, <3>1, <3>3
  <2>11. IsJoin(s, c, r)
    BY <2>8 DEF IsJoin
  <2> QED
    BY <2>7, <2>9, <2>10, <2>11
<1> QED
  BY <1>4, <1>5

\* A blank line joined to what has none: the last one is where the first part ends, or one later.
LEMMA ClosedData ==
  ASSUME NEW V, NEW c \in Seq(V), NEW b \in Seq(V), NEW u, IsJoin(u, c, b),
         Closing(c), BlankLines(b) = {}
  PROVE  DataLines(Complete(u)) = DataLines(c)
<1>1. PICK n \in Nat, m \in Nat :
        /\ n = Len(c) /\ m = Len(b) /\ Len(u) = n + m /\ u \in Seq(V)
        /\ (\A i \in 1..n : u[i] = c[i]) /\ \A i \in 1..m : u[n + i] = b[i]
  <2>1. /\ c \o b \in Seq(V) /\ Len(c) \in Nat /\ Len(b) \in Nat /\ Len(c \o b) = Len(c) + Len(b)
        /\ (\A i \in 1..Len(c) : (c \o b)[i] = c[i])
        /\ \A i \in 1..Len(b) : (c \o b)[Len(c) + i] = b[i]
    OBVIOUS
  <2>2. u = c \o b
    BY DEF IsJoin
  <2> QED
    BY <2>1, <2>2, Zenon
<1>2. PICK B \in SUBSET (0..(n + m)) : B = BlankLines(u)
  <2>1. BlankLines(u) \in SUBSET (0..(n + m))
    BY <1>1 DEF BlankLines
  <2> QED
    BY <2>1
<1>3. \A i : i \in B <=> i \in 1..(n + m - 1) /\ u[i] = LF /\ u[i + 1] = LF
  BY <1>1, <1>2 DEF BlankLines
<1>4. \A i \in 1..(m - 1) : ~(b[i] = LF /\ b[i + 1] = LF)
  BY <1>1 DEF BlankLines
<1>5. ASSUME NEW i \in B PROVE i <= n
  <2>1. SUFFICES ASSUME i > n PROVE FALSE
    BY <1>3
  <2>2. PICK j \in 1..(m - 1) : i = n + j
    <3>1. i - n \in 1..(m - 1) /\ i = n + (i - n)
      BY <1>3, <2>1
    <3> QED
      BY <3>1
  <2>3. u[n + j] = b[j] /\ u[n + (j + 1)] = b[j + 1] /\ n + (j + 1) = i + 1
    <3>1. j \in 1..m /\ j + 1 \in 1..m /\ n + (j + 1) = i + 1
      BY <2>2
    <3> QED
      BY <1>1, <3>1
  <2> QED
    BY <1>3, <1>4, <2>2, <2>3
<1>6. CASE n = 0
  <2>1. B = {}
    BY <1>3, <1>5, <1>6
  <2>2. Complete(u) = <<>>
    BY <1>2, <2>1 DEF Complete
  <2>3. c = <<>>
    <3>1. \A w \in Seq(V) : Len(w) = 0 => w = <<>>
      OBVIOUS
    <3> QED
      BY <1>1, <1>6, <3>1
  <2> QED
    BY <2>2, <2>3
<1>7. CASE n # 0
  <2>1. n >= 2 /\ c[n - 1] = LF /\ c[n] = LF
    BY <1>1, <1>7 DEF Closing
  <2>2. n - 1 \in B
    <3>1. n - 1 \in 1..n /\ n \in 1..n /\ (n - 1) + 1 = n /\ n - 1 \in 1..(n + m - 1)
      BY <2>1
    <3>2. u[n - 1] = LF /\ u[n] = LF
      BY <1>1, <2>1, <3>1
    <3> QED
      BY <1>3, <3>1, <3>2
  <2>3. PICK l \in B : \A j \in B : j <= l
    <3>1. PICK k \in Nat : k = n + m
      OBVIOUS
    <3>2. B \in SUBSET (0..k) /\ B # {}
      BY <2>2, <3>1
    <3> QED
      BY <3>2, GreatestNumber
  <2>4. LastBlank(u) = l
    <3>1. LastBlank(u) = CHOOSE i \in B : \A j \in B : j <= i
      BY <1>2 DEF LastBlank
    <3>2. \A i \in B : (\A j \in B : j <= i) => i = l
      BY <2>3
    <3> QED
      BY <2>3, <3>1, <3>2
  <2>5. Complete(u) = SubSeq(u, 1, l + 1)
    BY <1>2, <2>2, <2>4 DEF Complete
  <2>6. l \in Nat /\ n - 1 <= l /\ l <= n /\ l <= n + m - 1
    BY <1>3, <1>5, <2>2, <2>3
  <2>7. CASE l = n - 1
    <3>1. PICK w \in Seq(V) : w = SubSeq(u, 1, n) /\ Len(w) = n /\ \A i \in 1..n : w[i] = u[i]
      <4>1. /\ SubSeq(u, 1, n) \in Seq(V) /\ Len(SubSeq(u, 1, n)) = n
            /\ \A i \in 1..n : SubSeq(u, 1, n)[i] = u[i]
        BY <1>1
      <4> QED
        BY <4>1
    <3>2. \A i \in 1..Len(c) : w[i] = c[i]
      BY <1>1, <3>1
    <3>3. w = c
      BY <1>1, <3>1, <3>2, SameSequence
    <3>4. l + 1 = n
      BY <2>6, <2>7
    <3> QED
      BY <2>5, <3>1, <3>3, <3>4
  <2>8. CASE l = n
    <3>1. u[n + 1] = LF /\ m >= 1
      BY <1>3, <2>3, <2>6, <2>8
    <3>2. PICK w \in Seq(V) : w = SubSeq(u, 1, n + 1) /\ Len(w) = n + 1 /\ \A i \in 1..(n + 1) : w[i] = u[i]
      <4>1. /\ SubSeq(u, 1, n + 1) \in Seq(V) /\ Len(SubSeq(u, 1, n + 1)) = n + 1
            /\ \A i \in 1..(n + 1) : SubSeq(u, 1, n + 1)[i] = u[i]
        BY <1>1, <3>1
      <4> QED
        BY <4>1
    <3>3. PICK x \in V : x = LF
      BY <3>1, <1>1
    <3>4. PICK y \in Seq(V), v \in Seq(V) :
            /\ y = <<x>> /\ Len(y) = 1 /\ y[1] = x /\ v = c \o y /\ Len(v) = n + 1
            /\ (\A i \in 1..n : v[i] = c[i]) /\ v[n + 1] = x
      <4>1. /\ <<x>> \in Seq(V) /\ Len(<<x>>) = 1 /\ <<x>>[1] = x /\ c \o <<x>> \in Seq(V)
            /\ Len(c \o <<x>>) = n + 1 /\ (\A i \in 1..n : (c \o <<x>>)[i] = c[i])
            /\ (c \o <<x>>)[n + 1] = x
        BY <1>1
      <4> QED
        BY <4>1
    <3>5. \A i \in 1..Len(v) : w[i] = v[i]
      BY <1>1, <3>1, <3>2, <3>3, <3>4
    <3>6. w = v
      BY <3>2, <3>4, <3>5, SameSequence
    <3>7. OfKind(y, Data) = <<>>
      <4>1. x.is \notin Data
        BY <3>3 DEF LF, Data
      <4> QED
        BY <3>4, <4>1, OfKindOne
    <3>8. IsJoin(v, c, y)
      BY <3>4 DEF IsJoin
    <3>9. PICK d \in Seq(V) : d = OfKind(c, Data) /\ OfKind(v, Data) = d \o OfKind(y, Data)
      <4>1. OfKind(c, Data) \in Seq(V) /\ IsJoin(OfKind(v, Data), OfKind(c, Data), OfKind(y, Data))
        BY <3>8, OfKindJoin
      <4> QED
        BY <4>1 DEF IsJoin
    <3>10. d \o <<>> = d
      OBVIOUS
    <3> QED
      BY <2>5, <2>8, <3>2, <3>6, <3>7, <3>9, <3>10 DEF DataLines
  <2> QED
    BY <2>6, <2>7, <2>8
<1> QED
  BY <1>6, <1>7

\* What was read is what was complete, and what is not yet.
HasRead(V, r, c, b) ==
  /\ r \in Seq(V) /\ c \in Seq(V) /\ b \in Seq(V)
  /\ IsJoin(r, c, b) /\ Closing(c) /\ BlankLines(b) = {}

\* A reader that takes a piece has read the events that the piece completes.
LEMMA ReadOn ==
  ASSUME NEW V, NEW r, NEW c, NEW b, HasRead(V, r, c, b), NEW p \in Seq(V),
         NEW q, IsJoin(q, r, p), NEW a, IsJoin(a, b, p), NEW d, IsJoin(d, c, Complete(a))
  PROVE  /\ HasRead(V, q, d, Incomplete(a))
         /\ Complete(a) \in Seq(V)
         /\ IsJoin(DataLines(d), DataLines(c), DataLines(Complete(a)))
<1>1. r \in Seq(V) /\ c \in Seq(V) /\ b \in Seq(V)
  BY DEF HasRead
<1>2. r = c \o b /\ q = r \o p /\ a = b \o p /\ d = c \o Complete(a)
  BY DEF HasRead, IsJoin
<1>3. a \in Seq(V) /\ q \in Seq(V)
  <2>1. b \o p \in Seq(V) /\ r \o p \in Seq(V)
    BY <1>1
  <2> QED
    BY <1>2, <2>1
<1>4. PICK e \in Seq(V), f \in Seq(V) :
        e = Complete(a) /\ f = Incomplete(a) /\ Closing(e) /\ BlankLines(f) = {} /\ IsJoin(a, e, f)
  BY <1>3, CompleteFacts
<1>5. d = c \o e /\ a = e \o f
  BY <1>2, <1>4 DEF IsJoin
<1>6. d \in Seq(V)
  <2>1. c \o e \in Seq(V)
    BY <1>1
  <2> QED
    BY <1>5, <2>1
<1>7. q = d \o f
  <2>1. (c \o b) \o p = c \o (b \o p)
    BY <1>1
  <2>2. c \o (e \o f) = (c \o e) \o f
    BY <1>1
  <2> QED
    BY <1>2, <1>5, <2>1, <2>2
<1>8. Closing(d)
  <2>1. CASE e = <<>>
    <3>1. c \o <<>> = c
      BY <1>1
    <3>2. Closing(c)
      BY DEF HasRead
    <3> QED
      BY <1>5, <2>1, <3>1, <3>2
  <2>2. CASE e # <<>>
    <3>1. PICK n \in Nat, m \in Nat : n = Len(c) /\ m = Len(e) /\ m >= 2 /\ e[m - 1] = LF /\ e[m] = LF
      BY <1>1, <1>4, <2>2 DEF Closing
    <3>2. /\ Len(c \o e) = n + m
          /\ (c \o e)[n + m - 1] = e[m - 1] /\ (c \o e)[n + m] = e[m]
      BY <1>1, <3>1
    <3> QED
      BY <1>5, <3>1, <3>2 DEF Closing
  <2> QED
    BY <2>1, <2>2
<1>9. HasRead(V, q, d, f)
  BY <1>3, <1>4, <1>6, <1>7, <1>8 DEF HasRead, IsJoin
<1>10. IsJoin(d, c, e)
  BY <1>5 DEF IsJoin
<1>11. IsJoin(OfKind(d, Data), OfKind(c, Data), OfKind(e, Data))
  BY <1>1, <1>10, OfKindJoin
<1> QED
  BY <1>4, <1>9, <1>11 DEF DataLines

\* And all that is complete of it are the data lines passed on.
LEMMA ReadData ==
  ASSUME NEW V, NEW r, NEW c, NEW b, HasRead(V, r, c, b)
  PROVE  /\ DataLines(Complete(r)) = DataLines(c)
         /\ IsJoin(DataLines(r), DataLines(c), DataLines(b))
         /\ DataLines(c) \in Seq(V) /\ DataLines(b) \in Seq(V)
<1>1. /\ r \in Seq(V) /\ c \in Seq(V) /\ b \in Seq(V)
      /\ IsJoin(r, c, b) /\ Closing(c) /\ BlankLines(b) = {}
  BY DEF HasRead
<1>2. DataLines(Complete(r)) = DataLines(c)
  BY <1>1, ClosedData
<1>3. /\ IsJoin(OfKind(r, Data), OfKind(c, Data), OfKind(b, Data))
      /\ OfKind(c, Data) \in Seq(V) /\ OfKind(b, Data) \in Seq(V)
  BY <1>1, OfKindJoin
<1> QED
  BY <1>2, <1>3 DEF DataLines

-----------------------------------------------------------------------------
(* What the agent puts together: texts and arguments *)

\* The arguments of a call, by the pieces of it.
ArgsGathered(V, s, n, key, b, v, f) ==
  /\ \A i \in 1..n : v[i] = s[i].arg /\ (i \in b <=> s[i].is = "call" /\ s[i].index = key)
  /\ Appends(f, n, b, v)
  /\ \A i \in 0..n : f[i] \in Seq({m.arg : m \in V})
  /\ ArgsOf(s, key) = f[n]

\* The arguments of a call, gathered one by one.
LEMMA ArgsOfIs ==
  ASSUME NEW V, NEW s \in Seq(V), NEW n \in Nat, n = Len(s), NEW key
  PROVE  \E b, v, f : ArgsGathered(V, s, n, key, b, v, f)
<1>1. PICK A : A = {m.arg : m \in V}
  OBVIOUS
<1>2. PICK b : b = {i \in 1..Len(s) : s[i].is = "call" /\ s[i].index = key}
  OBVIOUS
<1>0. PICK v : v = [i \in 1..n |-> s[i].arg]
  OBVIOUS
<1>10. \A i \in 1..n : v[i] \in A
  <2> TAKE i \in 1..n
  <2>1. s[i] \in V /\ v[i] = s[i].arg
    BY <1>0
  <2> QED
    BY <1>1, <2>1
<1> DEFINE Is(f) == f = [i \in 0..Len(s) |->
                           IF i = 0 THEN <<>>
                           ELSE IF s[i].is = "call" /\ s[i].index = key THEN Append(f[i - 1], s[i].arg)
                           ELSE f[i - 1]]
<1>3. ASSUME NEW f PROVE Is(f) <=> Appends(f, n, b, v)
  <2>1. \A i \in 0..n : i # 0 => (i \in b <=> s[i].is = "call" /\ s[i].index = key)
    BY <1>2
  <2>3. \A i \in 0..n : i # 0 => v[i] = s[i].arg
    BY <1>0
  <2>2. [i \in 0..n |-> IF i = 0 THEN <<>>
                        ELSE IF s[i].is = "call" /\ s[i].index = key THEN Append(f[i - 1], s[i].arg)
                        ELSE f[i - 1]]
        = [i \in 0..n |-> IF i = 0 THEN <<>>
                          ELSE IF i \in b THEN Append(f[i - 1], v[i]) ELSE f[i - 1]]
    BY <2>1, <2>3
  <2> QED
    BY <2>2 DEF Appends
<1>4. /\ \E f : Appends(f, n, b, v)
      /\ \A f : Appends(f, n, b, v) => \A i \in 0..n : f[i] \in Seq(A)
  BY <1>10, AppendsGather
<1>5. ArgsOf(s, key) = (CHOOSE f : Is(f))[n]
  BY DEF ArgsOf
<1> HIDE DEF Is
<1>6. \E f : Is(f)
  BY <1>3, <1>4
<1>7. PICK f : f = CHOOSE g : Is(g)
  OBVIOUS
<1>8. Is(f)
  BY <1>6, <1>7, Zenon
<1>9. \A i \in 1..n : v[i] = s[i].arg /\ (i \in b <=> s[i].is = "call" /\ s[i].index = key)
  BY <1>0, <1>2
<1>11. Appends(f, n, b, v) /\ \A i \in 0..n : f[i] \in Seq(A)
  BY <1>3, <1>4, <1>8
<1> QED
  BY <1>1, <1>5, <1>7, <1>9, <1>11 DEF ArgsGathered

ArgsGrow(V, s, m, u, key) ==
  /\ ArgsOf(u, key) = IF m.is = "call" /\ m.index = key
                      THEN Append(ArgsOf(s, key), m.arg) ELSE ArgsOf(s, key)
  /\ ArgsOf(s, key) \in Seq({x.arg : x \in V})

\* One more line adds its piece to the arguments of its call, and to no other.
LEMMA ArgsOneMore ==
  ASSUME NEW V, NEW s \in Seq(V), NEW m \in V, NEW u, IsOneMore(u, s, m), NEW key
  PROVE  ArgsGrow(V, s, m, u, key)
<1>1. PICK n \in Nat, k \in Nat : n = Len(s) /\ k = n + 1
  OBVIOUS
<1>2. u \in Seq(V) /\ Len(u) = k /\ u[k] = m /\ \A i \in 1..n : u[i] = s[i]
  BY <1>1, OneMoreFacts
<1>3. PICK b, v, f : ArgsGathered(V, s, n, key, b, v, f)
  BY <1>1, ArgsOfIs
<1>4. PICK d, w, h : ArgsGathered(V, u, k, key, d, w, h)
  BY <1>2, ArgsOfIs
<1>5. \A i \in 1..n : (i \in b <=> i \in d) /\ v[i] = w[i]
  <2> TAKE i \in 1..n
  <2>1. i \in 1..k /\ u[i] = s[i]
    BY <1>1, <1>2
  <2>2. v[i] = s[i].arg /\ (i \in b <=> s[i].is = "call" /\ s[i].index = key)
    BY <1>3 DEF ArgsGathered
  <2>3. w[i] = u[i].arg /\ (i \in d <=> u[i].is = "call" /\ u[i].index = key)
    BY <1>4, <2>1 DEF ArgsGathered
  <2> QED
    BY <2>1, <2>2, <2>3
<1>6. Appends(f, n, b, v) /\ Appends(h, k, d, w)
  BY <1>3, <1>4 DEF ArgsGathered
<1>7. h[k] = IF k \in d THEN Append(f[n], w[k]) ELSE f[n]
  BY <1>1, <1>5, <1>6, OneMore
<1>8. w[k] = m.arg /\ (k \in d <=> m.is = "call" /\ m.index = key)
  <2>1. k \in 1..k
    BY <1>1
  <2> QED
    BY <1>2, <1>4, <2>1 DEF ArgsGathered
<1>9. ArgsOf(s, key) = f[n] /\ ArgsOf(u, key) = h[k] /\ f[n] \in Seq({x.arg : x \in V})
  BY <1>3, <1>4 DEF ArgsGathered
<1> QED
  BY <1>7, <1>8, <1>9 DEF ArgsGrow

\* A line without a piece of the call at all.
LEMMA ArgsOfNone ==
  ASSUME NEW V, NEW s \in Seq(V), NEW key, \A i \in 1..Len(s) : ~(s[i].is = "call" /\ s[i].index = key)
  PROVE  ArgsOf(s, key) = <<>>
<1>1. PICK n \in Nat : n = Len(s)
  OBVIOUS
<1>2. PICK b, v, f : ArgsGathered(V, s, n, key, b, v, f)
  BY <1>1, ArgsOfIs
<1>3. f[0] = <<>> /\ \A i \in 1..n : i \notin b => f[i] = f[i - 1]
  <2>1. f = [i \in 0..n |-> IF i = 0 THEN <<>>
                            ELSE IF i \in b THEN Append(f[i - 1], v[i]) ELSE f[i - 1]]
    BY <1>2 DEF ArgsGathered, Appends
  <2>2. f[0] = <<>>
    BY <2>1
  <2>3. ASSUME NEW i \in 1..n, i \notin b PROVE f[i] = f[i - 1]
    <3>1. i \in 0..n /\ i # 0
      OBVIOUS
    <3> QED
      BY <2>1, <2>3, <3>1
  <2> QED
    BY <2>2, <2>3
<1>4. \A i \in 1..n : i \notin b
  BY <1>1, <1>2 DEF ArgsGathered
<1> DEFINE T == {i \in 0..n : f[i] = <<>>}
<1>5. 0 \in T
  BY <1>3
<1>6. \A i \in 0..n : i < n /\ i \in T => i + 1 \in T
  <2> SUFFICES ASSUME NEW i \in 0..n, i < n, i \in T PROVE i + 1 \in T
    OBVIOUS
  <2>1. i + 1 \in 1..n /\ i + 1 \in 0..n /\ i + 1 # 0 /\ (i + 1) - 1 = i
    OBVIOUS
  <2>2. f[i + 1] = f[i]
    BY <1>3, <1>4, <2>1
  <2> QED
    BY <2>1, <2>2
<1>7. n \in T
  <2> HIDE DEF T
  <2>1. \A i \in 0..n : i \in T
    BY <1>5, <1>6, UpTo
  <2> QED
    BY <2>1
<1> QED
  BY <1>2, <1>7 DEF ArgsGathered

\* One more line adds its text, if it has one.
LEMMA TextsOneMore ==
  ASSUME NEW V, NEW s \in Seq(V), NEW m \in V, NEW u, IsOneMore(u, s, m)
  PROVE  /\ TextsOf(u) = IF m.is = "text" THEN Append(TextsOf(s), m.text) ELSE TextsOf(s)
         /\ TextsOf(s) \in Seq({x.text : x \in V})
<1>1. PICK y \in Seq(V) : y = <<m>> /\ Len(y) = 1 /\ y[1] = m
  <2>1. <<m>> \in Seq(V) /\ Len(<<m>>) = 1 /\ <<m>>[1] = m
    OBVIOUS
  <2> QED
    BY <2>1
<1>2. IsJoin(u, s, y)
  BY <1>1 DEF IsJoin, IsOneMore
<1>3. PICK a \in Seq(V), b \in Seq(V), c \in Seq(V) :
        a = OfKind(s, {"text"}) /\ b = OfKind(y, {"text"}) /\ c = OfKind(u, {"text"}) /\ IsJoin(c, a, b)
  BY <1>2, OfKindJoin
<1>4. b = IF m.is = "text" THEN y ELSE <<>>
  <2>1. m.is \in {"text"} <=> m.is = "text"
    OBVIOUS
  <2>2. OfKind(<<m>>, {"text"}) = IF m.is \in {"text"} THEN <<m>> ELSE <<>>
    BY OfKindOne
  <2> QED
    BY <1>1, <1>3, <2>1, <2>2
<1>5. PICK l \in Nat : l = Len(a)
  OBVIOUS
<1>6. TextsOf(s) = [i \in 1..l |-> a[i].text] /\ TextsOf(u) = [i \in 1..Len(c) |-> c[i].text]
  BY <1>3, <1>5 DEF TextsOf
<1>7. PICK p \in Seq({x.text : x \in V}) : p = TextsOf(s) /\ Len(p) = l /\ \A i \in 1..l : p[i] = a[i].text
  <2>1. \A i \in 1..l : a[i].text \in {x.text : x \in V}
    BY <1>5
  <2>2. [i \in 1..l |-> a[i].text] \in Seq({x.text : x \in V})
    BY <2>1
  <2>3. Len([i \in 1..l |-> a[i].text]) = l
    BY <2>1
  <2> QED
    BY <1>6, <2>2, <2>3
<1>8. CASE m.is = "text"
  <2>1. c = a \o y
    BY <1>3, <1>4, <1>8 DEF IsJoin
  <2>2. Len(a \o y) = l + 1 /\ (\A i \in 1..l : (a \o y)[i] = a[i]) /\ (a \o y)[l + 1] = m
    BY <1>1, <1>5
  <2>3. Append(p, m.text) \in Seq({x.text : x \in V})
    OBVIOUS
  <2>4. /\ Len(Append(p, m.text)) = l + 1 /\ (\A i \in 1..l : Append(p, m.text)[i] = p[i])
        /\ Append(p, m.text)[l + 1] = m.text
    BY <1>7
  <2>5. Append(p, m.text) = [i \in 1..(l + 1) |-> Append(p, m.text)[i]]
    BY <2>3, <2>4
  <2>6. \A i \in 1..(l + 1) : Append(p, m.text)[i] = c[i].text
    BY <1>7, <2>1, <2>2, <2>4
  <2>7. TextsOf(u) = [i \in 1..(l + 1) |-> c[i].text]
    BY <1>6, <2>1, <2>2
  <2> QED
    BY <1>7, <1>8, <2>5, <2>6, <2>7
<1>9. CASE m.is # "text"
  <2>1. a \o <<>> = a
    OBVIOUS
  <2>2. c = a
    BY <1>3, <1>4, <1>9, <2>1 DEF IsJoin
  <2> QED
    BY <1>3, <1>6, <1>7, <1>9, <2>2, <1>5
<1> QED
  BY <1>7, <1>8, <1>9

\* The calls put together of some lines: each once, with all its pieces in order.
CallRecords(V) == [index : Nat, args : Seq({m.arg : m \in V})]
CallsOf(V, list, s) ==
  /\ list \in Seq(CallRecords(V))
  /\ \A i, j \in 1..Len(list) : list[i].index = list[j].index => i = j
  /\ \A i \in 1..Len(list) : list[i].args = ArgsOf(s, list[i].index)
  /\ \A i \in 1..Len(s) : s[i].is = "call" => \E j \in 1..Len(list) : list[j].index = s[i].index

\* A piece of a call goes to the call with its index, which is new if it was not there.
LEMMA CallTaken ==
  ASSUME NEW V, NEW s \in Seq(V), NEW m \in V, NEW u, IsOneMore(u, s, m),
         NEW list, CallsOf(V, list, s), m.is = "call", m.index \in Nat
  PROVE  CallsOf(V, AddedTo(list, m), u)
<1>1. PICK R : R = CallRecords(V)
  OBVIOUS
<1>2. PICK n \in Nat : n = Len(list)
  BY DEF CallsOf
<1>3. /\ list \in Seq(R)
      /\ \A i \in 1..n : list[i] \in R /\ list[i].args = ArgsOf(s, list[i].index)
      /\ \A i, j \in 1..n : list[i].index = list[j].index => i = j
      /\ \A i \in 1..Len(s) : s[i].is = "call" => \E j \in 1..n : list[j].index = s[i].index
  <2>1. list \in Seq(R)
    BY <1>1 DEF CallsOf
  <2>2. \A i \in 1..n : list[i] \in R
    BY <1>2, <2>1
  <2> QED
    BY <1>2, <2>1, <2>2, Zenon DEF CallsOf
<1>4. PICK l \in Nat, k \in Nat : l = Len(s) /\ k = l + 1
  OBVIOUS
<1>5. u \in Seq(V) /\ Len(u) = k /\ u[k] = m /\ \A i \in 1..l : u[i] = s[i]
  BY <1>4, OneMoreFacts
<1>6. \A key : /\ ArgsOf(u, key) = IF m.index = key THEN Append(ArgsOf(s, key), m.arg) ELSE ArgsOf(s, key)
               /\ ArgsOf(s, key) \in Seq({x.arg : x \in V})
  <2>1. \A key : ArgsGrow(V, s, m, u, key)
    BY ArgsOneMore
  <2> QED
    BY <2>1 DEF ArgsGrow
<1>7. (\E c \in ToSet(list) : c.index = m.index) <=> \E i \in 1..n : list[i].index = m.index
  BY <1>2 DEF ToSet
<1>10. PICK A : A = {x.arg : x \in V} /\ m.arg \in A
  OBVIOUS
<1>11. R = [index : Nat, args : Seq(A)]
  BY <1>1, <1>10 DEF CallRecords
<1>8. CASE \E i \in 1..n : list[i].index = m.index
  <2>1. PICK z : z = [i \in 1..n |-> IF list[i].index = m.index
                                     THEN [list[i] EXCEPT !.args = Append(@, m.arg)] ELSE list[i]]
    OBVIOUS
  <2>2. AddedTo(list, m) = z
    BY <1>2, <1>7, <1>8, <2>1 DEF AddedTo
  <2>3. \A i \in 1..n : /\ z[i] \in R /\ z[i].index = list[i].index
                        /\ z[i].args = IF list[i].index = m.index THEN Append(list[i].args, m.arg)
                                       ELSE list[i].args
    <3> TAKE i \in 1..n
    <3>1. list[i] \in R /\ Append(list[i].args, m.arg) \in Seq(A)
      BY <1>3, <1>10, <1>11
    <3>2. [list[i] EXCEPT !.args = Append(@, m.arg)] \in R
      BY <1>11, <3>1
    <3> QED
      BY <1>3, <1>11, <2>1, <3>1, <3>2
  <2>4. z \in Seq(R) /\ Len(z) = n
    <3>1. z = [i \in 1..n |-> z[i]]
      BY <2>1
    <3>2. \A i \in 1..n : z[i] \in R
      BY <2>3
    <3>3. z \in [1..n -> R]
      BY <3>1, <3>2
    <3> QED
      BY <3>3
  <2>5. ASSUME NEW i \in 1..n PROVE z[i].args = ArgsOf(u, z[i].index)
    <3>1. PICK g : g = list[i].index
      OBVIOUS
    <3>2. list[i].args = ArgsOf(s, g) /\ z[i].index = g
      BY <1>3, <2>3, <3>1
    <3>3. z[i].args = IF g = m.index THEN Append(ArgsOf(s, g), m.arg) ELSE ArgsOf(s, g)
      BY <2>3, <3>1, <3>2
    <3> QED
      BY <1>6, <3>2, <3>3
  <2>6. \A i \in 1..Len(u) : u[i].is = "call" => \E j \in 1..n : z[j].index = u[i].index
    <3> SUFFICES ASSUME NEW i \in 1..Len(u), u[i].is = "call" PROVE \E j \in 1..n : z[j].index = u[i].index
      OBVIOUS
    <3>1. CASE i = k
      BY <1>5, <1>8, <2>3, <3>1
    <3>2. CASE i # k
      <4>1. i \in 1..l /\ u[i] = s[i]
        BY <1>4, <1>5, <3>2
      <4> QED
        BY <1>3, <1>4, <2>3, <4>1
    <3> QED
      BY <3>1, <3>2
  <2>7. \A i, j \in 1..n : z[i].index = z[j].index => i = j
    BY <1>3, <2>3
  <2> QED
    BY <1>1, <2>2, <2>4, <2>5, <2>6, <2>7 DEF CallsOf
<1>9. CASE ~\E i \in 1..n : list[i].index = m.index
  <2>0. PICK c \in R : c = [index |-> m.index, args |-> <<m.arg>>]
    <3>1. <<m.arg>> \in Seq(A)
      BY <1>10
    <3> QED
      BY <1>11, <3>1
  <2>1. PICK z \in Seq(R) : /\ z = Append(list, c) /\ Len(z) = n + 1 /\ z[n + 1] = c
                            /\ \A i \in 1..n : z[i] = list[i]
    <3>1. /\ Append(list, c) \in Seq(R) /\ Len(Append(list, c)) = n + 1
          /\ Append(list, c)[n + 1] = c
          /\ \A i \in 1..n : Append(list, c)[i] = list[i]
      BY <1>2, <1>3
    <3> QED
      BY <3>1
  <2>2. AddedTo(list, m) = z
    BY <1>7, <1>9, <2>0, <2>1 DEF AddedTo
  <2>3. \A i \in 1..(n + 1) : i \in 1..n \/ i = n + 1
    OBVIOUS
  <2>4. ArgsOf(s, m.index) = <<>>
    <3>1. \A i \in 1..Len(s) : ~(s[i].is = "call" /\ s[i].index = m.index)
      BY <1>3, <1>9
    <3> QED
      BY <3>1, ArgsOfNone
  <2>5. c.index = m.index /\ c.args = <<m.arg>> /\ Append(<<>>, m.arg) = <<m.arg>>
    BY <2>0
  <2>6. ASSUME NEW i \in 1..(n + 1) PROVE z[i].args = ArgsOf(u, z[i].index)
    <3>1. CASE i = n + 1
      BY <1>6, <2>1, <2>4, <2>5, <3>1
    <3>2. CASE i \in 1..n
      BY <1>3, <1>6, <1>9, <2>1, <3>2
    <3> QED
      BY <2>3, <3>1, <3>2
  <2>7. ASSUME NEW i \in 1..(n + 1), NEW j \in 1..(n + 1), z[i].index = z[j].index PROVE i = j
    BY <1>3, <1>9, <2>1, <2>3, <2>5, <2>7
  <2>8. \A i \in 1..Len(u) : u[i].is = "call" => \E j \in 1..(n + 1) : z[j].index = u[i].index
    <3> SUFFICES ASSUME NEW i \in 1..Len(u), u[i].is = "call" PROVE \E j \in 1..(n + 1) : z[j].index = u[i].index
      OBVIOUS
    <3>1. CASE i = k
      <4>1. n + 1 \in 1..(n + 1)
        OBVIOUS
      <4> QED
        BY <1>5, <2>1, <2>5, <3>1, <4>1
    <3>2. CASE i # k
      <4>1. i \in 1..l /\ u[i] = s[i]
        BY <1>4, <1>5, <3>2
      <4>2. PICK j \in 1..n : list[j].index = s[i].index
        BY <1>3, <1>4, <4>1
      <4>3. j \in 1..(n + 1) /\ z[j] = list[j]
        BY <2>1
      <4> QED
        BY <4>1, <4>2, <4>3
    <3> QED
      BY <3>1, <3>2
  <2> QED
    BY <1>1, <2>1, <2>2, <2>6, <2>7, <2>8 DEF CallsOf
<1> QED
  BY <1>8, <1>9

\* A line of no call changes no call.
LEMMA NoCallTaken ==
  ASSUME NEW V, NEW s \in Seq(V), NEW m \in V, NEW u, IsOneMore(u, s, m),
         NEW list, CallsOf(V, list, s), m.is # "call"
  PROVE  CallsOf(V, list, u)
<1>1. PICK l \in Nat, k \in Nat : l = Len(s) /\ k = l + 1
  OBVIOUS
<1>2. u \in Seq(V) /\ Len(u) = k /\ u[k] = m /\ \A i \in 1..l : u[i] = s[i]
  BY <1>1, OneMoreFacts
<1>3. \A key : ArgsOf(u, key) = ArgsOf(s, key)
  <2>1. \A key : ArgsGrow(V, s, m, u, key)
    BY ArgsOneMore
  <2> QED
    BY <2>1 DEF ArgsGrow
<1>4. ASSUME NEW i \in 1..Len(u), u[i].is = "call"
      PROVE  \E j \in 1..Len(list) : list[j].index = u[i].index
  <2>1. i # k
    BY <1>2, <1>4
  <2>2. i \in 1..l /\ u[i] = s[i]
    BY <1>1, <1>2, <2>1
  <2> QED
    BY <1>1, <1>4, <2>2 DEF CallsOf
<1> QED
  BY <1>3, <1>4 DEF CallsOf

\* What the agent has of some lines.
Collected(V, r, s) ==
  /\ s \in Seq(V)
  /\ r.textRead = TextsOf(s) /\ r.textRead \in Seq({x.text : x \in V})
  /\ CallsOf(V, r.toolCalls, s)
  /\ r.done \in BOOLEAN
  /\ r = [textRead |-> r.textRead, toolCalls |-> r.toolCalls, done |-> r.done]

\* The agent takes one more line: what it has put together stays what the lines say.
LEMMA LineTaken ==
  ASSUME NEW V, NEW s, NEW r, Collected(V, r, s), ~r.done,
         NEW m \in V, m.is \in Data, m.is = "call" => m.index \in Nat,
         NEW u, IsOneMore(u, s, m)
  PROVE  IF m.is = "done" THEN TakenLine(r, m).done /\ Collected(V, TakenLine(r, m), s)
         ELSE ~TakenLine(r, m).done /\ Collected(V, TakenLine(r, m), u)
<1>1. /\ s \in Seq(V) /\ r.textRead = TextsOf(s) /\ r.textRead \in Seq({x.text : x \in V})
      /\ CallsOf(V, r.toolCalls, s)
      /\ r = [textRead |-> r.textRead, toolCalls |-> r.toolCalls, done |-> r.done]
      /\ r.done = FALSE
  BY DEF Collected
<1>2. PICK t, l : t = r.textRead /\ l = r.toolCalls
  OBVIOUS
<1>3. r = [textRead |-> t, toolCalls |-> l, done |-> FALSE]
  BY <1>1, <1>2
<1>4. CASE m.is = "done"
  <2>1. TakenLine(r, m) = [textRead |-> t, toolCalls |-> l, done |-> TRUE]
    BY <1>3, <1>4 DEF TakenLine
  <2>2. PICK z : z = TakenLine(r, m)
    OBVIOUS
  <2>3. z = [textRead |-> t, toolCalls |-> l, done |-> TRUE] /\ z.done = TRUE /\ z.textRead = t /\ z.toolCalls = l
    BY <2>1, <2>2
  <2>4. Collected(V, z, s)
    BY <1>1, <1>2, <2>3 DEF Collected
  <2> QED
    BY <1>4, <2>2, <2>3, <2>4
<1>5. u \in Seq(V)
  <2>1. PICK n \in Nat, k \in Nat : n = Len(s) /\ k = n + 1
    BY <1>1
  <2> QED
    BY <1>1, <2>1, OneMoreFacts
<1>6. CASE m.is = "text"
  <2>1. TextsOf(u) = Append(t, m.text)
    BY <1>1, <1>2, <1>6, TextsOneMore
  <2>2. Append(t, m.text) \in Seq({x.text : x \in V})
    BY <1>1, <1>2
  <2>3. PICK z : z = TakenLine(r, m)
    OBVIOUS
  <2>4. z = [textRead |-> Append(t, m.text), toolCalls |-> l, done |-> FALSE]
    BY <1>3, <1>6, <2>3 DEF TakenLine
  <2>5. z.done = FALSE /\ z.textRead = Append(t, m.text) /\ z.toolCalls = l
    BY <2>4
  <2>6. CallsOf(V, l, u)
    BY <1>1, <1>2, <1>6, NoCallTaken
  <2>7. Collected(V, z, u)
    BY <1>5, <2>1, <2>2, <2>4, <2>5, <2>6 DEF Collected
  <2> QED
    BY <1>6, <2>3, <2>5, <2>7
<1>7. CASE m.is = "call"
  <2>1. TextsOf(u) = t
    BY <1>1, <1>2, <1>7, TextsOneMore
  <2>2. CallsOf(V, AddedTo(l, m), u)
    BY <1>1, <1>2, <1>7, CallTaken
  <2>3. PICK z : z = TakenLine(r, m)
    OBVIOUS
  <2>4. z = [textRead |-> t, toolCalls |-> AddedTo(l, m), done |-> FALSE]
    BY <1>3, <1>7, <2>3 DEF TakenLine
  <2>5. z.done = FALSE /\ z.textRead = t /\ z.toolCalls = AddedTo(l, m)
    BY <2>4
  <2>7. Collected(V, z, u)
    BY <1>1, <1>2, <1>5, <2>1, <2>2, <2>4, <2>5 DEF Collected
  <2> QED
    BY <1>7, <2>3, <2>5, <2>7
<1> QED
  BY <1>4, <1>6, <1>7 DEF Data

\* The calls of different indexes can be put in the order of the indexes.
InOrder(z, list, n) ==
  /\ z \in [1..n -> ToSet(list)]
  /\ ToSet(z) = ToSet(list)
  /\ \A i, j \in 1..n : i < j => z[i].index < z[j].index
Distinct(list) == \A i, j \in 1..Len(list) : list[i].index = list[j].index => i = j

\* Calls with different indices may be put in the order of their indices.
LEMMA OrderExists ==
  ASSUME NEW R, \A c \in R : c.index \in Nat, NEW list \in Seq(R), Distinct(list)
  PROVE  \E z : InOrder(z, list, Len(list))
<1> DEFINE T == {l \in Seq(R) : Distinct(l) => \E z : InOrder(z, l, Len(l))}
<1>1. <<>> \in T
  <2>1. PICK none \in Seq(R) : none = <<>> /\ Len(none) = 0
    <3>1. <<>> \in Seq(R) /\ Len(<<>>) = 0
      OBVIOUS
    <3> QED
      BY <3>1
  <2>2. InOrder(none, none, 0)
    <3>1. none \in [1..0 -> ToSet(none)]
      BY <2>1 DEF ToSet
    <3> QED
      BY <3>1 DEF InOrder
  <2>3. none \in T
    BY <2>1, <2>2
  <2> QED
    BY <2>1, <2>3
<1>2. ASSUME NEW l \in Seq(R), NEW x \in R, l \in T PROVE l \o <<x>> \in T
  <2>1. PICK n \in Nat, k \in Nat : n = Len(l) /\ k = n + 1
    OBVIOUS
  <2>2. PICK u \in Seq(R) : /\ u = l \o <<x>> /\ Len(u) = k /\ u[k] = x
                            /\ \A i \in 1..n : u[i] = l[i]
    <3>1. PICK u : IsOneMore(u, l, x)
      BY DEF IsOneMore
    <3>2. u \in Seq(R) /\ Len(u) = k /\ u[k] = x /\ \A i \in 1..n : u[i] = l[i]
      BY <2>1, <3>1, OneMoreFacts
    <3> QED
      BY <3>1, <3>2 DEF IsOneMore
  <2>3. SUFFICES ASSUME Distinct(u) PROVE \E z : InOrder(z, u, k)
    BY <2>2
  <2>4. \A i \in 1..n : i \in 1..k /\ i # k
    BY <2>1
  <2>5. Distinct(l)
    BY <2>1, <2>2, <2>3, <2>4 DEF Distinct
  <2>6. PICK z : InOrder(z, l, n)
    BY <1>2, <2>1, <2>5
  <2>7. \A i \in 1..n : l[i] \in R /\ l[i].index # x.index
    <3>1. \A i \in 1..n : u[i].index # u[k].index
      <4>1. k \in 1..k /\ Len(u) = k
        BY <2>1, <2>2
      <4> QED
        BY <2>3, <2>4, <4>1 DEF Distinct
    <3>2. \A i \in 1..n : l[i] \in R
      BY <2>1
    <3> QED
      BY <2>2, <3>1, <3>2
  <2>8. ToSet(l) = {l[i] : i \in 1..n} /\ ToSet(u) = {u[i] : i \in 1..k}
    <3>1. DOMAIN l = 1..n /\ DOMAIN u = 1..k
      BY <2>1, <2>2
    <3> QED
      BY <3>1 DEF ToSet
  <2>9. /\ \A i \in 1..n : z[i] \in ToSet(l) /\ z[i].index \in Nat /\ z[i].index # x.index
        /\ \A i, j \in 1..n : i < j => z[i].index < z[j].index
        /\ ToSet(l) = {z[i] : i \in 1..n} /\ x.index \in Nat
    <3>1. z \in [1..n -> ToSet(l)] /\ ToSet(z) = ToSet(l) /\ \A i, j \in 1..n : i < j => z[i].index < z[j].index
      BY <2>6 DEF InOrder
    <3>2. \A i \in 1..n : z[i] \in ToSet(l)
      BY <3>1
    <3>3. \A c \in ToSet(l) : c \in R /\ c.index # x.index
      BY <2>7, <2>8
    <3>4. ToSet(z) = {z[i] : i \in 1..n}
      <4>1. DOMAIN z = 1..n
        BY <3>1
      <4> QED
        BY <4>1 DEF ToSet
    <3> QED
      BY <3>1, <3>2, <3>3, <3>4
  <2>10. PICK q \in 0..n : /\ \A j \in 1..q : z[j].index < x.index
                           /\ q < n => x.index < z[q + 1].index
    <3> DEFINE B == {i \in 0..n : \A j \in 1..i : z[j].index < x.index}
    <3>1. 0 \in B /\ B \in SUBSET (0..n)
      OBVIOUS
    <3>2. PICK q \in B : \A i \in B : i <= q
      <4> HIDE DEF B
      <4> QED
        BY <3>1, GreatestNumber
    <3>3. q < n => x.index < z[q + 1].index
      <4>1. SUFFICES ASSUME q < n, ~(x.index < z[q + 1].index) PROVE FALSE
        OBVIOUS
      <4>2. q + 1 \in 1..n /\ z[q + 1].index < x.index
        BY <2>9, <4>1
      <4>3. \A j \in 1..(q + 1) : j \in 1..q \/ j = q + 1
        OBVIOUS
      <4>4. q + 1 \in B
        BY <4>2, <4>3
      <4>5. ~(q + 1 <= q)
        OBVIOUS
      <4> QED
        BY <3>2, <4>4, <4>5
    <3> QED
      BY <3>3
  <2>11. PICK y : y = [i \in 1..k |-> IF i <= q THEN z[i] ELSE IF i = q + 1 THEN x ELSE z[i - 1]]
    OBVIOUS
  <2>12. /\ \A i \in 1..q : i \in 1..n /\ i \in 1..k /\ y[i] = z[i]
         /\ q + 1 \in 1..k /\ y[q + 1] = x
         /\ \A i \in (q + 2)..k : i - 1 \in 1..n /\ i - 1 >= q + 1 /\ i \in 1..k /\ y[i] = z[i - 1]
         /\ \A i \in 1..k : i \in 1..q \/ i = q + 1 \/ i \in (q + 2)..k
    BY <2>1, <2>11
  <2>13. \A i \in (q + 2)..k : x.index < z[i - 1].index
    <3> TAKE i \in (q + 2)..k
    <3>1. q < n /\ x.index < z[q + 1].index /\ q + 1 \in 1..n
      BY <2>1, <2>10
    <3>2. CASE i - 1 = q + 1
      BY <3>1, <3>2
    <3>3. CASE i - 1 # q + 1
      <4>1. q + 1 < i - 1 /\ i - 1 \in 1..n
        <5>1. i - 1 \in 1..n /\ i - 1 >= q + 1 /\ i - 1 \in Int
          BY <2>1
        <5> QED
          BY <3>3, <5>1
      <4>2. z[q + 1].index < z[i - 1].index
        BY <2>9, <3>1, <4>1
      <4>3. z[i - 1].index \in Nat /\ z[q + 1].index \in Nat
        BY <2>9, <3>1, <4>1
      <4> QED
        BY <2>9, <3>1, <4>2, <4>3
    <3> QED
      BY <3>2, <3>3
  <2>14. ASSUME NEW i \in 1..k, NEW j \in 1..k, i < j PROVE y[i].index < y[j].index
    <3>1. CASE i \in 1..q /\ j \in 1..q
      BY <2>9, <2>12, <2>14, <3>1
    <3>2. CASE i \in 1..q /\ j = q + 1
      BY <2>10, <2>12, <3>2
    <3>3. CASE i \in 1..q /\ j \in (q + 2)..k
      <4>1. i < j - 1 /\ j - 1 \in 1..n /\ i \in 1..n
        BY <2>1, <3>3
      <4>2. z[i].index < z[j - 1].index
        BY <2>9, <4>1
      <4>3. y[i] = z[i] /\ y[j] = z[j - 1]
        BY <2>12, <3>3
      <4> QED
        BY <4>2, <4>3
    <3>4. CASE i = q + 1
      <4>1. j \in (q + 2)..k
        BY <2>14, <3>4
      <4> QED
        BY <2>12, <2>13, <3>4, <4>1
    <3>5. CASE i \in (q + 2)..k
      <4>1. j \in (q + 2)..k /\ i - 1 < j - 1 /\ i - 1 \in 1..n /\ j - 1 \in 1..n
        BY <2>1, <2>14, <3>5
      <4>2. z[i - 1].index < z[j - 1].index
        BY <2>9, <4>1
      <4>3. y[i] = z[i - 1] /\ y[j] = z[j - 1]
        BY <2>12, <3>5, <4>1
      <4> QED
        BY <4>2, <4>3
    <3>6. i \notin (q + 2)..k /\ i # q + 1 => i \in 1..q
      BY <2>12
    <3> QED
      BY <2>12, <3>1, <3>2, <3>3, <3>4, <3>5, <3>6
  <2>15. {y[i] : i \in 1..k} = {z[i] : i \in 1..n} \cup {x}
    <3>1. \A i \in 1..k : y[i] \in {z[j] : j \in 1..n} \cup {x}
      <4> TAKE i \in 1..k
      <4>1. CASE i \in 1..q
        BY <2>12, <4>1
      <4>2. CASE i = q + 1
        BY <2>12, <4>2
      <4>3. CASE i \in (q + 2)..k
        BY <2>12, <4>3
      <4> QED
        BY <2>12, <4>1, <4>2, <4>3
    <3>2. \A j \in 1..n : z[j] \in {y[i] : i \in 1..k}
      <4> TAKE j \in 1..n
      <4>1. CASE j <= q
        <5>1. j \in 1..q
          BY <4>1
        <5> QED
          BY <2>12, <5>1
      <4>2. CASE j > q
        <5>1. j + 1 \in (q + 2)..k /\ (j + 1) - 1 = j
          BY <2>1, <4>2
        <5>2. j + 1 \in 1..k /\ y[j + 1] = z[j]
          BY <2>12, <5>1
        <5> QED
          BY <5>2
      <4>3. j <= q \/ j > q
        BY <2>1
      <4> QED
        BY <4>1, <4>2, <4>3
    <3>3. x \in {y[i] : i \in 1..k}
      BY <2>12
    <3> QED
      BY <3>1, <3>2, <3>3
  <2>16. ToSet(u) = ToSet(l) \cup {x}
    <3>1. \A i \in 1..k : i \in 1..n \/ i = k
      BY <2>1
    <3>2. \A i \in 1..n : u[i] = l[i] /\ i \in 1..k
      BY <2>2, <2>4
    <3>3. k \in 1..k /\ u[k] = x
      BY <2>1, <2>2
    <3> QED
      BY <2>8, <3>1, <3>2, <3>3
  <2>17. ToSet(y) = {y[i] : i \in 1..k}
    <3>1. DOMAIN y = 1..k
      BY <2>11
    <3> QED
      BY <3>1 DEF ToSet
  <2>18. ToSet(y) = ToSet(u)
    BY <2>9, <2>15, <2>16, <2>17
  <2>19. y \in [1..k -> ToSet(u)]
    <3>1. \A i \in 1..k : y[i] \in ToSet(u)
      BY <2>17, <2>18
    <3> QED
      BY <2>11, <3>1
  <2>20. InOrder(y, u, k)
    BY <2>14, <2>18, <2>19 DEF InOrder
  <2> QED
    BY <2>20
<1>3. list \in T
  <2> HIDE DEF T
  <2> QED
    BY <1>1, <1>2, AllSequences
<1> QED
  BY <1>3

\* ByIndex does put them in order, and loses none.
LEMMA ByIndexIs ==
  ASSUME NEW R, \A c \in R : c.index \in Nat, NEW list \in Seq(R), Distinct(list)
  PROVE  InOrder(ByIndex(list), list, Len(list))
<1>1. PICK n : n = Len(list)
  OBVIOUS
<1>2. \E z : InOrder(z, list, n)
  BY <1>1, OrderExists
<1>3. ByIndex(list) = CHOOSE z \in [1..n -> ToSet(list)] :
                        /\ ToSet(z) = ToSet(list)
                        /\ \A i, j \in 1..n : i < j => z[i].index < z[j].index
  BY <1>1 DEF ByIndex
<1>4. \E z \in [1..n -> ToSet(list)] : /\ ToSet(z) = ToSet(list)
                                       /\ \A i, j \in 1..n : i < j => z[i].index < z[j].index
  BY <1>2, Zenon DEF InOrder
<1>5. PICK y : y = CHOOSE z \in [1..n -> ToSet(list)] :
                        /\ ToSet(z) = ToSet(list)
                        /\ \A i, j \in 1..n : i < j => z[i].index < z[j].index
  OBVIOUS
<1>6. /\ y \in [1..n -> ToSet(list)]
      /\ ToSet(y) = ToSet(list) /\ \A i, j \in 1..n : i < j => y[i].index < y[j].index
  BY <1>4, <1>5, Zenon
<1>7. ByIndex(list) = y
  BY <1>3, <1>5, Zenon
<1> QED
  BY <1>1, <1>6, <1>7, Zenon DEF InOrder

-----------------------------------------------------------------------------
(* Line after line *)

\* The records the agent may have while it takes the lines one after the other.
Readings(V) == [textRead : Seq({x.text : x \in V}), toolCalls : Seq(CallRecords(V)), done : BOOLEAN]

\* It has the lines s and the first k of these, of which it has taken i.
UpToDone(V, s, lines, r, k, i) ==
  /\ \E u : IsJoin(u, s, SubSeq(lines, 1, k)) /\ Collected(V, r, u)
  /\ \A j \in 1..k : lines[j].is # "done"
  /\ IF r.done THEN k < i /\ lines[k + 1].is = "done" ELSE k = i

LineByLine(V, f, base, lines, n) ==
  /\ f[0] = base
  /\ \A i \in 1..n : TakenLine(f[i - 1], lines[i]) \in Readings(V) => f[i] = TakenLine(f[i - 1], lines[i])

LEMMA CollectedIsReading ==
  ASSUME NEW V, NEW r, NEW s, Collected(V, r, s)
  PROVE  r \in Readings(V)
<1>1. /\ r.textRead \in Seq({x.text : x \in V}) /\ CallsOf(V, r.toolCalls, s) /\ r.done \in BOOLEAN
      /\ r = [textRead |-> r.textRead, toolCalls |-> r.toolCalls, done |-> r.done]
  BY DEF Collected
<1>2. r.toolCalls \in Seq(CallRecords(V))
  BY <1>1 DEF CallsOf
<1>3. PICK a, b, c : a = r.textRead /\ b = r.toolCalls /\ c = r.done
  OBVIOUS
<1>4. [textRead |-> a, toolCalls |-> b, done |-> c] \in Readings(V)
  BY <1>1, <1>2, <1>3 DEF Readings
<1> QED
  BY <1>1, <1>3, <1>4

\* The first members of a list, with one more of them.
LEMMA OneFurther ==
  ASSUME NEW V, NEW s \in Seq(V), NEW n \in Nat, n = Len(s), NEW k \in 0..n, k < n,
         NEW c \in Seq(V), NEW u, IsJoin(u, c, SubSeq(s, 1, k))
  PROVE  \E w : IsJoin(w, c, SubSeq(s, 1, k + 1)) /\ IsOneMore(w, u, s[k + 1]) /\ u \in Seq(V)
<1>1. PICK p \in Seq(V), q \in Seq(V), x \in V : p = SubSeq(s, 1, k) /\ q = SubSeq(s, 1, k + 1) /\ x = s[k + 1]
  <2>1. SubSeq(s, 1, k) \in Seq(V) /\ SubSeq(s, 1, k + 1) \in Seq(V) /\ s[k + 1] \in V
    OBVIOUS
  <2> QED
    BY <2>1
<1>2. q = p \o <<x>>
  BY <1>1
<1>3. c \o (p \o <<x>>) = (c \o p) \o <<x>>
  OBVIOUS
<1>4. u = c \o p
  BY <1>1 DEF IsJoin
<1>5. c \o p \in Seq(V)
  OBVIOUS
<1>6. PICK w : w = c \o q
  OBVIOUS
<1>7. IsJoin(w, c, q) /\ IsOneMore(w, u, x) /\ u \in Seq(V)
  BY <1>2, <1>3, <1>4, <1>5, <1>6 DEF IsJoin, IsOneMore
<1> QED
  BY <1>1, <1>7

DataOnly(V, lines, n) ==
  /\ lines \in Seq(V) /\ n = Len(lines)
  /\ \A i \in 1..n : lines[i].is \in Data /\ (lines[i].is = "call" => lines[i].index \in Nat)

AllTaken(V, s, lines, f, n) ==
  \A i \in 0..n : /\ i < n => f[i + 1] = TakenLine(f[i], lines[i + 1])
                  /\ \E k \in 0..i : UpToDone(V, s, lines, f[i], k, i)

\* The agent takes line after line, up to the one that ends the answer.
LEMMA EachLineTaken ==
  ASSUME NEW V, NEW s \in Seq(V), NEW base, Collected(V, base, s), ~base.done,
         NEW lines, NEW n \in Nat, DataOnly(V, lines, n),
         NEW f, LineByLine(V, f, base, lines, n)
  PROVE  AllTaken(V, s, lines, f, n)
<1>0. /\ f[0] = base
      /\ \A i \in 1..n : TakenLine(f[i - 1], lines[i]) \in Readings(V) => f[i] = TakenLine(f[i - 1], lines[i])
  BY DEF LineByLine
<1>00. /\ lines \in Seq(V) /\ n = Len(lines)
       /\ \A i \in 1..n : lines[i] \in V /\ lines[i].is \in Data /\ (lines[i].is = "call" => lines[i].index \in Nat)
  BY DEF DataOnly
<1> DEFINE T == {i \in 0..n : \E k \in 0..i : UpToDone(V, s, lines, f[i], k, i)}
<1>1. 0 \in T
  <2>1. SubSeq(lines, 1, 0) = <<>> /\ s \o <<>> = s
    BY <1>00
  <2>2. IsJoin(s, s, SubSeq(lines, 1, 0))
    BY <2>1 DEF IsJoin
  <2>3. UpToDone(V, s, lines, base, 0, 0)
    BY <2>2 DEF UpToDone
  <2> QED
    BY <1>0, <2>3
<1>2. ASSUME NEW i \in 0..n, i < n, i \in T
      PROVE  i + 1 \in T /\ f[i + 1] = TakenLine(f[i], lines[i + 1])
  <2>1. PICK k \in 0..i : UpToDone(V, s, lines, f[i], k, i)
    BY <1>2
  <2>2. PICK u : IsJoin(u, s, SubSeq(lines, 1, k)) /\ Collected(V, f[i], u)
    BY <2>1 DEF UpToDone
  <2>3. /\ \A j \in 1..k : lines[j].is # "done"
        /\ IF f[i].done THEN k < i /\ lines[k + 1].is = "done" ELSE k = i
    BY <2>1 DEF UpToDone
  <2>4. i + 1 \in 1..n /\ (i + 1) - 1 = i /\ i + 1 \in 0..n
    BY <1>2
  <2>5. PICK r : r = f[i]
    OBVIOUS
  <2>50. PICK m \in V : m = lines[i + 1]
    BY <1>00, <2>4
  <2>6. TakenLine(r, m) \in Readings(V) => f[i + 1] = TakenLine(r, m)
    BY <1>0, <2>4, <2>5, <2>50
  <2>7. m.is \in Data /\ (m.is = "call" => m.index \in Nat)
    BY <1>00, <2>4, <2>5, <2>50
  <2>8. CASE r.done
    <3>1. TakenLine(r, m) = r
      BY <2>8 DEF TakenLine
    <3>2. r \in Readings(V)
      BY <2>2, <2>5, <2>50, CollectedIsReading
    <3>3. f[i + 1] = r
      BY <2>6, <3>1, <3>2
    <3>4. k \in 0..(i + 1) /\ k < i + 1
      BY <1>2
    <3>5. UpToDone(V, s, lines, r, k, i + 1)
      BY <2>2, <2>3, <2>5, <2>50, <2>8, <3>4 DEF UpToDone
    <3>6. \E j \in 0..(i + 1) : UpToDone(V, s, lines, f[i + 1], j, i + 1)
      BY <3>3, <3>4, <3>5
    <3> QED
      BY <2>4, <2>5, <2>50, <3>1, <3>3, <3>6
  <2>9. CASE ~r.done
    <3>1. k = i
      BY <2>3, <2>5, <2>50, <2>9
    <3>2. PICK w : IsJoin(w, s, SubSeq(lines, 1, k + 1)) /\ IsOneMore(w, u, m) /\ u \in Seq(V)
      <4>1. k \in 0..n /\ k < n
        BY <1>2, <3>1
      <4>2. \E w : IsJoin(w, s, SubSeq(lines, 1, k + 1)) /\ IsOneMore(w, u, lines[k + 1]) /\ u \in Seq(V)
        BY <1>00, <2>2, <4>1, OneFurther
      <4> QED
        BY <2>5, <2>50, <3>1, <4>2
    <3>3. IF m.is = "done" THEN TakenLine(r, m).done /\ Collected(V, TakenLine(r, m), u)
          ELSE ~TakenLine(r, m).done /\ Collected(V, TakenLine(r, m), w)
      BY <2>2, <2>5, <2>50, <2>7, <2>9, <3>2, LineTaken
    <3>4. PICK t : t = TakenLine(r, m)
      OBVIOUS
    <3>5. t \in Readings(V)
      BY <3>3, <3>4, CollectedIsReading
    <3>6. f[i + 1] = t
      BY <2>6, <3>4, <3>5
    <3>7. CASE m.is = "done"
      <4>1. t.done /\ Collected(V, t, u) /\ k < i + 1 /\ k \in 0..(i + 1) /\ lines[k + 1].is = "done"
        BY <1>2, <2>5, <2>50, <3>1, <3>3, <3>4, <3>7
      <4>2. UpToDone(V, s, lines, t, k, i + 1)
        BY <2>2, <2>3, <4>1 DEF UpToDone
      <4> QED
        BY <2>4, <2>5, <2>50, <3>4, <3>6, <4>1, <4>2
    <3>8. CASE m.is # "done"
      <4>1. ~t.done /\ Collected(V, t, w) /\ k + 1 = i + 1 /\ k + 1 \in 0..(i + 1)
        BY <1>2, <3>1, <3>3, <3>4, <3>8
      <4>2. \A j \in 1..(k + 1) : lines[j].is # "done"
        <5>1. \A j \in 1..(k + 1) : j \in 1..k \/ j = k + 1
          OBVIOUS
        <5> QED
          BY <2>3, <2>5, <2>50, <3>1, <3>8, <5>1
      <4>3. UpToDone(V, s, lines, t, k + 1, i + 1)
        BY <3>2, <4>1, <4>2 DEF UpToDone
      <4> QED
        BY <2>4, <2>5, <2>50, <3>4, <3>6, <4>1, <4>3
    <3> QED
      BY <3>7, <3>8
  <2> QED
    BY <2>8, <2>9
<1>3. \A i \in 0..n : i \in T
  <2> HIDE DEF T
  <2> QED
    BY <1>1, <1>2, UpTo
<1> QED
  BY <1>2, <1>3 DEF AllTaken

\* All the lines taken: up to the first [DONE] or to their end.
LEMMA TakenLines ==
  ASSUME NEW V, NEW s \in Seq(V), NEW base,
         base = [textRead |-> textRead, toolCalls |-> toolCalls, done |-> FALSE],
         Collected(V, base, s), NEW lines, NEW n \in Nat, DataOnly(V, lines, n)
  PROVE  \E k \in 0..n : UpToDone(V, s, lines, Taken(lines), k, n)
<1>1. lines \in Seq(V) /\ n = Len(lines) /\ base.done = FALSE
  BY DEF DataOnly
<1> DEFINE Is(f) == f = [i \in 0..Len(lines) |->
                           IF i = 0 THEN [textRead |-> textRead, toolCalls |-> toolCalls, done |-> FALSE]
                           ELSE TakenLine(f[i - 1], lines[i])]
<1>2. ASSUME NEW f
      PROVE  Is(f) <=> f = [i \in 0..n |-> IF i = 0 THEN base ELSE TakenLine(f[i - 1], lines[i])]
  BY <1>1
<1>3. Taken(lines) = (CHOOSE f : Is(f))[n]
  BY <1>1 DEF Taken
<1>4. PICK A : A = Readings(V)
  OBVIOUS
<1>5. base \in A
  BY <1>4, CollectedIsReading
<1>6. PICK C \in [0..n -> [A -> A]] :
        \A i \in 0..n : \A r \in A : TakenLine(r, lines[i]) \in A => C[i][r] = TakenLine(r, lines[i])
  <2> DEFINE D == [i \in 0..n |-> [r \in A |-> IF TakenLine(r, lines[i]) \in A THEN TakenLine(r, lines[i])
                                               ELSE base]]
  <2>1. D \in [0..n -> [A -> A]]
    BY <1>5
  <2>2. \A i \in 0..n : \A r \in A : TakenLine(r, lines[i]) \in A => D[i][r] = TakenLine(r, lines[i])
    OBVIOUS
  <2> HIDE DEF D
  <2> QED
    BY <2>1, <2>2
<1>7. PICK f \in [0..n -> A] : Steps(f, n, base, C)
  BY <1>5, StepsExist
<1>8. LineByLine(V, f, base, lines, n)
  <2>1. f[0] = base /\ \A i \in 1..n : f[i] = C[i][f[i - 1]]
    BY <1>7 DEF Steps
  <2>2. ASSUME NEW i \in 1..n, TakenLine(f[i - 1], lines[i]) \in A
        PROVE  f[i] = TakenLine(f[i - 1], lines[i])
    <3>1. i \in 0..n /\ i - 1 \in 0..n
      OBVIOUS
    <3>2. PICK r \in A : r = f[i - 1]
      BY <1>7, <3>1
    <3> QED
      BY <1>6, <2>1, <2>2, <3>1, <3>2
  <2> QED
    BY <1>4, <2>1, <2>2 DEF LineByLine
<1>9. Is(f)
  <2>1. \A i \in 0..n : i < n => f[i + 1] = TakenLine(f[i], lines[i + 1])
    <3>1. AllTaken(V, s, lines, f, n)
      BY <1>1, <1>8, EachLineTaken
    <3> QED
      BY <3>1 DEF AllTaken
  <2>2. f[0] = base
    BY <1>7 DEF Steps
  <2>3. ASSUME NEW i \in 0..n PROVE f[i] = IF i = 0 THEN base ELSE TakenLine(f[i - 1], lines[i])
    <3>1. CASE i = 0
      BY <2>2, <3>1
    <3>2. CASE i # 0
      <4>1. PICK j \in 0..n : j = i - 1 /\ j < n /\ i = j + 1
        BY <3>2
      <4> QED
        BY <2>1, <3>2, <4>1
    <3> QED
      BY <3>1, <3>2
  <2>4. f = [i \in 0..n |-> IF i = 0 THEN base ELSE TakenLine(f[i - 1], lines[i])]
    BY <1>7, <2>3
  <2> HIDE DEF Is
  <2> QED
    BY <1>2, <2>4
<1>10. PICK g : g = CHOOSE h : Is(h)
  OBVIOUS
<1>11. g = [i \in 0..n |-> IF i = 0 THEN base ELSE TakenLine(g[i - 1], lines[i])]
  <2> HIDE DEF Is
  <2>1. Is(g)
    BY <1>9, <1>10, Zenon
  <2> QED
    BY <1>2, <2>1
<1>12. LineByLine(V, g, base, lines, n)
  <2>1. \A i \in 0..n : g[i] = IF i = 0 THEN base ELSE TakenLine(g[i - 1], lines[i])
    BY <1>11
  <2>2. \A i \in 1..n : i \in 0..n /\ i # 0
    OBVIOUS
  <2>3. 0 \in 0..n
    OBVIOUS
  <2> QED
    BY <2>1, <2>2, <2>3 DEF LineByLine
<1>13. \A i \in 0..n : \E k \in 0..i : UpToDone(V, s, lines, g[i], k, i)
  <2>1. AllTaken(V, s, lines, g, n)
    BY <1>1, <1>12, EachLineTaken
  <2> QED
    BY <2>1 DEF AllTaken
<1> HIDE DEF Is
<1>14. n \in 0..n /\ Taken(lines) = g[n]
  BY <1>3, <1>10
<1> QED
  BY <1>13, <1>14

-----------------------------------------------------------------------------
(* Carriage returns, and what is for the agent *)

\* The agent has the first k of the data lines of what it has read: all, or those before [DONE].
AgentReached(V, x, b, r, d, k) ==
  /\ HasRead(V, x, d, b)
  /\ k \in 0..Len(DataLines(d))
  /\ Collected(V, r, SubSeq(DataLines(d), 1, k))
  /\ \A i \in 1..k : DataLines(d)[i].is # "done"
  /\ IF r.done THEN k < Len(DataLines(d)) /\ DataLines(d)[k + 1].is = "done"
     ELSE k = Len(DataLines(d))

WellMarked(V) == \A m \in V : m.is = "call" => m.index \in Nat

\* Data lines are among the lines, and are data lines only.
LEMMA DataFacts ==
  ASSUME NEW V, WellMarked(V), NEW s \in Seq(V)
  PROVE  /\ DataLines(s) \in Seq(V) /\ Len(DataLines(s)) \in Nat
         /\ DataOnly(V, DataLines(s), Len(DataLines(s)))
<1>1. PICK d : d = OfKind(s, Data)
  OBVIOUS
<1>2. d \in Seq(V)
  <2>1. IsJoin(s, s, <<>>) /\ <<>> \in Seq(V)
    <3>1. s \o <<>> = s /\ <<>> \in Seq(V)
      OBVIOUS
    <3> QED
      BY <3>1 DEF IsJoin
  <2> QED
    BY <1>1, <2>1, OfKindJoin
<1>3. \A i \in 1..Len(d) : d[i].is \in Data
  <2>1. \A i \in 1..Len(OfKind(s, Data)) : OfKind(s, Data)[i].is \in Data
    BY OfKindOfKind
  <2> QED
    BY <1>1, <2>1
<1>4. \A i \in 1..Len(d) : d[i] \in V
  BY <1>2
<1>5. DataOnly(V, d, Len(d)) /\ Len(d) \in Nat
  BY <1>2, <1>3, <1>4 DEF DataOnly, WellMarked
<1> QED
  BY <1>1, <1>2, <1>5 DEF DataLines

\* Carriage returns are dropped from pieces as they are from the whole, and data lines stay.
LEMMA StrippedFacts ==
  ASSUME NEW V, NEW s \in Seq(V), NEW t \in Seq(V), NEW u, IsJoin(u, s, t)
  PROVE  /\ IsJoin(Stripped(u), Stripped(s), Stripped(t))
         /\ Stripped(s) \in Seq(V) /\ Stripped(t) \in Seq(V) /\ Stripped(u) \in Seq(V)
         /\ DataLines(Stripped(u)) = DataLines(u)
<1>1. /\ IsJoin(OfKind(u, Plain), OfKind(s, Plain), OfKind(t, Plain))
      /\ OfKind(s, Plain) \in Seq(V) /\ OfKind(t, Plain) \in Seq(V) /\ OfKind(u, Plain) \in Seq(V)
  BY OfKindJoin
<1>2. u \in Seq(V)
  BY JoinFacts
<1>3. Data \subseteq Plain
  BY DEF Plain
<1>4. OfKind(OfKind(u, Plain), Data) = OfKind(u, Data)
  BY <1>2, <1>3, OfKindOfKind
<1> QED
  BY <1>1, <1>4 DEF Stripped, DataLines

\* A piece more: the agent takes what is complete now.
LEMMA AgentReadsOn ==
  ASSUME NEW V, WellMarked(V), NEW x, NEW c, NEW k, NEW b, NEW base,
         base = [textRead |-> textRead, toolCalls |-> toolCalls, done |-> FALSE],
         AgentReached(V, x, b, base, c, k),
         NEW p \in Seq(V), NEW q, IsJoin(q, x, p), NEW a, IsJoin(a, b, p)
  PROVE  \E d, l : AgentReached(V, q, Incomplete(a), Taken(DataLines(Complete(a))), d, l)
<1>1. /\ HasRead(V, x, c, b) /\ k = Len(DataLines(c))
      /\ Collected(V, base, SubSeq(DataLines(c), 1, k))
      /\ \A i \in 1..k : DataLines(c)[i].is # "done"
  BY DEF AgentReached
<1>2. PICK d : IsJoin(d, c, Complete(a))
  BY DEF IsJoin
<1>3. /\ HasRead(V, q, d, Incomplete(a)) /\ Complete(a) \in Seq(V)
      /\ IsJoin(DataLines(d), DataLines(c), DataLines(Complete(a)))
  BY <1>1, <1>2, ReadOn
<1>4. PICK old, lines, all : old = DataLines(c) /\ lines = DataLines(Complete(a)) /\ all = DataLines(d)
  OBVIOUS
<1>5. /\ old \in Seq(V) /\ lines \in Seq(V) /\ all \in Seq(V)
      /\ DataOnly(V, lines, Len(lines)) /\ IsJoin(all, old, lines)
  <2>1. c \in Seq(V) /\ d \in Seq(V)
    BY <1>1, <1>3 DEF HasRead
  <2> QED
    BY <1>3, <1>4, <2>1, DataFacts
<1>6. PICK n \in Nat, m \in Nat : n = Len(old) /\ m = Len(lines) /\ k = n
  BY <1>1, <1>4, <1>5
<1>7. Collected(V, base, old)
  <2>1. SubSeq(old, 1, n) = old
    BY <1>5, <1>6
  <2> QED
    BY <1>1, <1>4, <1>6, <2>1
<1>8. PICK j \in 0..m : UpToDone(V, old, lines, Taken(lines), j, m)
  BY <1>5, <1>6, <1>7, TakenLines
<1>9. PICK r : r = Taken(lines)
  OBVIOUS
<1>10. PICK u : IsJoin(u, old, SubSeq(lines, 1, j)) /\ Collected(V, r, u)
  BY <1>8, <1>9 DEF UpToDone
<1>11. /\ \A i \in 1..j : lines[i].is # "done"
       /\ IF r.done THEN j < m /\ lines[j + 1].is = "done" ELSE j = m
  BY <1>8, <1>9 DEF UpToDone
<1>12. PICK l \in Nat : l = n + j
  OBVIOUS
<1>13. u = SubSeq(all, 1, l)
  BY <1>5, <1>6, <1>10, <1>12, JoinMiddle
<1>14. /\ Len(all) = n + m /\ (\A i \in 1..n : all[i] = old[i])
       /\ \A i \in 1..m : all[n + i] = lines[i]
  BY <1>5, <1>6, JoinFacts
<1>15. ASSUME NEW i \in 1..l PROVE all[i].is # "done"
  <2>1. CASE i <= n
    BY <1>1, <1>4, <1>6, <1>14, <2>1
  <2>2. CASE i > n
    <3>1. PICK h \in 1..j : i = n + h
      <4>1. i - n \in 1..j /\ i = n + (i - n)
        BY <1>12, <2>2
      <4> QED
        BY <4>1
    <3>2. all[n + h] = lines[h]
      BY <1>14
    <3> QED
      BY <1>11, <3>1, <3>2
  <2> QED
    BY <1>12, <2>1, <2>2
<1>16. IF r.done THEN l < Len(all) /\ all[l + 1].is = "done" ELSE l = Len(all)
  <2>1. CASE r.done
    <3>1. j + 1 \in 1..m /\ n + (j + 1) = l + 1 /\ l < n + m
      <4>1. j < m
        BY <1>11, <2>1, Zenon
      <4> QED
        BY <1>12, <4>1
    <3>2. all[n + (j + 1)] = lines[j + 1]
      BY <1>14, <3>1
    <3> QED
      BY <1>11, <1>14, <2>1, <3>1, <3>2
  <2>2. CASE ~r.done
    BY <1>11, <1>12, <1>14, <2>2
  <2> QED
    BY <2>1, <2>2
<1>17. l \in 0..Len(all)
  BY <1>12, <1>14
<1>18. AgentReached(V, q, Incomplete(a), r, d, l)
  BY <1>3, <1>4, <1>10, <1>13, <1>15, <1>16, <1>17 DEF AgentReached
<1> QED
  BY <1>4, <1>9, <1>18

\* What is read first stays first of all that comes, and closed if it is.
LEMMA ReadIsPart ==
  ASSUME NEW V, WellMarked(V), NEW r \in Seq(V), NEW z \in Seq(V), IsJoin(bytes, r, z),
         NEW d, NEW b, HasRead(V, Stripped(r), d, b)
  PROVE  /\ Lines \in Seq(V) /\ Closed \in Seq(V) /\ DataLines(d) \in Seq(V)
         /\ Len(DataLines(d)) <= Len(Closed) /\ Len(Closed) <= Len(Lines)
         /\ \A i \in 1..Len(DataLines(d)) : Lines[i] = DataLines(d)[i]
         /\ z = <<>> => Closed = DataLines(d)
<1>1. PICK x, y, s : x = Stripped(r) /\ y = Stripped(z) /\ s = Stripped(bytes)
  OBVIOUS
<1>2. /\ IsJoin(s, x, y) /\ x \in Seq(V) /\ y \in Seq(V) /\ s \in Seq(V)
      /\ DataLines(s) = Lines
  BY <1>1, StrippedFacts DEF Lines
<1>3. PICK a, e : IsJoin(a, b, y) /\ IsJoin(e, d, Complete(a))
  BY DEF IsJoin
<1>4. /\ HasRead(V, s, e, Incomplete(a)) /\ Complete(a) \in Seq(V)
      /\ IsJoin(DataLines(e), DataLines(d), DataLines(Complete(a)))
  BY <1>1, <1>2, <1>3, ReadOn
<1>5. /\ DataLines(Complete(s)) = DataLines(e)
      /\ IsJoin(DataLines(s), DataLines(e), DataLines(Incomplete(a)))
      /\ DataLines(e) \in Seq(V) /\ DataLines(Incomplete(a)) \in Seq(V)
  BY <1>4, ReadData
<1>6. DataLines(d) \in Seq(V) /\ DataLines(Complete(a)) \in Seq(V)
  <2>1. d \in Seq(V)
    BY DEF HasRead
  <2> QED
    BY <1>4, <2>1, DataFacts
<1>7. Closed = DataLines(e)
  BY <1>1, <1>5 DEF Closed, Stripped
<1>8. PICK n \in Nat, m \in Nat, o \in Nat :
        n = Len(DataLines(d)) /\ m = Len(DataLines(Complete(a))) /\ o = Len(DataLines(Incomplete(a)))
  BY <1>5, <1>6
<1>9. Len(Closed) = n + m /\ \A i \in 1..n : Closed[i] = DataLines(d)[i]
  BY <1>4, <1>6, <1>7, <1>8, JoinFacts
<1>10. /\ Lines \in Seq(V) /\ Len(Lines) = Len(Closed) + o
       /\ \A i \in 1..Len(Closed) : Lines[i] = Closed[i]
  BY <1>2, <1>5, <1>7, <1>8, JoinFacts
<1>11. \A i \in 1..n : Lines[i] = DataLines(d)[i]
  BY <1>9, <1>10
<1>12. ASSUME z = <<>> PROVE Closed = DataLines(d)
  <2>1. PICK none \in Seq(V) : none = <<>>
    BY <1>12
  <2>2. y = <<>>
    <3>1. OfKind(none, Plain) = <<>>
      <4>1. CASE V = {}
        <5>1. \A w \in Seq(V) : w = <<>>
          <6> TAKE w \in Seq(V)
          <6>1. Len(w) = 0
            BY <4>1
          <6> QED
            BY <6>1
        <5> QED
          BY <1>1, <1>2, <1>12, <2>1, <5>1 DEF Stripped
      <4>2. CASE V # {}
        <5>1. PICK v \in V : TRUE
          BY <4>2
        <5>2. OfKind(<<>>, Plain) = <<>>
          BY <5>1, OfKindOne
        <5> QED
          BY <2>1, <5>2
      <4> QED
        BY <4>1, <4>2
    <3> QED
      BY <1>1, <1>12, <2>1, <3>1 DEF Stripped
  <2>3. a = b
    <3>1. b \in Seq(V)
      BY DEF HasRead
    <3>2. b \o <<>> = b
      BY <3>1
    <3> QED
      BY <1>3, <2>2, <3>2 DEF IsJoin
  <2>4. Complete(a) = <<>>
    BY <2>3 DEF HasRead, Complete
  <2>5. e = d
    <3>1. d \in Seq(V)
      BY DEF HasRead
    <3>2. d \o <<>> = d
      BY <3>1
    <3> QED
      BY <1>3, <2>4, <3>2 DEF IsJoin
  <2> QED
    BY <1>7, <2>5
<1>13. n <= Len(Closed) /\ Len(Closed) <= Len(Lines)
  BY <1>9, <1>10
<1> QED
  BY <1>5, <1>6, <1>7, <1>8, <1>10, <1>11, <1>12, <1>13

\* What the agent has of the stream when it returns is what it should have.
LEMMA ForAgentIs ==
  ASSUME NEW V, WellMarked(V), NEW r \in Seq(V), NEW z \in Seq(V), IsJoin(bytes, r, z),
         NEW b, NEW res, NEW d, NEW k, AgentReached(V, Stripped(r), b, res, d, k),
         res.done \/ z = <<>>
  PROVE  Collected(V, res, ForAgent)
<1>1. PICK lines : lines = DataLines(d)
  OBVIOUS
<1>2. /\ HasRead(V, Stripped(r), d, b) /\ k \in 0..Len(lines)
      /\ Collected(V, res, SubSeq(lines, 1, k)) /\ (\A i \in 1..k : lines[i].is # "done")
      /\ IF res.done THEN k < Len(lines) /\ lines[k + 1].is = "done" ELSE k = Len(lines)
  BY <1>1 DEF AgentReached
<1>3. PICK all \in Seq(V), closed \in Seq(V), n \in Nat, m \in Nat, o \in Nat :
        /\ all = Lines /\ closed = Closed /\ n = Len(lines) /\ m = Len(closed) /\ o = Len(all)
        /\ lines \in Seq(V) /\ n <= m /\ m <= o /\ (\A i \in 1..n : all[i] = lines[i])
        /\ z = <<>> => closed = lines
  <2>1. /\ Lines \in Seq(V) /\ Closed \in Seq(V) /\ DataLines(d) \in Seq(V)
        /\ Len(DataLines(d)) <= Len(Closed) /\ Len(Closed) <= Len(Lines)
        /\ (\A i \in 1..Len(DataLines(d)) : Lines[i] = DataLines(d)[i])
        /\ z = <<>> => Closed = DataLines(d)
    BY <1>2, ReadIsPart
  <2>2. PICK all, closed : all = Lines /\ closed = Closed
    OBVIOUS
  <2>3. /\ all \in Seq(V) /\ closed \in Seq(V) /\ lines \in Seq(V)
        /\ Len(lines) <= Len(closed) /\ Len(closed) <= Len(all)
        /\ (\A i \in 1..Len(lines) : all[i] = lines[i])
        /\ z = <<>> => closed = lines
    BY <1>1, <2>1, <2>2
  <2>4. PICK n \in Nat, m \in Nat, o \in Nat : n = Len(lines) /\ m = Len(closed) /\ o = Len(all)
    BY <2>3
  <2> QED
    BY <2>2, <2>3, <2>4
<1>4. k \in Nat /\ k <= n
  BY <1>2, <1>3
<1>5. SubSeq(all, 1, k) = SubSeq(lines, 1, k)
  <2>1. PICK p \in Seq(V), q \in Seq(V) :
        /\ p = SubSeq(all, 1, k) /\ q = SubSeq(lines, 1, k) /\ Len(p) = k /\ Len(q) = k
        /\ \A i \in 1..k : p[i] = all[i] /\ q[i] = lines[i]
    <3>1. SubSeq(all, 1, k) \in Seq(V) /\ SubSeq(lines, 1, k) \in Seq(V)
      BY <1>3, <1>4
    <3>2. Len(SubSeq(all, 1, k)) = k /\ Len(SubSeq(lines, 1, k)) = k
      BY <1>3, <1>4
    <3>3. \A i \in 1..k : SubSeq(all, 1, k)[i] = all[i] /\ SubSeq(lines, 1, k)[i] = lines[i]
      BY <1>3, <1>4
    <3> QED
      BY <3>1, <3>2, <3>3
  <2>2. \A i \in 1..Len(p) : p[i] = q[i]
    BY <1>3, <1>4, <2>1
  <2>3. p = q
    BY <2>1, <2>2, SameSequence
  <2> QED
    BY <2>1, <2>3
<1>6. (\E h \in ToSet(all) : h.is = "done") <=> \E i \in 1..o : all[i].is = "done"
  <2>1. DOMAIN all = 1..o
    BY <1>3
  <2> QED
    BY <2>1 DEF ToSet
<1>7. PICK before \in Seq(V), j \in Nat :
        before = BeforeDone /\ before = SubSeq(all, 1, j) /\ k <= j /\ j <= o /\ (res.done => j = k)
  <2>1. CASE \E i \in 1..o : all[i].is = "done"
    <3>1. PICK f \in 1..o : all[f].is = "done" /\ \A i \in 1..(f - 1) : all[i].is # "done"
      <4> DEFINE D == {i \in 1..o : all[i].is = "done"}
      <4>1. D \in SUBSET Nat /\ D # {}
        <5>1. PICK i \in 1..o : all[i].is = "done"
          BY <2>1
        <5>2. i \in D
          BY <5>1
        <5>3. \A h \in 1..o : h \in Nat
          OBVIOUS
        <5> QED
          BY <5>2, <5>3
      <4>2. PICK f \in D : \A i \in D : f <= i
        <5> HIDE DEF D
        <5> QED
          BY <4>1, LeastNumber
      <4>3. f \in 1..o /\ all[f].is = "done"
        BY <4>2
      <4>4. ASSUME NEW i \in 1..(f - 1) PROVE all[i].is # "done"
        <5>1. i \in 1..o /\ ~(f <= i)
          BY <4>3
        <5> QED
          BY <4>2, <5>1
      <4> QED
        BY <4>3, <4>4
    <3>2. ASSUME NEW g \in 1..o, all[g].is = "done", \A i \in 1..(g - 1) : all[i].is # "done"
          PROVE  g = f
      <4>1. ~(g < f)
        BY <3>1, <3>2
      <4>2. ~(f < g)
        BY <3>1, <3>2
      <4> QED
        BY <4>1, <4>2
    <3>3. f = CHOOSE i \in 1..o : all[i].is = "done" /\ \A h \in 1..(i - 1) : all[h].is # "done"
      BY <3>1, <3>2
    <3>4. BeforeDone = SubSeq(all, 1, f - 1)
      BY <1>3, <1>6, <2>1, <3>3 DEF BeforeDone
    <3>5. ~(f <= k)
      <4>1. SUFFICES ASSUME f <= k PROVE FALSE
        OBVIOUS
      <4>2. f \in 1..k /\ f \in 1..n
        BY <1>4, <4>1
      <4> QED
        BY <1>2, <1>3, <3>1, <4>2
    <3>6. res.done => f = k + 1
      <4>1. SUFFICES ASSUME res.done, f # k + 1 PROVE FALSE
        OBVIOUS
      <4>2. k + 1 \in 1..(f - 1) /\ k + 1 \in 1..n /\ lines[k + 1].is = "done"
        BY <1>2, <1>3, <1>4, <3>5, <4>1
      <4> QED
        BY <1>3, <3>1, <4>2
    <3>7. PICK j \in Nat : j = f - 1 /\ k <= j /\ j <= o /\ (res.done => j = k)
      BY <1>4, <3>5, <3>6
    <3>8. SubSeq(all, 1, j) \in Seq(V)
      BY <1>3, <3>7
    <3> QED
      BY <3>4, <3>7, <3>8
  <2>2. CASE ~\E i \in 1..o : all[i].is = "done"
    <3>1. BeforeDone = all
      BY <1>3, <1>6, <2>2 DEF BeforeDone
    <3>2. all = SubSeq(all, 1, o) /\ k <= o
      BY <1>3, <1>4
    <3>3. ~res.done
      <4>1. SUFFICES ASSUME res.done PROVE FALSE
        OBVIOUS
      <4>2. k + 1 \in 1..n /\ k + 1 \in 1..o /\ lines[k + 1].is = "done"
        BY <1>2, <1>3, <1>4, <4>1
      <4> QED
        BY <1>3, <2>2, <4>2
    <3> QED
      BY <3>1, <3>2, <3>3
  <2> QED
    BY <2>1, <2>2
<1>8. Len(before) = j
  BY <1>3, <1>7
<1>9. ForAgent = SubSeq(before, 1, k)
  <2>1. (IF m < j THEN m ELSE j) = k
    <3>1. CASE res.done
      BY <1>2, <1>3, <1>7, <3>1
    <3>2. CASE ~res.done
      BY <1>2, <1>3, <1>4, <1>7, <3>2
    <3> QED
      BY <3>1, <3>2
  <2> QED
    BY <1>3, <1>7, <1>8, <2>1 DEF ForAgent
<1>10. SubSeq(before, 1, k) = SubSeq(all, 1, k)
  <2>1. PICK p \in Seq(V), q \in Seq(V) :
        /\ p = SubSeq(all, 1, k) /\ q = SubSeq(before, 1, k) /\ Len(p) = k /\ Len(q) = k
        /\ \A i \in 1..k : p[i] = all[i] /\ q[i] = before[i]
    <3>1. SubSeq(all, 1, k) \in Seq(V) /\ SubSeq(before, 1, k) \in Seq(V)
      BY <1>3, <1>4, <1>7, <1>8
    <3>2. Len(SubSeq(all, 1, k)) = k /\ Len(SubSeq(before, 1, k)) = k
      BY <1>3, <1>4, <1>7, <1>8
    <3>3. \A i \in 1..k : SubSeq(all, 1, k)[i] = all[i] /\ SubSeq(before, 1, k)[i] = before[i]
      BY <1>3, <1>4, <1>7, <1>8
    <3> QED
      BY <3>1, <3>2, <3>3
  <2>2. \A i \in 1..j : before[i] = all[i]
    BY <1>3, <1>7
  <2>3. \A i \in 1..Len(p) : p[i] = q[i]
    BY <1>4, <1>7, <2>1, <2>2
  <2>4. p = q
    BY <2>1, <2>3, SameSequence
  <2> QED
    BY <2>1, <2>4
<1>11. ForAgent = SubSeq(lines, 1, k)
  BY <1>5, <1>9, <1>10
<1> QED
  BY <1>2, <1>11

-----------------------------------------------------------------------------
(* The invariant of the stream *)

Reading == [textRead |-> textRead, toolCalls |-> toolCalls, done |-> FALSE]

\* What has been read, and what of it each reader has.
VoiceHas(V, r) == \E c : HasRead(V, r, c, voiceBuf) /\ yielded = DataLines(c)
AgentHas(V, r) == \E d, k : AgentReached(V, Stripped(r), agentBuf, Reading, d, k)
SoFar(V, r) == r \in Seq(V) /\ unread \in Seq(V) /\ IsJoin(bytes, r, unread)
EventRead(V, r) ==
  /\ SoFar(V, r)
  /\ voiceRead = "reading" => VoiceHas(V, r)
  /\ agentRead = "reading" => AgentHas(V, r)
EventInv ==
  /\ bytes \in Bytes
  /\ agentRead \in {"reading", "returned", "failed"} /\ voiceRead \in {"reading", "ended", "failed"}
  /\ agentRead = "reading" => voiceRead = "reading"
  /\ \E V, r : V = ToSet(bytes) /\ EventRead(V, r)
  /\ AgentPutsTogether /\ VoiceHasAll

PutTogether(s, t, l) ==
  /\ t = TextsOf(s)
  /\ \A i \in 1..Len(l) :
       /\ l[i].args = ArgsOf(s, l[i].index)
       /\ i > 1 => l[i - 1].index < l[i].index
  /\ \A m \in ToSet(s) : m.is = "call" => \E c \in ToSet(l) : c.index = m.index

\* The assumption on the streams, for the one of this behaviour.
LEMMA BytesFacts ==
  ASSUME bytes \in Bytes
  PROVE  bytes \in Seq(ToSet(bytes)) /\ WellMarked(ToSet(bytes))
<1>1. bytes \in Seq(ToSet(bytes)) /\ \A i \in 1..Len(bytes) : bytes[i].is = "call" => bytes[i].index \in Nat
  BY EventStreamAssumption
<1>2. DOMAIN bytes = 1..Len(bytes)
  BY <1>1
<1>3. \A m \in ToSet(bytes) : \E i \in 1..Len(bytes) : m = bytes[i]
  BY <1>2 DEF ToSet
<1> QED
  BY <1>1, <1>3 DEF WellMarked

\* Calls in the order of their indexes are what was to be put together.
LEMMA OrderedIsTogether ==
  ASSUME NEW V, NEW s, NEW res, Collected(V, res, s)
  PROVE  PutTogether(s, res.textRead, ByIndex(res.toolCalls))
<1>1. PICK list, R : list = res.toolCalls /\ R = CallRecords(V)
  OBVIOUS
<1>2. s \in Seq(V) /\ res.textRead = TextsOf(s) /\ CallsOf(V, list, s)
  BY <1>1 DEF Collected
<1>3. /\ list \in Seq(R) /\ Distinct(list)
      /\ \A i \in 1..Len(list) : list[i].args = ArgsOf(s, list[i].index)
      /\ \A i \in 1..Len(s) : s[i].is = "call" => \E j \in 1..Len(list) : list[j].index = s[i].index
  BY <1>1, <1>2 DEF CallsOf, Distinct
<1>4. \A c \in R : c.index \in Nat
  BY <1>1 DEF CallRecords
<1>5. PICK n \in Nat, z \in {ByIndex(list)} : n = Len(list) /\ z = ByIndex(list)
  BY <1>3
<1>6. InOrder(z, list, n)
  BY <1>3, <1>4, <1>5, ByIndexIs
<1>7. /\ z \in [1..n -> ToSet(list)] /\ ToSet(z) = ToSet(list)
      /\ \A i, j \in 1..n : i < j => z[i].index < z[j].index
  BY <1>6 DEF InOrder
<1>8. Len(z) = n /\ DOMAIN list = 1..n /\ DOMAIN s = 1..Len(s)
  BY <1>2, <1>3, <1>5, <1>7
<1>9. ToSet(list) = {list[i] : i \in 1..n} /\ ToSet(s) = {s[i] : i \in 1..Len(s)}
  BY <1>8 DEF ToSet
<1>10. ASSUME NEW i \in 1..n PROVE z[i].args = ArgsOf(s, z[i].index)
  <2>1. z[i] \in {list[j] : j \in 1..n}
    BY <1>7, <1>9
  <2>2. PICK j \in 1..n : z[i] = list[j]
    BY <2>1
  <2> QED
    BY <1>3, <1>5, <2>2
<1>11. ASSUME NEW i \in 1..n, i > 1 PROVE z[i - 1].index < z[i].index
  <2>1. i - 1 \in 1..n /\ i - 1 < i
    BY <1>11
  <2> QED
    BY <1>7, <2>1
<1>12. ASSUME NEW m \in ToSet(s), m.is = "call" PROVE \E c \in ToSet(z) : c.index = m.index
  <2>1. PICK i \in 1..Len(s) : m = s[i]
    BY <1>9
  <2>2. PICK j \in 1..n : list[j].index = m.index
    BY <1>3, <1>5, <1>12, <2>1
  <2>3. list[j] \in ToSet(z)
    BY <1>7, <1>9
  <2> QED
    BY <2>2, <2>3
<1> QED
  BY <1>1, <1>2, <1>5, <1>8, <1>10, <1>11, <1>12 DEF PutTogether

\* What AgentPutsTogether says, with PutTogether.
LEMMA AgentDone ==
  AgentPutsTogether <=> (agentRead = "returned" => PutTogether(ForAgent, textRead, toolCalls))
BY DEF AgentPutsTogether, PutTogether

LEMMA EventsStart == EventsInit => EventInv
<1> SUFFICES ASSUME EventsInit PROVE EventInv
  OBVIOUS
<1>1. /\ bytes \in Bytes /\ unread = bytes /\ agentBuf = <<>> /\ textRead = <<>> /\ toolCalls = <<>>
      /\ voiceBuf = <<>> /\ yielded = <<>> /\ agentRead = "reading" /\ voiceRead = "reading"
  BY DEF EventsInit
<1>2. PICK V : V = ToSet(bytes) /\ bytes \in Seq(V)
  BY <1>1, BytesFacts
<1>3. PICK none \in Seq(V) : none = <<>> /\ Len(none) = 0
  <2>1. <<>> \in Seq(V) /\ Len(<<>>) = 0
    OBVIOUS
  <2> QED
    BY <2>1
<1>4. \A w \in Seq(V) : Len(w) = 0 => w = none
  BY <1>3
<1>5. \A kinds : OfKind(none, kinds) = none
  <2> TAKE kinds
  <2>1. CASE V = {}
    <3>1. \A w \in Seq(V) : Len(w) = 0
      BY <2>1
    <3>2. none = none \o none
      BY <1>3
    <3>3. IsJoin(none, none, none)
      BY <3>2 DEF IsJoin
    <3>4. OfKind(none, kinds) \in Seq(V)
      BY <3>3, OfKindJoin
    <3> QED
      BY <1>4, <3>1, <3>4
  <2>2. CASE V # {}
    <3>1. PICK v \in V : TRUE
      BY <2>2
    <3>2. OfKind(<<>>, kinds) = <<>>
      BY <3>1, OfKindOne
    <3> QED
      BY <1>3, <3>2
  <2> QED
    BY <2>1, <2>2
<1>6. DataLines(none) = none /\ Stripped(none) = none
  BY <1>5 DEF DataLines, Stripped
<1>7. HasRead(V, none, none, none)
  <2>1. none = none \o none
    BY <1>3
  <2>2. BlankLines(none) = {}
    BY <1>3 DEF BlankLines
  <2> QED
    BY <1>3, <2>1, <2>2 DEF HasRead, IsJoin, Closing
<1>8. SoFar(V, none)
  <2>1. <<>> \o bytes = bytes
    BY <1>2
  <2> QED
    BY <1>1, <1>2, <1>3, <2>1 DEF SoFar, IsJoin
<1>9. VoiceHas(V, none)
  BY <1>1, <1>3, <1>6, <1>7 DEF VoiceHas
<1>10. Collected(V, Reading, none)
  <2>1. PICK T : T = {x.text : x \in V}
    OBVIOUS
  <2>2. PICK texts : texts = OfKind(none, {"text"})
    OBVIOUS
  <2>3. TextsOf(none) = <<>>
    <3>1. TextsOf(none) = [i \in 1..Len(texts) |-> texts[i].text]
      BY <2>2 DEF TextsOf
    <3>2. Len(texts) = 0
      BY <1>3, <1>5, <2>2
    <3> QED
      BY <3>1, <3>2
  <2>4. <<>> \in Seq(T) /\ <<>> \in Seq(CallRecords(V)) /\ Len(<<>>) = 0
    OBVIOUS
  <2>5. CallsOf(V, <<>>, none)
    BY <1>3, <2>4 DEF CallsOf
  <2> QED
    BY <1>1, <1>3, <2>1, <2>3, <2>4, <2>5 DEF Collected, Reading
<1>11. AgentHas(V, none)
  <2>1. PICK d : d = DataLines(none)
    OBVIOUS
  <2>2. d = none /\ SubSeq(d, 1, 0) = none /\ Len(d) = 0
    <3>1. SubSeq(none, 1, 0) = <<>>
      BY <1>3
    <3> QED
      BY <1>3, <1>6, <2>1, <3>1
  <2>3. Reading.done = FALSE /\ agentBuf = none
    BY <1>1, <1>3 DEF Reading
  <2>4. AgentReached(V, none, none, Reading, none, 0)
    <3>1. DataLines(none) = none /\ Len(none) = 0 /\ SubSeq(none, 1, 0) = none
      BY <2>1, <2>2
    <3>2. PICK base : base = Reading
      OBVIOUS
    <3>3. 0 \in 0..Len(none) /\ ~(\E i \in 1..0 : TRUE)
      BY <3>1
    <3>4. AgentReached(V, none, none, base, none, 0)
      BY <1>7, <1>10, <2>3, <3>1, <3>2, <3>3 DEF AgentReached
    <3> QED
      BY <3>2, <3>4
  <2> QED
    BY <1>6, <2>3, <2>4 DEF AgentHas
<1>12. AgentPutsTogether /\ VoiceHasAll
  BY <1>1 DEF AgentPutsTogether, VoiceHasAll
<1>13. EventRead(V, none)
  BY <1>8, <1>9, <1>11 DEF EventRead
<1> QED
  BY <1>1, <1>2, <1>12, <1>13 DEF EventInv

LEMMA SameForAgent == ASSUME UNCHANGED bytes PROVE ForAgent' = ForAgent /\ Lines' = Lines
BY DEF ForAgent, BeforeDone, Lines, Closed, DataLines, Complete, OfKind, LastBlank, BlankLines

\* What follows a beginning may be cut, and its first piece belongs to the beginning.
LEMMA JoinsTogether ==
  ASSUME NEW V, NEW r \in Seq(V), NEW p \in Seq(V), NEW z \in Seq(V),
         NEW w, IsJoin(w, p, z), NEW u, IsJoin(u, r, w)
  PROVE  \E q \in Seq(V) : IsJoin(q, r, p) /\ IsJoin(u, q, z)
<1>1. PICK q : IsJoin(q, r, p)
  BY JoinExists
<1>2. IsJoin(u, q, z)
  BY <1>1, JoinRight
<1>3. q \in Seq(V)
  BY <1>1, JoinFacts
<1> QED
  BY <1>1, <1>2, <1>3

\* What has been read and what has not are the stream, also after one more piece.
LEMMA SoFarOn ==
  ASSUME NEW V, NEW r, SoFar(V, r), NEW n \in 1..Len(unread),
         NEW z, z = SubSeq(unread, n + 1, Len(unread)), NEW p, p = SubSeq(unread, 1, n)
  PROVE  p \in Seq(V) /\ z \in Seq(V) /\ \E q \in Seq(V) : IsJoin(q, r, p) /\ IsJoin(bytes, q, z)
<1>1. r \in Seq(V) /\ unread \in Seq(V) /\ bytes = r \o unread
  BY DEF SoFar, IsJoin
<1>2. p \in Seq(V) /\ z \in Seq(V)
  BY <1>1
<1>3. PICK l \in Nat, k \in Nat, o \in Nat : l = Len(unread) /\ k = n /\ o = k + 1 /\ k \in 0..l
  BY <1>1
<1>4. IsJoin(unread, p, z)
  <2>1. Cuts(V, unread, l, k, p, z)
    BY <1>1, <1>3, CutJoin
  <2> QED
    BY <2>1 DEF Cuts
<1>5. IsJoin(bytes, r, unread)
  BY <1>1 DEF IsJoin
<1> QED
  BY <1>1, <1>2, <1>4, <1>5, JoinsTogether

\* The voice runner takes a piece.
LEMMA VoiceReadsOn ==
  ASSUME NEW V, NEW r \in Seq(V), VoiceHas(V, r), NEW p \in Seq(V), NEW q \in Seq(V), IsJoin(q, r, p),
         VoiceTakes(p)
  PROVE  VoiceHas(V, q)'
<1>1. PICK c : HasRead(V, r, c, voiceBuf) /\ yielded = DataLines(c)
  BY DEF VoiceHas
<1>2. PICK a, d : a = voiceBuf \o p /\ IsJoin(a, voiceBuf, p) /\ IsJoin(d, c, Complete(a))
  BY DEF IsJoin
<1>3. HasRead(V, q, d, Incomplete(a)) /\ IsJoin(DataLines(d), DataLines(c), DataLines(Complete(a)))
  BY <1>1, <1>2, ReadOn
<1>4. yielded' = yielded \o DataLines(Complete(a)) /\ voiceBuf' = Incomplete(a)
  BY <1>2 DEF VoiceTakes
<1>5. yielded' = DataLines(d)
  BY <1>1, <1>3, <1>4 DEF IsJoin
<1>6. HasRead(V, q, d, voiceBuf')
  BY <1>3, <1>4
<1> QED
  BY <1>5, <1>6 DEF VoiceHas

\* The agent takes a piece, and returns if [DONE] has come.
LEMMA AgentReadsPiece ==
  ASSUME NEW V, WellMarked(V), NEW r \in Seq(V), AgentHas(V, r), NEW p \in Seq(V), NEW q \in Seq(V),
         IsJoin(q, r, p), NEW z \in Seq(V), IsJoin(bytes, q, z), bytes' = bytes, AgentTakes(p)
  PROVE  /\ agentRead' \in {"reading", "returned"}
         /\ agentRead' = "reading" => AgentHas(V, q)'
         /\ AgentPutsTogether'
<1>1. PICK d, k, base : base = Reading /\ AgentReached(V, Stripped(r), agentBuf, base, d, k)
  BY DEF AgentHas
<1>2. IsJoin(Stripped(q), Stripped(r), Stripped(p)) /\ Stripped(p) \in Seq(V)
  BY StrippedFacts
<1>3. PICK a : a = agentBuf \o Stripped(p) /\ IsJoin(a, agentBuf, Stripped(p))
  BY DEF IsJoin
<1>4. PICK res : res = Taken(DataLines(Complete(a)))
  OBVIOUS
<1>5. /\ textRead' = res.textRead
      /\ toolCalls' = IF res.done THEN ByIndex(res.toolCalls) ELSE res.toolCalls
      /\ agentBuf' = Incomplete(a)
      /\ agentRead' = IF res.done THEN "returned" ELSE "reading"
  BY <1>3, <1>4 DEF AgentTakes
<1>6. PICK e, l : AgentReached(V, Stripped(q), Incomplete(a), res, e, l)
  <2>1. base = [textRead |-> textRead, toolCalls |-> toolCalls, done |-> FALSE]
    BY <1>1 DEF Reading
  <2>2. PICK x, y, g : x = Stripped(r) /\ y = Stripped(p) /\ g = Stripped(q)
    OBVIOUS
  <2>3. /\ AgentReached(V, x, agentBuf, base, d, k) /\ y \in Seq(V) /\ IsJoin(g, x, y)
        /\ IsJoin(a, agentBuf, y)
    BY <1>1, <1>2, <1>3, <2>2
  <2>4. \E e, l : AgentReached(V, g, Incomplete(a), Taken(DataLines(Complete(a))), e, l)
    BY <2>1, <2>3, AgentReadsOn
  <2> QED
    BY <1>4, <2>2, <2>4
<1>7. CASE res.done
  <2>1. Collected(V, res, ForAgent)
    BY <1>6, <1>7, ForAgentIs
  <2>2. PutTogether(ForAgent, res.textRead, ByIndex(res.toolCalls))
    BY <2>1, OrderedIsTogether
  <2>3. PICK s : s = ForAgent /\ s = ForAgent'
    BY SameForAgent
  <2>4. PutTogether(s, textRead', toolCalls')
    BY <1>5, <1>7, <2>2, <2>3
  <2>5. AgentPutsTogether'
    BY <2>3, <2>4 DEF AgentPutsTogether, PutTogether
  <2> QED
    BY <1>5, <1>7, <2>5
<1>8. CASE ~res.done
  <2>1. agentRead' = "reading" /\ textRead' = res.textRead /\ toolCalls' = res.toolCalls
    BY <1>5, <1>8
  <2>2. AgentPutsTogether'
    BY <2>1 DEF AgentPutsTogether
  <2>3. res = [textRead |-> res.textRead, toolCalls |-> res.toolCalls, done |-> res.done] /\ res.done = FALSE
    BY <1>6, <1>8 DEF AgentReached, Collected
  <2>4. res = Reading'
    BY <2>1, <2>3 DEF Reading
  <2>5. AgentReached(V, Stripped(q), agentBuf', Reading', e, l)
    BY <1>5, <1>6, <2>4
  <2>6. AgentHas(V, q)'
    BY <2>5 DEF AgentHas
  <2> QED
    BY <2>1, <2>2, <2>6
<1> QED
  BY <1>7, <1>8

\* A piece arrives, and both readers take what it completes.
LEMMA PieceKeeps == ASSUME EventInv, NEW n \in 1..Len(unread), Piece(n) PROVE EventInv'
<1>1. PICK V, r : V = ToSet(bytes) /\ EventRead(V, r)
  BY DEF EventInv
<1>2. /\ SoFar(V, r) /\ r \in Seq(V) /\ unread \in Seq(V)
      /\ (voiceRead = "reading" => VoiceHas(V, r)) /\ (agentRead = "reading" => AgentHas(V, r))
  BY <1>1 DEF EventRead, SoFar
<1>3. bytes \in Bytes /\ WellMarked(V)
  BY <1>1, BytesFacts DEF EventInv
<1>4. PICK p : p = SubSeq(unread, 1, n)
  OBVIOUS
<1>5. PICK z : z = SubSeq(unread, n + 1, Len(unread))
  OBVIOUS
<1>6. PICK q \in Seq(V) : p \in Seq(V) /\ z \in Seq(V) /\ IsJoin(q, r, p) /\ IsJoin(bytes, q, z)
  BY <1>2, <1>4, <1>5, SoFarOn
<1>7. /\ unread' = z /\ bytes' = bytes /\ voiceRead' = voiceRead
      /\ agentRead = "reading" => AgentTakes(p)
      /\ agentRead # "reading" => UNCHANGED <<textRead, toolCalls, agentBuf, agentRead>>
      /\ voiceRead = "reading" => VoiceTakes(p)
      /\ voiceRead # "reading" => UNCHANGED <<yielded, voiceBuf>>
  BY <1>4, <1>5 DEF Piece
<1>8. SoFar(V, q)'
  BY <1>6, <1>7 DEF SoFar
<1>9. voiceRead' = "reading" => VoiceHas(V, q)'
  BY <1>2, <1>6, <1>7, VoiceReadsOn
<1>10. VoiceHasAll'
  <2>1. CASE voiceRead = "reading"
    BY <1>7, <2>1 DEF VoiceHasAll
  <2>2. CASE voiceRead # "reading"
    <3>1. Lines' = Lines /\ yielded' = yielded /\ voiceRead' = voiceRead
      BY <1>7, <2>2, SameForAgent
    <3>2. VoiceHasAll
      BY DEF EventInv
    <3> QED
      BY <3>1, <3>2 DEF VoiceHasAll
  <2> QED
    BY <2>1, <2>2
<1>11. /\ agentRead' \in {"reading", "returned", "failed"}
       /\ agentRead' = "reading" => agentRead = "reading" /\ AgentHas(V, q)'
       /\ AgentPutsTogether'
  <2>1. CASE agentRead = "reading"
    BY <1>2, <1>3, <1>6, <1>7, <2>1, AgentReadsPiece
  <2>2. CASE agentRead # "reading"
    <3>1. ForAgent' = ForAgent /\ textRead' = textRead /\ toolCalls' = toolCalls /\ agentRead' = agentRead
      BY <1>7, <2>2, SameForAgent
    <3>2. AgentPutsTogether /\ agentRead \in {"reading", "returned", "failed"}
      BY DEF EventInv
    <3>3. AgentPutsTogether'
      BY <3>1, <3>2 DEF AgentPutsTogether
    <3> QED
      BY <2>2, <3>1, <3>2, <3>3
  <2> QED
    BY <2>1, <2>2
<1>12. EventRead(V, q)'
  BY <1>8, <1>9, <1>11 DEF EventRead
<1>13. V = ToSet(bytes)' /\ voiceRead' \in {"reading", "ended", "failed"}
       /\ (agentRead' = "reading" => voiceRead' = "reading") /\ bytes' \in Bytes
  BY <1>1, <1>3, <1>7, <1>11 DEF EventInv
<1> QED
  BY <1>10, <1>11, <1>12, <1>13 DEF EventInv

\* The stream ends: the agent has what was closed, the voice what was left too.
LEMMA EventsEndKeeps == EventInv /\ Ends => EventInv'
<1> SUFFICES ASSUME EventInv, Ends PROVE EventInv'
  OBVIOUS
<1>1. PICK V, r : V = ToSet(bytes) /\ EventRead(V, r)
  BY DEF EventInv
<1>2. /\ unread = <<>> /\ voiceRead = "reading" /\ voiceRead' = "ended"
      /\ yielded' = yielded \o Leftover
      /\ agentRead' = (IF agentRead = "reading" THEN "returned" ELSE agentRead)
      /\ toolCalls' = (IF agentRead = "reading" THEN ByIndex(toolCalls) ELSE toolCalls)
      /\ bytes' = bytes /\ unread' = unread /\ textRead' = textRead
  BY DEF Ends
<1>3. /\ SoFar(V, r) /\ r \in Seq(V) /\ unread \in Seq(V) /\ IsJoin(bytes, r, unread)
      /\ VoiceHas(V, r) /\ (agentRead = "reading" => AgentHas(V, r))
  BY <1>1, <1>2 DEF EventRead, SoFar
<1>4. bytes \in Bytes /\ WellMarked(V)
  BY <1>1, BytesFacts DEF EventInv
<1>5. bytes = r
  <2>1. r \o <<>> = r
    BY <1>3
  <2> QED
    BY <1>2, <1>3, <2>1 DEF IsJoin
<1>6. yielded' = Lines
  <2>1. PICK c : HasRead(V, r, c, voiceBuf) /\ yielded = DataLines(c)
    BY <1>3 DEF VoiceHas
  <2>2. IsJoin(DataLines(r), DataLines(c), DataLines(voiceBuf))
    BY <2>1, ReadData
  <2> QED
    BY <1>2, <1>5, <2>1, <2>2 DEF IsJoin, Lines, Leftover
<1>7. Lines' = Lines /\ ForAgent' = ForAgent
  BY <1>2, SameForAgent
<1>8. VoiceHasAll'
  BY <1>6, <1>7 DEF VoiceHasAll
<1>9. AgentPutsTogether'
  <2>1. CASE agentRead = "reading"
    <3>1. PICK d, k, base : base = Reading /\ AgentReached(V, Stripped(r), agentBuf, base, d, k)
      BY <1>3, <2>1 DEF AgentHas
    <3>2. Collected(V, base, ForAgent)
      BY <1>2, <1>3, <1>4, <3>1, ForAgentIs
    <3>3. base.textRead = textRead /\ base.toolCalls = toolCalls
      BY <3>1 DEF Reading
    <3>4. PutTogether(ForAgent, textRead, ByIndex(toolCalls))
      BY <3>2, <3>3, OrderedIsTogether
    <3>5. PICK s : s = ForAgent /\ s = ForAgent'
      BY <1>7
    <3>6. PutTogether(s, textRead', toolCalls')
      BY <1>2, <2>1, <3>4, <3>5
    <3> QED
      BY <3>5, <3>6 DEF AgentPutsTogether, PutTogether
  <2>2. CASE agentRead # "reading"
    <3>1. AgentPutsTogether
      BY DEF EventInv
    <3> QED
      BY <1>2, <1>7, <2>2, <3>1 DEF AgentPutsTogether
  <2> QED
    BY <2>1, <2>2
<1>10. agentRead' \in {"returned", "failed"}
  BY <1>2 DEF EventInv
<1>11. SoFar(V, r)'
  BY <1>2, <1>3 DEF SoFar
<1>12. EventRead(V, r)'
  BY <1>2, <1>10, <1>11 DEF EventRead
<1>13. V = ToSet(bytes)' /\ bytes' \in Bytes
  BY <1>1, <1>2, <1>4
<1> QED
  BY <1>2, <1>8, <1>9, <1>10, <1>12, <1>13 DEF EventInv

\* A stream that breaks leaves what was read as it is.
LEMMA EventsStay ==
  ASSUME EventInv, UNCHANGED <<bytes, unread, agentBuf, textRead, toolCalls, voiceBuf, yielded>>,
         \/ agentRead' = agentRead /\ voiceRead' = voiceRead
         \/ agentRead' \in {"returned", "failed"} \cap {agentRead, "failed"} /\ voiceRead' = "failed"
  PROVE  EventInv'
<1>1. PICK V, r : V = ToSet(bytes) /\ EventRead(V, r)
  BY DEF EventInv
<1>2. /\ agentRead \in {"reading", "returned", "failed"} /\ voiceRead \in {"reading", "ended", "failed"}
      /\ (agentRead = "reading" => voiceRead = "reading") /\ AgentPutsTogether /\ VoiceHasAll
      /\ bytes \in Bytes
  BY DEF EventInv
<1>3. /\ agentRead' \in {"reading", "returned", "failed"} /\ voiceRead' \in {"reading", "ended", "failed"}
      /\ agentRead' = "reading" => agentRead = "reading" /\ voiceRead' = "reading"
      /\ agentRead' = "returned" => agentRead = "returned"
      /\ voiceRead' = "reading" => voiceRead = "reading"
      /\ voiceRead' = "ended" => voiceRead = "ended"
  BY <1>2
<1>4. Lines' = Lines /\ ForAgent' = ForAgent
  BY SameForAgent
<1>5. AgentPutsTogether' /\ VoiceHasAll'
  BY <1>2, <1>3, <1>4 DEF AgentPutsTogether, VoiceHasAll
<1>6. SoFar(V, r)'
  BY <1>1 DEF EventRead, SoFar
<1>7. voiceRead' = "reading" => VoiceHas(V, r)'
  BY <1>1, <1>3 DEF EventRead, VoiceHas
<1>8. agentRead' = "reading" => AgentHas(V, r)'
  BY <1>1, <1>3 DEF EventRead, AgentHas, Reading
<1>9. EventRead(V, r)'
  BY <1>6, <1>7, <1>8 DEF EventRead
<1>10. V = ToSet(bytes)' /\ bytes' \in Bytes
  BY <1>1, <1>2
<1> QED
  BY <1>3, <1>5, <1>9, <1>10 DEF EventInv

LEMMA EventSteps == EventInv /\ [EventsNext]_eventVars => EventInv'
<1> SUFFICES ASSUME EventInv, [EventsNext]_eventVars PROVE EventInv'
  OBVIOUS
<1>1. ASSUME NEW n \in 1..Len(unread), Piece(n) PROVE EventInv'
  BY <1>1, PieceKeeps
<1>2. CASE Ends
  BY <1>2, EventsEndKeeps
<1>3. CASE Breaks
  <2>1. /\ UNCHANGED <<bytes, unread, agentBuf, textRead, toolCalls, voiceBuf, yielded>>
        /\ voiceRead' = "failed" /\ agentRead' = IF agentRead = "reading" THEN "failed" ELSE agentRead
    BY <1>3 DEF Breaks
  <2>2. agentRead' \in {"returned", "failed"} \cap {agentRead, "failed"}
    BY <2>1 DEF EventInv
  <2> QED
    BY <2>1, <2>2, EventsStay
<1>4. CASE UNCHANGED eventVars
  <2>1. /\ UNCHANGED <<bytes, unread, agentBuf, textRead, toolCalls, voiceBuf, yielded>>
        /\ agentRead' = agentRead /\ voiceRead' = voiceRead
    BY <1>4 DEF eventVars
  <2> QED
    BY <2>1, EventsStay
<1> QED
  BY <1>1, <1>2, <1>3, <1>4 DEF EventsNext

LEMMA EventsCorrectNow == EventInv => EventStreamCorrect
<1> SUFFICES ASSUME EventInv PROVE EventStreamCorrect
  OBVIOUS
<1>1. PICK V, r : V = ToSet(bytes) /\ EventRead(V, r)
  BY DEF EventInv
<1>2. ASSUME voiceRead = "reading"
      PROVE  yielded = DataLines(Complete(SubSeq(bytes, 1, Len(bytes) - Len(unread))))
  <2>1. PICK c : HasRead(V, r, c, voiceBuf) /\ yielded = DataLines(c)
    BY <1>1, <1>2 DEF EventRead, VoiceHas
  <2>2. DataLines(Complete(r)) = DataLines(c)
    BY <2>1, ReadData
  <2>3. r \in Seq(V) /\ unread \in Seq(V) /\ IsJoin(bytes, r, unread)
    BY <1>1 DEF EventRead, SoFar
  <2>4. PICK n \in Nat : n = Len(r)
    BY <2>3
  <2>5. Len(bytes) = n + Len(unread) /\ Len(unread) \in Nat
    BY <2>3, <2>4, JoinFacts
  <2>6. SubSeq(bytes, 1, n) = SubSeq(r, 1, n) /\ SubSeq(r, 1, n) = r
    <3>1. n \in 0..Len(r)
      BY <2>4
    <3>2. SubSeq(bytes, 1, n) = SubSeq(r, 1, n)
      BY <2>3, <3>1, JoinStarts
    <3> QED
      BY <2>3, <2>4, <3>2
  <2>7. Len(bytes) - Len(unread) = n
    BY <2>5
  <2> QED
    BY <2>1, <2>2, <2>6, <2>7
<1>3. VoiceInTime
  BY <1>2 DEF VoiceInTime
<1>4. AgentPutsTogether /\ VoiceHasAll
  BY DEF EventInv
<1> QED
  BY <1>3, <1>4 DEF EventStreamCorrect

-----------------------------------------------------------------------------
(* The answer: the tags of thoughts, and the filters of the voice *)

\* What is found behind the first characters is found without them.
FoundBehind(V, s, d, u, pat) ==
  /\ Begins(u, pat) = {} <=> Begins(s, pat) = {}
  /\ Begins(s, pat) # {} =>
       /\ IsJoin(Before(s, pat), d, Before(u, pat)) /\ Before(u, pat) \in Seq(V)
       /\ After(s, pat) = After(u, pat) /\ After(u, pat) \in Seq(V)
       /\ Before(s, pat) \in Seq(V)

\* A pattern that does not begin in the first letters is found without them.
LEMMA SearchRight ==
  ASSUME NEW V, NEW W, NEW d \in Seq(V), NEW u \in Seq(V), NEW s, IsJoin(s, d, u),
         NEW pat \in Seq(W), pat # <<>>, \A i \in Begins(s, pat) : i > Len(d)
  PROVE  FoundBehind(V, s, d, u, pat)
<1>1. PICK k \in Nat, o \in Nat, m \in Nat, n \in Nat :
        k = Len(d) /\ o = Len(u) /\ m = Len(pat) /\ m # 0 /\ n = k + o
  <2>1. Len(d) \in Nat /\ Len(u) \in Nat /\ Len(pat) \in Nat /\ Len(pat) # 0 /\ Len(d) + Len(u) \in Nat
    OBVIOUS
  <2> QED
    BY <2>1
<1>2. s \in Seq(V) /\ Len(s) = n /\ (\A i \in 1..k : s[i] = d[i]) /\ \A i \in 1..o : s[k + i] = u[i]
  BY <1>1, JoinFacts
<1>3. ASSUME NEW i \in Nat, i >= 1
      PROVE  StartsAt(u, o, pat, m, i) <=> StartsAt(s, n, pat, m, k + i)
  <2>1. k + i \in Nat /\ k + i >= 1 /\ (i + m <= o + 1 <=> (k + i) + m <= n + 1)
    BY <1>1, <1>3
  <2>2. SUFFICES ASSUME i + m <= o + 1
                 PROVE  \A j \in 1..m : u[i + (j - 1)] = s[(k + i) + (j - 1)]
    BY <1>3, <2>1 DEF StartsAt
  <2> TAKE j \in 1..m
  <2>3. i + (j - 1) \in 1..o /\ (k + i) + (j - 1) = k + (i + (j - 1))
    BY <1>1, <1>3, <2>2
  <2> QED
    BY <1>2, <2>3
<1>4. \A i : (i \in Begins(s, pat) <=> StartsAt(s, n, pat, m, i)) /\ (i \in Begins(u, pat) <=> StartsAt(u, o, pat, m, i))
  <2>1. \A i : i \in Begins(s, pat) <=> StartsAt(s, n, pat, m, i)
    BY <1>1, <1>2, BeginsIs
  <2>2. \A i : i \in Begins(u, pat) <=> StartsAt(u, o, pat, m, i)
    BY <1>1, BeginsIs
  <2> QED
    BY <2>1, <2>2
<1>5. \A i : StartsAt(s, n, pat, m, i) => i > k
  BY <1>1, <1>4
<1>6. ASSUME NEW i, StartsAt(s, n, pat, m, i)
      PROVE  \E h \in Nat : h >= 1 /\ i = k + h /\ StartsAt(u, o, pat, m, h)
  <2>1. i \in Nat /\ i > k
    BY <1>5, <1>6 DEF StartsAt
  <2>2. PICK h \in Nat : h >= 1 /\ i = k + h
    <3>1. i - k \in Nat /\ i - k >= 1 /\ i = k + (i - k)
      BY <2>1
    <3> QED
      BY <3>1
  <2> QED
    BY <1>3, <1>6, <2>2
<1>7. ASSUME NEW h, StartsAt(u, o, pat, m, h)
      PROVE  h \in Nat /\ h >= 1 /\ StartsAt(s, n, pat, m, k + h)
  <2>1. h \in Nat /\ h >= 1
    BY <1>7 DEF StartsAt
  <2> QED
    BY <1>3, <1>7, <2>1
<1>8. Begins(u, pat) = {} <=> Begins(s, pat) = {}
  <2>1. ASSUME NEW i \in Begins(s, pat) PROVE Begins(u, pat) # {}
    BY <1>4, <1>6
  <2>2. ASSUME NEW i \in Begins(u, pat) PROVE Begins(s, pat) # {}
    BY <1>4, <1>7
  <2> QED
    BY <2>1, <2>2
<1>9. ASSUME Begins(s, pat) # {}
      PROVE  /\ IsJoin(Before(s, pat), d, Before(u, pat)) /\ Before(u, pat) \in Seq(V)
             /\ After(s, pat) = After(u, pat) /\ After(u, pat) \in Seq(V)
             /\ Before(s, pat) \in Seq(V)
  <2>1. PICK f \in Nat : PartsAround(V, s, n, pat, m, f)
    BY <1>1, <1>2, <1>9, PartsExist
  <2>2. PICK g \in Nat : PartsAround(V, u, o, pat, m, g)
    BY <1>1, <1>8, <1>9, PartsExist
  <2>3. f = k + g
    <3>1. StartsAt(s, n, pat, m, f) /\ \A i : StartsAt(s, n, pat, m, i) => f <= i
      BY <2>1 DEF PartsAround
    <3>2. StartsAt(u, o, pat, m, g) /\ \A i : StartsAt(u, o, pat, m, i) => g <= i
      BY <2>2 DEF PartsAround
    <3>3. PICK h \in Nat : f = k + h /\ StartsAt(u, o, pat, m, h)
      BY <1>6, <3>1
    <3>4. g <= h
      BY <3>2, <3>3
    <3>5. f <= k + g
      BY <1>7, <3>1, <3>2
    <3> QED
      BY <3>3, <3>4, <3>5
  <2>4. PICK p, q, x, y : p = Before(u, pat) /\ q = After(u, pat) /\ x = Before(s, pat) /\ y = After(s, pat)
    OBVIOUS
  <2>5. PICK h \in Nat, c \in Nat, e \in Nat, b \in Nat :
          h = g - 1 /\ c = g + m - 1 /\ e = o - c /\ c + e = o /\ b = k + h /\ b = f - 1
    <3>1. g >= 1 /\ g + m <= o + 1
      BY <2>2 DEF PartsAround, StartsAt
    <3>2. /\ g - 1 \in Nat /\ g + m - 1 \in Nat /\ o - (g + m - 1) \in Nat /\ k + (g - 1) \in Nat
          /\ (g + m - 1) + (o - (g + m - 1)) = o /\ k + (g - 1) = f - 1
      BY <1>1, <2>3, <3>1
    <3> QED
      BY <3>2
  <2>6. /\ p \in Seq(V) /\ Len(p) = h /\ (\A i \in 1..h : p[i] = u[i])
        /\ q \in Seq(V) /\ Len(q) = e /\ (\A i \in 1..e : q[i] = u[c + i])
    <3>1. o + 1 - (g + m) = e /\ g + m - 1 = c
      BY <2>5
    <3> QED
      BY <2>2, <2>4, <2>5, <3>1 DEF PartsAround
  <2>7. /\ x \in Seq(V) /\ Len(x) = b /\ (\A i \in 1..b : x[i] = s[i])
        /\ y \in Seq(V) /\ Len(y) = e /\ (\A i \in 1..e : y[i] = s[(k + c) + i])
    <3>1. n + 1 - (f + m) = e /\ f + m - 1 = k + c
      BY <1>1, <2>3, <2>5
    <3> QED
      BY <2>1, <2>4, <2>5, <3>1 DEF PartsAround
  <2>8. \A i \in 1..h : i \in 1..o
    BY <2>5
  <2>9. IsJoin(x, d, p)
    <3>1. ASSUME NEW i \in 1..k PROVE x[i] = d[i]
      <4>1. i \in 1..b
        BY <2>5
      <4> QED
        BY <1>2, <2>7, <4>1
    <3>2. ASSUME NEW i \in 1..h PROVE x[k + i] = p[i]
      <4>1. k + i \in 1..b
        BY <2>5
      <4> QED
        BY <1>2, <2>6, <2>7, <2>8, <4>1
    <3>3. Len(x) = k + h
      BY <2>5, <2>7
    <3> QED
      BY <1>1, <2>6, <2>7, <3>1, <3>2, <3>3, JoinIf
  <2>10. y = q
    <3>1. ASSUME NEW i \in 1..Len(y) PROVE y[i] = q[i]
      <4>1. i \in 1..e /\ c + i \in 1..o /\ (k + c) + i = k + (c + i)
        BY <2>5, <2>7
      <4>2. q[i] = u[c + i] /\ y[i] = s[(k + c) + i]
        BY <2>6, <2>7, <4>1
      <4>3. s[k + (c + i)] = u[c + i]
        BY <1>2, <4>1
      <4> QED
        BY <4>1, <4>2, <4>3
    <3> QED
      BY <2>6, <2>7, <3>1, SameSequence
  <2> QED
    BY <2>4, <2>6, <2>7, <2>9, <2>10
<1> QED
  BY <1>8, <1>9 DEF FoundBehind

\* A pattern is not found with the help of characters that it does not have.
LEMMA SearchStrange ==
  ASSUME NEW V, NEW W, NEW s \in Seq(V), NEW z \in Seq(V), NEW u, IsJoin(u, s, z),
         NEW pat \in Seq(W), pat # <<>>,
         \A i \in 1..Len(z), j \in 1..Len(pat) : z[i] # pat[j], Begins(u, pat) # {}
  PROVE  Begins(s, pat) # {}
<1>1. PICK k \in Nat, o \in Nat, m \in Nat, n \in Nat :
        k = Len(s) /\ o = Len(z) /\ m = Len(pat) /\ m # 0 /\ n = k + o
  <2>1. Len(s) \in Nat /\ Len(z) \in Nat /\ Len(pat) \in Nat /\ Len(pat) # 0 /\ Len(s) + Len(z) \in Nat
    OBVIOUS
  <2> QED
    BY <2>1
<1>2. u \in Seq(V) /\ Len(u) = n /\ (\A i \in 1..k : u[i] = s[i]) /\ \A i \in 1..o : u[k + i] = z[i]
  BY <1>1, JoinFacts
<1>3. PICK i : i \in Begins(u, pat)
  OBVIOUS
<1>4. StartsAt(u, n, pat, m, i)
  BY <1>1, <1>2, <1>3, BeginsIs
<1>5. i \in Nat /\ i >= 1 /\ i + m <= n + 1 /\ \A j \in 1..m : u[i + (j - 1)] = pat[j]
  BY <1>4 DEF StartsAt
<1>6. i + m <= k + 1
  <2>1. SUFFICES ASSUME i + m > k + 1 PROVE FALSE
    BY <1>1, <1>5
  <2>2. m \in 1..m /\ u[i + (m - 1)] = pat[m]
    BY <1>1, <1>5
  <2>3. PICK l \in 1..o : i + (m - 1) = k + l
    <3>1. (i + (m - 1)) - k \in 1..o /\ i + (m - 1) = k + ((i + (m - 1)) - k)
      BY <1>1, <1>5, <2>1
    <3> QED
      BY <3>1
  <2> QED
    BY <1>1, <1>2, <2>2, <2>3
<1>7. StartsAt(s, k, pat, m, i)
  <2>1. ASSUME NEW j \in 1..m PROVE s[i + (j - 1)] = pat[j]
    <3>1. i + (j - 1) \in 1..k
      BY <1>5, <1>6
    <3> QED
      BY <1>2, <1>5, <3>1
  <2> QED
    BY <1>5, <1>6, <2>1 DEF StartsAt
<1>8. i \in Begins(s, pat)
  BY <1>1, <1>7, BeginsIs
<1> QED
  BY <1>8

\* A pattern longer than what is searched is not found.
LEMMA SearchShort ==
  ASSUME NEW V, NEW W, NEW s \in Seq(V), NEW pat \in Seq(W), pat # <<>>, Len(s) < Len(pat)
  PROVE  Begins(s, pat) = {}
<1>1. PICK m \in Nat, n \in Nat : m = Len(pat) /\ m # 0 /\ n = Len(s)
  OBVIOUS
<1>2. \A i : ~StartsAt(s, n, pat, m, i)
  BY <1>1 DEF StartsAt
<1>3. \A i : i \in Begins(s, pat) <=> StartsAt(s, n, pat, m, i)
  BY <1>1, BeginsIs
<1> QED
  BY <1>2, <1>3

\* What comes after a pattern that was found is shorter.
LEMMA SearchShortens ==
  ASSUME NEW V, NEW W, NEW s \in Seq(V), NEW pat \in Seq(W), pat # <<>>, Begins(s, pat) # {}
  PROVE  /\ Before(s, pat) \in Seq(V) /\ After(s, pat) \in Seq(V)
         /\ Len(After(s, pat)) < Len(s)
         /\ \E r \in Seq(V) : IsJoin(s, Before(s, pat), r)
<1>1. PICK m \in Nat, n \in Nat : m = Len(pat) /\ m # 0 /\ n = Len(s)
  OBVIOUS
<1>2. PICK f \in Nat : PartsAround(V, s, n, pat, m, f)
  BY <1>1, PartsExist
<1>3. f >= 1
  BY <1>2 DEF PartsAround, StartsAt
<1>4. /\ Before(s, pat) \in Seq(V) /\ After(s, pat) \in Seq(V)
      /\ Len(After(s, pat)) = n + 1 - (f + m)
      /\ \E r \in Seq(V) : IsJoin(s, Before(s, pat), r)
  BY <1>2 DEF PartsAround
<1> QED
  BY <1>1, <1>3, <1>4

-----------------------------------------------------------------------------
(* What is left of a text without its spaces *)

SolidGathered(V, s, n, b, f) ==
  /\ \A i \in 1..n : i \in b <=> s[i] # Space
  /\ Appends(f, n, b, s)
  /\ NonSpace(s) = f[n] /\ f[0] = <<>> /\ f[n] \in Seq(V)

\* The letters that are no spaces, gathered one by one.
LEMMA NonSpaceIs ==
  ASSUME NEW V, NEW s \in Seq(V), NEW n \in Nat, n = Len(s)
  PROVE  \E b, f : SolidGathered(V, s, n, b, f)
<1>1. \A i \in 1..n : s[i] \in V
  OBVIOUS
<1>2. PICK b : b = {i \in 1..Len(s) : s[i] # Space}
  OBVIOUS
<1> DEFINE Is(f) == f = [i \in 0..Len(s) |->
                           IF i = 0 THEN <<>>
                           ELSE IF s[i] # Space THEN Append(f[i - 1], s[i]) ELSE f[i - 1]]
<1>3. ASSUME NEW f PROVE Is(f) <=> Appends(f, n, b, s)
  <2>1. \A i \in 0..n : i # 0 => (i \in b <=> s[i] # Space)
    BY <1>2
  <2>2. [i \in 0..n |-> IF i = 0 THEN <<>>
                        ELSE IF s[i] # Space THEN Append(f[i - 1], s[i]) ELSE f[i - 1]]
        = [i \in 0..n |-> IF i = 0 THEN <<>>
                          ELSE IF i \in b THEN Append(f[i - 1], s[i]) ELSE f[i - 1]]
    BY <2>1
  <2> QED
    BY <2>2 DEF Appends
<1>4. /\ \E f : Appends(f, n, b, s)
      /\ \A f : Appends(f, n, b, s) => \A i \in 0..n : f[i] \in Seq(V)
  BY <1>1, AppendsGather
<1>5. NonSpace(s) = (CHOOSE f : Is(f))[n]
  BY DEF NonSpace
<1> HIDE DEF Is
<1>6. \E f : Is(f)
  BY <1>3, <1>4
<1>7. PICK f : f = CHOOSE g : Is(g)
  OBVIOUS
<1>8. Is(f)
  BY <1>6, <1>7, Zenon
<1>9. \A i \in 1..n : i \in b <=> s[i] # Space
  BY <1>2
<1>10. Appends(f, n, b, s)
  BY <1>3, <1>8
<1>11. f[0] = <<>>
  BY <1>10 DEF Appends
<1>12. f[n] \in Seq(V)
  BY <1>4, <1>10
<1> QED
  BY <1>5, <1>7, <1>9, <1>10, <1>11, <1>12 DEF SolidGathered

LEMMA NonSpaceMore ==
  ASSUME NEW V, NEW s \in Seq(V), NEW c \in V, NEW u, IsOneMore(u, s, c)
  PROVE  NonSpace(u) = IF c # Space THEN Append(NonSpace(s), c) ELSE NonSpace(s)
<1>1. PICK n \in Nat, k \in Nat : n = Len(s) /\ k = n + 1
  <2>1. Len(s) \in Nat /\ Len(s) + 1 \in Nat
    OBVIOUS
  <2> QED
    BY <2>1
<1>2. u \in Seq(V) /\ Len(u) = k /\ u[k] = c /\ \A i \in 1..n : u[i] = s[i]
  BY <1>1, OneMoreFacts
<1>3. PICK b, f : SolidGathered(V, s, n, b, f)
  BY <1>1, NonSpaceIs
<1>4. PICK d, h : SolidGathered(V, u, k, d, h)
  BY <1>2, NonSpaceIs
<1>5. h[k] = IF k \in d THEN Append(f[n], u[k]) ELSE f[n]
  <2>1. Appends(f, n, b, s) /\ Appends(h, k, d, u)
    BY <1>3, <1>4 DEF SolidGathered
  <2>2. \A i \in 1..n : (i \in b <=> i \in d) /\ s[i] = u[i]
    <3>1. \A i \in 1..n : i \in 1..k
      BY <1>1
    <3> QED
      BY <1>2, <1>3, <1>4, <3>1 DEF SolidGathered
  <2> QED
    BY <1>1, <2>1, <2>2, OneMore
<1>6. k \in d <=> u[k] # Space
  <2>1. k \in 1..k
    BY <1>1
  <2> QED
    BY <1>4, <2>1 DEF SolidGathered
<1>7. NonSpace(s) = f[n] /\ NonSpace(u) = h[k]
  BY <1>3, <1>4 DEF SolidGathered
<1> QED
  BY <1>2, <1>5, <1>6, <1>7

LEMMA NonSpaceTypes ==
  ASSUME NEW V, NEW s \in Seq(V)
  PROVE  NonSpace(s) \in Seq(V) /\ (s = <<>> => NonSpace(s) = <<>>)
<1>1. PICK n \in Nat : n = Len(s)
  OBVIOUS
<1>2. PICK b, f : SolidGathered(V, s, n, b, f)
  BY <1>1, NonSpaceIs
<1>3. NonSpace(s) = f[n] /\ f[n] \in Seq(V) /\ f[0] = <<>>
  BY <1>2 DEF SolidGathered
<1>4. s = <<>> => n = 0
  BY <1>1
<1> QED
  BY <1>3, <1>4

\* What holds of <<>> and with s of s and one more, when these facts are all that is used.
LEMMA ByOneMore ==
  ASSUME NEW V, NEW T, <<>> \in T,
         \A s \in Seq(V), x \in V, u \in Seq(V) : s \in T /\ IsOneMore(u, s, x) => u \in T
  PROVE  \A s \in Seq(V) : s \in T
<1>1. \A s \in Seq(V), x \in V : s \in T => s \o <<x>> \in T
  <2> TAKE s \in Seq(V), x \in V
  <2>1. s \o <<x>> \in Seq(V)
    OBVIOUS
  <2>2. PICK u \in Seq(V) : u = s \o <<x>>
    BY <2>1
  <2>3. IsOneMore(u, s, x)
    BY <2>2 DEF IsOneMore
  <2> QED
    BY <2>2, <2>3
<1> QED
  BY <1>1, AllSequences

\* What is not space of two texts joined.
LEMMA NonSpaceJoin ==
  ASSUME NEW V, NEW s \in Seq(V), NEW t \in Seq(V), NEW u, IsJoin(u, s, t)
  PROVE  /\ IsJoin(NonSpace(u), NonSpace(s), NonSpace(t))
         /\ NonSpace(s) \in Seq(V) /\ NonSpace(t) \in Seq(V) /\ NonSpace(u) \in Seq(V)
<1> DEFINE T == {x \in Seq(V) : \A y : IsJoin(y, s, x) => IsJoin(NonSpace(y), NonSpace(s), NonSpace(x))}
<1>1. <<>> \in T
  <2>1. PICK none : none = <<>>
    OBVIOUS
  <2>2. none \in Seq(V) /\ IsJoin(s, s, none)
    BY <2>1, JoinEmpty
  <2>3. ASSUME NEW y, IsJoin(y, s, none) PROVE y = s
    BY <2>2, <2>3 DEF IsJoin
  <2>4. NonSpace(none) = <<>> /\ NonSpace(s) \in Seq(V)
    BY <2>1, <2>2, NonSpaceTypes
  <2>5. PICK a \in Seq(V), b \in {NonSpace(none)} : a = NonSpace(s) /\ b = NonSpace(none) /\ b = <<>>
    BY <2>4
  <2>6. IsJoin(a, a, b)
    BY <2>5, JoinEmpty
  <2>7. none \in T
    BY <2>2, <2>3, <2>5, <2>6
  <2> QED
    BY <2>1, <2>7
<1>2. ASSUME NEW x \in Seq(V), NEW c \in V, NEW z \in Seq(V), x \in T, IsOneMore(z, x, c)
      PROVE  z \in T
  <2> SUFFICES ASSUME NEW y, IsJoin(y, s, z)
               PROVE  IsJoin(NonSpace(y), NonSpace(s), NonSpace(z))
    OBVIOUS
  <2>1. PICK w : IsJoin(w, s, x)
    BY JoinExists
  <2>2. w \in Seq(V)
    BY <2>1, JoinFacts
  <2>3. IsOneMore(y, w, c)
    <3>1. y = s \o z /\ z = x \o <<c>> /\ w = s \o x
      BY <1>2, <2>1 DEF IsJoin, IsOneMore
    <3>2. s \o (x \o <<c>>) = (s \o x) \o <<c>>
      OBVIOUS
    <3> QED
      BY <3>1, <3>2 DEF IsOneMore
  <2>4. NonSpace(y) = IF c # Space THEN Append(NonSpace(w), c) ELSE NonSpace(w)
    BY <2>2, <2>3, NonSpaceMore
  <2>5. NonSpace(z) = IF c # Space THEN Append(NonSpace(x), c) ELSE NonSpace(x)
    BY <1>2, NonSpaceMore
  <2>6. IsJoin(NonSpace(w), NonSpace(s), NonSpace(x))
    BY <1>2, <2>1
  <2>7. NonSpace(s) \in Seq(V) /\ NonSpace(x) \in Seq(V)
    BY NonSpaceTypes
  <2>8. PICK a \in Seq(V), b \in Seq(V) : a = NonSpace(s) /\ b = NonSpace(x)
    BY <2>7
  <2>9. NonSpace(w) = a \o b
    BY <2>6, <2>8 DEF IsJoin
  <2>10. Append(a \o b, c) = a \o Append(b, c)
    <3>1. Append(b, c) = b \o <<c>> /\ Append(a \o b, c) = (a \o b) \o <<c>>
      OBVIOUS
    <3>2. (a \o b) \o <<c>> = a \o (b \o <<c>>)
      <4>1. PICK l \in Seq(V) : l = <<c>>
        <5>1. <<c>> \in Seq(V)
          OBVIOUS
        <5> QED
          BY <5>1
      <4>2. PICK ab, bz : IsJoin(ab, a, b) /\ IsJoin(bz, b, l)
        BY DEF IsJoin
      <4>3. PICK v : IsJoin(v, ab, l)
        BY DEF IsJoin
      <4>4. IsJoin(v, a, bz)
        BY <4>2, <4>3, JoinAssoc
      <4> QED
        BY <4>1, <4>2, <4>3, <4>4 DEF IsJoin
    <3> QED
      BY <3>1, <3>2
  <2>11. NonSpace(y) = a \o NonSpace(z)
    <3>1. CASE c # Space
      BY <2>4, <2>5, <2>8, <2>9, <2>10, <3>1
    <3>2. CASE c = Space
      BY <2>4, <2>5, <2>8, <2>9, <3>2
    <3> QED
      BY <3>1, <3>2
  <2> QED
    BY <2>8, <2>11 DEF IsJoin
<1>3. \A x \in Seq(V) : x \in T
  <2> HIDE DEF T
  <2>1. \A x \in Seq(V), c \in V, z \in Seq(V) : x \in T /\ IsOneMore(z, x, c) => z \in T
    BY <1>2
  <2> QED
    BY <1>1, <2>1, ByOneMore
<1>4. IsJoin(NonSpace(u), NonSpace(s), NonSpace(t))
  BY <1>3
<1>5. u \in Seq(V)
  BY JoinFacts
<1>6. NonSpace(s) \in Seq(V) /\ NonSpace(t) \in Seq(V) /\ NonSpace(u) \in Seq(V)
  BY <1>5, NonSpaceTypes
<1> QED
  BY <1>4, <1>6

LEMMA NonSpaceShorter ==
  ASSUME NEW V, NEW s \in Seq(V)
  PROVE  Len(NonSpace(s)) <= Len(s)
<1> DEFINE T == {x \in Seq(V) : Len(NonSpace(x)) <= Len(x)}
<1>1. <<>> \in T
  <2>1. PICK none \in Seq(V) : none = <<>> /\ Len(none) = 0
    <3>1. <<>> \in Seq(V) /\ Len(<<>>) = 0
      OBVIOUS
    <3> QED
      BY <3>1
  <2>2. NonSpace(none) = none
    BY <2>1, NonSpaceTypes
  <2> QED
    BY <2>1, <2>2
<1>2. ASSUME NEW x \in Seq(V), NEW c \in V, NEW z \in Seq(V), x \in T, IsOneMore(z, x, c)
      PROVE  z \in T
  <2>1. PICK a \in Seq(V) : a = NonSpace(x)
    BY NonSpaceTypes
  <2>2. NonSpace(z) = IF c # Space THEN Append(a, c) ELSE a
    BY <1>2, <2>1, NonSpaceMore
  <2>3. Len(Append(a, c)) = Len(a) + 1 /\ Len(a) \in Nat /\ Len(x) \in Nat
    OBVIOUS
  <2>4. Len(z) = Len(x) + 1
    <3>1. z = x \o <<c>> /\ Len(x \o <<c>>) = Len(x) + 1
      BY <1>2 DEF IsOneMore
    <3> QED
      BY <3>1
  <2> QED
    BY <1>2, <2>1, <2>2, <2>3, <2>4
<1>3. \A x \in Seq(V) : x \in T
  <2> HIDE DEF T
  <2>1. \A x \in Seq(V), c \in V, z \in Seq(V) : x \in T /\ IsOneMore(z, x, c) => z \in T
    BY <1>2
  <2> QED
    BY <1>1, <2>1, ByOneMore
<1> QED
  BY <1>3

AllSpace(s) == \A i \in 1..Len(s) : s[i] = Space

LEMMA NonSpaceOfSpaces ==
  ASSUME NEW V, NEW s \in Seq(V), AllSpace(s)
  PROVE  NonSpace(s) = <<>>
<1> DEFINE T == {x \in Seq(V) : AllSpace(x) => NonSpace(x) = <<>>}
<1>1. <<>> \in T
  <2>1. PICK none \in Seq(V) : none = <<>>
    <3>1. <<>> \in Seq(V)
      OBVIOUS
    <3> QED
      BY <3>1
  <2>2. NonSpace(none) = <<>>
    BY <2>1, NonSpaceTypes
  <2> QED
    BY <2>1, <2>2
<1>2. ASSUME NEW x \in Seq(V), NEW c \in V, NEW z \in Seq(V), x \in T, IsOneMore(z, x, c)
      PROVE  z \in T
  <2> SUFFICES ASSUME AllSpace(z) PROVE NonSpace(z) = <<>>
    OBVIOUS
  <2>1. PICK n \in Nat, k \in Nat : n = Len(x) /\ k = n + 1
    <3>1. Len(x) \in Nat /\ Len(x) + 1 \in Nat
      OBVIOUS
    <3> QED
      BY <3>1
  <2>2. Len(z) = k /\ z[k] = c /\ \A i \in 1..n : z[i] = x[i]
    BY <1>2, <2>1, OneMoreFacts
  <2>3. c = Space
    <3>1. k \in 1..k
      BY <2>1
    <3> QED
      BY <2>2, <3>1 DEF AllSpace
  <2>4. AllSpace(x)
    <3>1. \A i \in 1..n : i \in 1..k
      BY <2>1
    <3> QED
      BY <2>1, <2>2, <3>1 DEF AllSpace
  <2> QED
    BY <1>2, <2>3, <2>4, NonSpaceMore
<1>3. \A x \in Seq(V) : x \in T
  <2> HIDE DEF T
  <2>1. \A x \in Seq(V), c \in V, z \in Seq(V) : x \in T /\ IsOneMore(z, x, c) => z \in T
    BY <1>2
  <2> QED
    BY <1>1, <2>1, ByOneMore
<1> QED
  BY <1>3

\* Spaces before or after a text change nothing in it.
LEMMA SpacesAround ==
  ASSUME NEW V, NEW s \in Seq(V), NEW t \in Seq(V), NEW u, IsJoin(u, s, t)
  PROVE  /\ AllSpace(s) => NonSpace(u) = NonSpace(t)
         /\ AllSpace(t) => NonSpace(u) = NonSpace(s)
<1>1. PICK a \in Seq(V), b \in Seq(V) : a = NonSpace(s) /\ b = NonSpace(t)
  BY NonSpaceTypes
<1>2. NonSpace(u) = a \o b
  <2>1. IsJoin(NonSpace(u), NonSpace(s), NonSpace(t))
    BY NonSpaceJoin
  <2> QED
    BY <1>1, <2>1 DEF IsJoin
<1>3. a \o <<>> = a /\ <<>> \o b = b
  OBVIOUS
<1>4. (AllSpace(s) => a = <<>>) /\ (AllSpace(t) => b = <<>>)
  BY <1>1, NonSpaceOfSpaces
<1> QED
  BY <1>1, <1>2, <1>3, <1>4

\* Trimming takes spaces off.
LEMMA TrimStartIs ==
  ASSUME NEW V, NEW s \in Seq(V)
  PROVE  /\ TrimStart(s) \in Seq(V) /\ Len(TrimStart(s)) <= Len(s)
         /\ \E a \in Seq(V) : AllSpace(a) /\ IsJoin(s, a, TrimStart(s))
<1>1. PICK n \in Nat : n = Len(s)
  OBVIOUS
<1>2. CASE Solid(s) = {}
  <2>1. PICK none : none = <<>>
    OBVIOUS
  <2>2. none \in Seq(V) /\ IsJoin(s, s, none) /\ Len(none) = 0
    BY <2>1, JoinEmpty
  <2>3. AllSpace(s)
    BY <1>2 DEF Solid, AllSpace
  <2>4. TrimStart(s) = none
    BY <1>2, <2>1 DEF TrimStart
  <2> QED
    BY <1>1, <2>2, <2>3, <2>4
<1>3. CASE Solid(s) # {}
  <2>1. PICK f : f = First(Solid(s))
    OBVIOUS
  <2>2. f \in 1..n /\ \A y \in Solid(s) : f <= y
    <3>1. Solid(s) \in SUBSET Nat /\ Solid(s) \in SUBSET (1..n)
      BY <1>1 DEF Solid
    <3>2. f \in Solid(s) /\ \A y \in Solid(s) : f <= y
      BY <1>3, <2>1, <3>1, FirstIs
    <3> QED
      BY <3>1, <3>2
  <2>3. PICK k \in Nat, l \in Nat : k = f - 1 /\ l = f /\ k \in 0..n /\ l = k + 1
    <3>1. f - 1 \in Nat /\ f \in Nat /\ f - 1 \in 0..n /\ f = (f - 1) + 1
      BY <2>2
    <3> QED
      BY <3>1
  <2>4. PICK p, q : p = SubSeq(s, 1, k) /\ q = SubSeq(s, l, n)
    OBVIOUS
  <2>5. Cuts(V, s, n, k, p, q)
    BY <1>1, <2>3, <2>4, CutJoin
  <2>6. /\ IsJoin(s, p, q) /\ p \in Seq(V) /\ q \in Seq(V) /\ Len(p) = k /\ Len(q) = n - k
        /\ \A i \in 1..k : p[i] = s[i]
    BY <2>5 DEF Cuts
  <2>7. AllSpace(p)
    <3>1. SUFFICES ASSUME NEW i \in 1..k PROVE p[i] = Space
      BY <2>6 DEF AllSpace
    <3>2. i \in 1..n /\ ~(f <= i)
      BY <2>2, <2>3
    <3>3. i \notin Solid(s)
      BY <2>2, <3>2
    <3> QED
      BY <1>1, <2>6, <3>2, <3>3 DEF Solid
  <2>8. TrimStart(s) = q
    BY <1>1, <1>3, <2>1, <2>3, <2>4 DEF TrimStart, From
  <2>9. Len(q) <= Len(s)
    BY <1>1, <2>3, <2>6
  <2> QED
    BY <2>6, <2>7, <2>8, <2>9
<1> QED
  BY <1>2, <1>3

\* s is t between spaces.
Between(V, s, t, a, r, b) ==
  /\ a \in Seq(V) /\ r \in Seq(V) /\ b \in Seq(V) /\ t \in Seq(V)
  /\ AllSpace(a) /\ AllSpace(b) /\ IsJoin(s, a, r) /\ IsJoin(r, t, b)

\* A text is its trimmed text between spaces.
LEMMA TrimIs ==
  ASSUME NEW V, NEW s \in Seq(V)
  PROVE  \E a, r, b : Between(V, s, Trim(s), a, r, b)
<1>1. PICK n \in Nat : n = Len(s)
  OBVIOUS
<1>2. CASE Solid(s) = {}
  <2>1. PICK none : none = <<>>
    OBVIOUS
  <2>2. none \in Seq(V) /\ IsJoin(s, s, none) /\ Len(none) = 0
    BY <2>1, JoinEmpty
  <2>3. AllSpace(s) /\ AllSpace(none)
    BY <1>2, <2>2 DEF Solid, AllSpace
  <2>4. Trim(s) = none
    BY <1>2, <2>1 DEF Trim
  <2>5. IsJoin(none, none, none)
    BY <2>1, <2>2, JoinEmpty
  <2>6. Between(V, s, Trim(s), s, none, none)
    BY <2>2, <2>3, <2>4, <2>5 DEF Between
  <2> QED
    BY <2>6
<1>3. CASE Solid(s) # {}
  <2>1. PICK f, g : f = First(Solid(s)) /\ g = Final(Solid(s))
    OBVIOUS
  <2>2. f \in 1..n /\ g \in 1..n /\ f <= g /\ \A y \in Solid(s) : f <= y /\ y <= g
    <3>1. Solid(s) \in SUBSET Nat /\ Solid(s) \in SUBSET (0..n) /\ Solid(s) \in SUBSET (1..n)
      BY <1>1 DEF Solid
    <3>2. f \in Solid(s) /\ \A y \in Solid(s) : f <= y
      BY <1>3, <2>1, <3>1, FirstIs
    <3>3. g \in Solid(s) /\ \A y \in Solid(s) : y <= g
      BY <1>3, <2>1, <3>1, FinalIs
    <3> QED
      BY <3>1, <3>2, <3>3
  <2>3. PICK k \in Nat, l \in Nat, m \in Nat, o \in Nat :
          k = f - 1 /\ l = f /\ k \in 0..n /\ l = k + 1 /\ m = n - k /\ o = (g - f) + 1
    <3>1. f - 1 \in Nat /\ f \in Nat /\ f - 1 \in 0..n /\ f = (f - 1) + 1 /\ n - (f - 1) \in Nat /\ (g - f) + 1 \in Nat
      BY <2>2
    <3> QED
      BY <3>1
  <2>4. PICK p, q : p = SubSeq(s, 1, k) /\ q = SubSeq(s, l, n)
    OBVIOUS
  <2>5. Cuts(V, s, n, k, p, q)
    BY <1>1, <2>3, <2>4, CutJoin
  <2>6. /\ IsJoin(s, p, q) /\ p \in Seq(V) /\ q \in Seq(V) /\ Len(p) = k /\ Len(q) = m
        /\ (\A i \in 1..k : p[i] = s[i]) /\ \A i \in 1..m : q[i] = s[k + i]
    BY <2>3, <2>5 DEF Cuts
  <2>7. AllSpace(p)
    <3>1. SUFFICES ASSUME NEW i \in 1..k PROVE p[i] = Space
      BY <2>6 DEF AllSpace
    <3>2. i \in 1..n /\ ~(f <= i)
      BY <2>2, <2>3
    <3>3. i \notin Solid(s)
      BY <2>2, <3>2
    <3> QED
      BY <1>1, <2>6, <3>2, <3>3 DEF Solid
  <2>8. PICK j \in Nat : j = o + 1 /\ o \in 0..m
    <3>1. o + 1 \in Nat /\ o \in 0..m
      BY <2>2, <2>3
    <3> QED
      BY <3>1
  <2>9. PICK x, y : x = SubSeq(q, 1, o) /\ y = SubSeq(q, j, m)
    OBVIOUS
  <2>10. Cuts(V, q, m, o, x, y)
    <3>1. q \in Seq(V) /\ m = Len(q)
      BY <2>6
    <3> QED
      BY <2>8, <2>9, <3>1, CutJoin
  <2>11. /\ IsJoin(q, x, y) /\ x \in Seq(V) /\ y \in Seq(V) /\ Len(x) = o /\ Len(y) = m - o
         /\ (\A i \in 1..o : x[i] = q[i]) /\ \A i \in 1..(m - o) : y[i] = q[o + i]
    BY <2>10 DEF Cuts
  <2>12. AllSpace(y)
    <3>1. SUFFICES ASSUME NEW i \in 1..(m - o) PROVE y[i] = Space
      BY <2>11 DEF AllSpace
    <3>2. o + i \in 1..m /\ k + (o + i) \in 1..n /\ k + (o + i) > g
      BY <2>2, <2>3, <2>8
    <3>3. k + (o + i) \notin Solid(s)
      BY <2>2, <3>2
    <3>4. y[i] = s[k + (o + i)]
      BY <2>6, <2>11, <3>2
    <3> QED
      BY <1>1, <3>2, <3>3, <3>4 DEF Solid
  <2>13. Trim(s) = x
    <3>1. Trim(s) = SubSeq(s, f, g)
      BY <1>3, <2>1 DEF Trim
    <3>2. /\ SubSeq(s, f, g) \in Seq(V) /\ Len(SubSeq(s, f, g)) = g - f + 1
          /\ \A i \in 1..(g - f + 1) : SubSeq(s, f, g)[i] = s[f + i - 1]
      <4>1. SubSeq(s, f, g) \in Seq(V) /\ Len(SubSeq(s, f, g)) = g - f + 1
        BY <1>1, <2>2
      <4> QED
        BY <1>1, <2>2, <4>1
    <3>3. PICK z \in Seq(V) : z = SubSeq(s, f, g) /\ Len(z) = o /\ \A i \in 1..o : z[i] = s[k + i]
      <4>1. g - f + 1 = o /\ \A i \in 1..o : f + i - 1 = k + i
        BY <2>2, <2>3
      <4>2. PICK z \in Seq(V) : z = SubSeq(s, f, g)
        BY <3>2
      <4>3. Len(z) = o /\ \A i \in 1..o : z[i] = s[f + i - 1]
        BY <3>2, <4>1, <4>2
      <4>4. \A i \in 1..o : z[i] = s[k + i]
        BY <4>1, <4>3
      <4> QED
        BY <4>2, <4>3, <4>4
    <3>4. \A i \in 1..o : z[i] = x[i]
      <4>1. \A i \in 1..o : i \in 1..m
        BY <2>8
      <4> QED
        BY <2>6, <2>11, <3>3, <4>1
    <3>5. z = x
      BY <2>11, <3>3, <3>4, SameSequence
    <3> QED
      BY <3>1, <3>3, <3>5
  <2>14. Between(V, s, Trim(s), p, q, y)
    BY <2>6, <2>7, <2>11, <2>12, <2>13 DEF Between
  <2> QED
    BY <2>14
<1> QED
  BY <1>2, <1>3

\* Trimming keeps all that is not space.
LEMMA TrimsKeep ==
  ASSUME NEW V, NEW s \in Seq(V)
  PROVE  /\ NonSpace(Trim(s)) = NonSpace(s) /\ Trim(s) \in Seq(V)
         /\ NonSpace(TrimStart(s)) = NonSpace(s) /\ TrimStart(s) \in Seq(V)
<1>1. PICK a, r, b : Between(V, s, Trim(s), a, r, b)
  BY TrimIs
<1>2. /\ a \in Seq(V) /\ r \in Seq(V) /\ b \in Seq(V) /\ Trim(s) \in Seq(V)
      /\ AllSpace(a) /\ AllSpace(b) /\ IsJoin(s, a, r) /\ IsJoin(r, Trim(s), b)
  BY <1>1 DEF Between
<1>3. NonSpace(s) = NonSpace(r) /\ NonSpace(r) = NonSpace(Trim(s))
  BY <1>2, SpacesAround
<1>4. PICK x \in Seq(V) : AllSpace(x) /\ IsJoin(s, x, TrimStart(s))
  BY TrimStartIs
<1>5. TrimStart(s) \in Seq(V)
  BY TrimStartIs
<1>6. NonSpace(s) = NonSpace(TrimStart(s))
  BY <1>4, <1>5, SpacesAround
<1> QED
  BY <1>2, <1>3, <1>5, <1>6

\* The same with runs of white space made one space.
CollapsedGathered(V, s, n, b, f) ==
  /\ \A i \in 1..n : i \in b <=> ~(s[i] = Space /\ i > 1 /\ s[i - 1] = Space)
  /\ Appends(f, n, b, s)
  /\ Collapsed(s) = f[n] /\ f[0] = <<>> /\ f[n] \in Seq(V)

\* Spaces collapsed, letter by letter.
LEMMA CollapsedIs ==
  ASSUME NEW V, NEW s \in Seq(V), NEW n \in Nat, n = Len(s)
  PROVE  \E b, f : CollapsedGathered(V, s, n, b, f)
<1>1. \A i \in 1..n : s[i] \in V
  OBVIOUS
<1>2. PICK b : b = {i \in 1..Len(s) : ~(s[i] = Space /\ i > 1 /\ s[i - 1] = Space)}
  OBVIOUS
<1> DEFINE Is(f) == f = [i \in 0..Len(s) |->
                           IF i = 0 THEN <<>>
                           ELSE IF s[i] = Space /\ i > 1 /\ s[i - 1] = Space THEN f[i - 1]
                           ELSE Append(f[i - 1], s[i])]
<1>3. ASSUME NEW f PROVE Is(f) <=> Appends(f, n, b, s)
  <2>1. \A i \in 0..n : i # 0 => (i \in b <=> ~(s[i] = Space /\ i > 1 /\ s[i - 1] = Space))
    BY <1>2
  <2>2. [i \in 0..n |-> IF i = 0 THEN <<>>
                        ELSE IF s[i] = Space /\ i > 1 /\ s[i - 1] = Space THEN f[i - 1]
                        ELSE Append(f[i - 1], s[i])]
        = [i \in 0..n |-> IF i = 0 THEN <<>>
                          ELSE IF i \in b THEN Append(f[i - 1], s[i]) ELSE f[i - 1]]
    BY <2>1
  <2> QED
    BY <2>2 DEF Appends
<1>4. /\ \E f : Appends(f, n, b, s)
      /\ \A f : Appends(f, n, b, s) => \A i \in 0..n : f[i] \in Seq(V)
  BY <1>1, AppendsGather
<1>5. Collapsed(s) = (CHOOSE f : Is(f))[n]
  BY DEF Collapsed
<1> HIDE DEF Is
<1>6. \E f : Is(f)
  BY <1>3, <1>4
<1>7. PICK f : f = CHOOSE g : Is(g)
  OBVIOUS
<1>8. Is(f)
  BY <1>6, <1>7, Zenon
<1>9. \A i \in 1..n : i \in b <=> ~(s[i] = Space /\ i > 1 /\ s[i - 1] = Space)
  BY <1>2
<1>10. Appends(f, n, b, s)
  BY <1>3, <1>8
<1>11. f[0] = <<>>
  BY <1>10 DEF Appends
<1>12. f[n] \in Seq(V)
  BY <1>4, <1>10
<1> QED
  BY <1>5, <1>7, <1>9, <1>10, <1>11, <1>12 DEF CollapsedGathered

LEMMA CollapsedMore ==
  ASSUME NEW V, NEW s \in Seq(V), NEW c \in V, NEW u, IsOneMore(u, s, c)
  PROVE  \/ Collapsed(u) = Append(Collapsed(s), c)
         \/ Collapsed(u) = Collapsed(s) /\ c = Space
<1>1. PICK n \in Nat, k \in Nat : n = Len(s) /\ k = n + 1
  <2>1. Len(s) \in Nat /\ Len(s) + 1 \in Nat
    OBVIOUS
  <2> QED
    BY <2>1
<1>2. u \in Seq(V) /\ Len(u) = k /\ u[k] = c /\ \A i \in 1..n : u[i] = s[i]
  BY <1>1, OneMoreFacts
<1>3. PICK b, f : CollapsedGathered(V, s, n, b, f)
  BY <1>1, CollapsedIs
<1>4. PICK d, h : CollapsedGathered(V, u, k, d, h)
  BY <1>2, CollapsedIs
<1>5. h[k] = IF k \in d THEN Append(f[n], u[k]) ELSE f[n]
  <2>1. Appends(f, n, b, s) /\ Appends(h, k, d, u)
    BY <1>3, <1>4 DEF CollapsedGathered
  <2>2. \A i \in 1..n : (i \in b <=> i \in d) /\ s[i] = u[i]
    <3> TAKE i \in 1..n
    <3>1. i \in 1..k /\ (i > 1 => i - 1 \in 1..n)
      BY <1>1
    <3>2. u[i] = s[i] /\ (i > 1 => u[i - 1] = s[i - 1])
      BY <1>2, <3>1
    <3>3. i \in b <=> ~(s[i] = Space /\ i > 1 /\ s[i - 1] = Space)
      BY <1>3 DEF CollapsedGathered
    <3>4. i \in d <=> ~(u[i] = Space /\ i > 1 /\ u[i - 1] = Space)
      BY <1>4, <3>1 DEF CollapsedGathered
    <3> QED
      BY <3>2, <3>3, <3>4
  <2> QED
    BY <1>1, <2>1, <2>2, OneMore
<1>6. k \notin d => u[k] = Space
  <2>1. k \in 1..k
    BY <1>1
  <2> QED
    BY <1>4, <2>1 DEF CollapsedGathered
<1>7. Collapsed(s) = f[n] /\ Collapsed(u) = h[k]
  BY <1>3, <1>4 DEF CollapsedGathered
<1> QED
  BY <1>2, <1>5, <1>6, <1>7

\* Collapsing spaces keeps all that is not space.
LEMMA CollapsedKeeps ==
  ASSUME NEW V, NEW s \in Seq(V)
  PROVE  Collapsed(s) \in Seq(V) /\ NonSpace(Collapsed(s)) = NonSpace(s)
<1>0. ASSUME NEW x \in Seq(V)
      PROVE  Collapsed(x) \in Seq(V) /\ (x = <<>> => Collapsed(x) = <<>>)
  <2>1. PICK n \in Nat : n = Len(x)
    OBVIOUS
  <2>2. PICK b, f : CollapsedGathered(V, x, n, b, f)
    BY <2>1, CollapsedIs
  <2>3. Collapsed(x) = f[n] /\ f[n] \in Seq(V) /\ f[0] = <<>>
    BY <2>2 DEF CollapsedGathered
  <2>4. x = <<>> => n = 0
    BY <2>1
  <2> QED
    BY <2>3, <2>4
<1> DEFINE T == {x \in Seq(V) : NonSpace(Collapsed(x)) = NonSpace(x)}
<1>1. <<>> \in T
  <2>1. PICK none \in Seq(V) : none = <<>>
    <3>1. <<>> \in Seq(V)
      OBVIOUS
    <3> QED
      BY <3>1
  <2>2. Collapsed(none) = none
    BY <1>0, <2>1
  <2> QED
    BY <2>1, <2>2
<1>2. ASSUME NEW x \in Seq(V), NEW c \in V, NEW z \in Seq(V), x \in T, IsOneMore(z, x, c)
      PROVE  z \in T
  <2>1. PICK a \in Seq(V), b \in Seq(V) : a = Collapsed(x) /\ b = Append(a, c)
    <3>1. PICK a \in Seq(V) : a = Collapsed(x)
      BY <1>0
    <3>2. Append(a, c) \in Seq(V)
      OBVIOUS
    <3> QED
      BY <3>1, <3>2
  <2>2. IsOneMore(b, a, c)
    BY <2>1 DEF IsOneMore
  <2>3. NonSpace(b) = IF c # Space THEN Append(NonSpace(a), c) ELSE NonSpace(a)
    BY <2>2, NonSpaceMore
  <2>4. NonSpace(z) = IF c # Space THEN Append(NonSpace(x), c) ELSE NonSpace(x)
    BY <1>2, NonSpaceMore
  <2>5. Collapsed(z) = b \/ (Collapsed(z) = a /\ c = Space)
    BY <1>2, <2>1, CollapsedMore
  <2>6. NonSpace(a) = NonSpace(x)
    BY <1>2, <2>1
  <2>7. NonSpace(b) = NonSpace(z) /\ (c = Space => NonSpace(z) = NonSpace(a))
    BY <2>3, <2>4, <2>6
  <2> QED
    BY <2>5, <2>7
<1>3. \A x \in Seq(V) : x \in T
  <2> HIDE DEF T
  <2>1. \A x \in Seq(V), c \in V, z \in Seq(V) : x \in T /\ IsOneMore(z, x, c) => z \in T
    BY <1>2
  <2> QED
    BY <1>1, <2>1, ByOneMore
<1> QED
  BY <1>0, <1>3

-----------------------------------------------------------------------------
(* Lists of phrases *)

Flattened(V, l, n, f) ==
  /\ Gathers(f, n, l)
  /\ \A i \in 1..n : l[i] \in Seq(V)
  /\ \A i \in 0..n : f[i] \in Seq(V)
  /\ FlattenSeq(l) = f[n]

\* The texts of a list, one after the other.
LEMMA FlattenIs ==
  ASSUME NEW V, NEW l \in Seq(Seq(V)), NEW n \in Nat, n = Len(l)
  PROVE  \E f : Flattened(V, l, n, f)
<1>1. \A i \in 1..n : l[i] \in Seq(V)
  OBVIOUS
<1>2. l \in [1..n -> Seq(V)]
  OBVIOUS
<1>3. PICK f \in [0..n -> Seq(V)] : Gathers(f, n, l)
  BY <1>2, GatherExists
<1>4. CASE n = 0
  <2>1. l = <<>>
    <3>1. PICK W : W = Seq(V)
      OBVIOUS
    <3>2. l \in Seq(W) /\ Len(l) = 0
      BY <1>4, <3>1
    <3> QED
      BY <3>2, NoneLong
  <2>2. FlattenSeq(l) = <<>>
    BY <1>4, <2>1 DEF FlattenSeq
  <2>3. f[0] = <<>>
    BY <1>3 DEF Gathers
  <2>4. \A i \in 0..n : f[i] \in Seq(V)
    BY <1>3
  <2> QED
    BY <1>1, <1>3, <1>4, <2>2, <2>3, <2>4 DEF Flattened
<1>5. CASE n # 0
  <2> DEFINE Is(g) == g = [i \in 1..Len(l) |-> IF i = 1 THEN l[i] ELSE g[i - 1] \o l[i]]
  <2>1. FlattenSeq(l) = (CHOOSE g : Is(g))[n]
    BY <1>5 DEF FlattenSeq
  <2>2. PICK g : g = [i \in 1..n |-> f[i]]
    OBVIOUS
  <2>3. Is(g)
    <3>1. ASSUME NEW i \in 1..n
          PROVE  f[i] = IF i = 1 THEN l[i] ELSE g[i - 1] \o l[i]
      <4>1. f[i] = f[i - 1] \o l[i] /\ f[0] = <<>>
        BY <1>3 DEF Gathers
      <4>2. CASE i = 1
        <5>1. PICK x \in Seq(V) : x = l[i]
          BY <1>1
        <5>2. <<>> \o x = x
          OBVIOUS
        <5>3. i - 1 = 0
          BY <4>2
        <5> QED
          BY <4>1, <4>2, <5>1, <5>2, <5>3
      <4>3. CASE i # 1
        <5>1. i - 1 \in 1..n
          BY <4>3
        <5> QED
          BY <2>2, <4>1, <4>3, <5>1
      <4> QED
        BY <4>2, <4>3
    <3>2. g = [i \in 1..n |-> IF i = 1 THEN l[i] ELSE g[i - 1] \o l[i]]
      BY <2>2, <3>1
    <3> QED
      BY <3>2
  <2>4. PICK h : h = CHOOSE x : Is(x)
    OBVIOUS
  <2>5. Is(h)
    <3> HIDE DEF Is
    <3> QED
      BY <2>3, <2>4, Zenon
  <2>6. PICK k : k = [i \in 0..n |-> IF i = 0 THEN <<>> ELSE h[i]]
    OBVIOUS
  <2>7. k[0] = <<>> /\ \A i \in 1..n : k[i] = h[i]
    BY <2>6
  <2>8. ASSUME NEW i \in 1..n PROVE k[i] = k[i - 1] \o l[i]
    <3>1. h[i] = IF i = 1 THEN l[i] ELSE h[i - 1] \o l[i]
      BY <2>5
    <3>2. CASE i = 1
      <4>1. PICK x \in Seq(V) : x = l[i]
        BY <1>1
      <4>2. <<>> \o x = x
        OBVIOUS
      <4>3. i - 1 = 0
        BY <3>2
      <4> QED
        BY <2>7, <3>1, <3>2, <4>1, <4>2, <4>3
    <3>3. CASE i # 1
      <4>1. i - 1 \in 1..n
        BY <3>3
      <4> QED
        BY <2>7, <3>1, <3>3, <4>1
    <3> QED
      BY <3>2, <3>3
  <2>9. Gathers(k, n, l)
    BY <2>7, <2>8 DEF Gathers
  <2>10. \A i \in 0..n : k[i] \in Seq(V)
    BY <1>1, <2>9, GatherTypes
  <2>11. FlattenSeq(l) = k[n]
    <3>1. n \in 1..n
      BY <1>5
    <3> QED
      BY <2>1, <2>4, <2>7, <3>1
  <2> QED
    BY <1>1, <2>9, <2>10, <2>11 DEF Flattened
<1> QED
  BY <1>4, <1>5

\* The texts of two lists joined are those of the first and those of the second.
LEMMA FlattenJoin ==
  ASSUME NEW V, NEW s \in Seq(Seq(V)), NEW t \in Seq(Seq(V)), NEW u, IsJoin(u, s, t)
  PROVE  /\ FlattenSeq(s) \in Seq(V) /\ FlattenSeq(t) \in Seq(V) /\ FlattenSeq(u) \in Seq(V)
         /\ IsJoin(FlattenSeq(u), FlattenSeq(s), FlattenSeq(t))
<1>1. PICK n \in Nat, m \in Nat, k \in Nat : n = Len(s) /\ m = Len(t) /\ k = n + m
  <2>1. Len(s) \in Nat /\ Len(t) \in Nat /\ Len(s) + Len(t) \in Nat
    OBVIOUS
  <2> QED
    BY <2>1
<1>2. /\ u \in Seq(Seq(V)) /\ Len(u) = k /\ (\A i \in 1..n : u[i] = s[i])
      /\ \A i \in 1..m : u[n + i] = t[i]
  <2>1. PICK W : W = Seq(V)
    OBVIOUS
  <2>2. /\ u \in Seq(W) /\ Len(u) = Len(s) + Len(t)
        /\ (\A i \in 1..Len(s) : u[i] = s[i])
        /\ \A i \in 1..Len(t) : u[Len(s) + i] = t[i]
    <3>1. s \in Seq(W) /\ t \in Seq(W)
      BY <2>1
    <3> QED
      BY <3>1, JoinFacts
  <2> QED
    BY <1>1, <2>1, <2>2
<1>3. PICK f : Flattened(V, s, n, f)
  BY <1>1, FlattenIs
<1>4. PICK g : Flattened(V, t, m, g)
  BY <1>1, FlattenIs
<1>5. PICK h : Flattened(V, u, k, h)
  BY <1>2, FlattenIs
<1>6. PartOf(V, 0, n, s, u)
  <2>1. \A i \in 1..n : s[i] \in Seq(V) /\ 0 + i = i
    BY <1>1
  <2> QED
    BY <1>2, <2>1 DEF PartOf
<1>7. PartOf(V, n, m, t, u)
  <2>1. \A i \in 1..m : t[i] \in Seq(V)
    BY <1>1
  <2> QED
    BY <1>2, <2>1 DEF PartOf
<1>8. IsJoin(h[k], f[n], g[m])
  <2>1. Gathers(f, n, s) /\ Gathers(g, m, t) /\ Gathers(h, k, u)
    BY <1>3, <1>4, <1>5 DEF Flattened
  <2>2. GathersBoth(V, n, s, f, m, t, g, k, u, h)
    BY <1>1, <1>6, <1>7, <2>1 DEF GathersBoth
  <2> QED
    BY <2>2, GatherConcat
<1>9. /\ FlattenSeq(s) = f[n] /\ FlattenSeq(t) = g[m] /\ FlattenSeq(u) = h[k]
      /\ f[n] \in Seq(V) /\ g[m] \in Seq(V) /\ h[k] \in Seq(V)
  BY <1>3, <1>4, <1>5 DEF Flattened
<1> QED
  BY <1>8, <1>9

LEMMA FlattenOne ==
  ASSUME NEW V, NEW p \in Seq(V)
  PROVE  FlattenSeq(<<>>) = <<>> /\ FlattenSeq(<<p>>) = p
<1>1. FlattenSeq(<<>>) = <<>>
  <2>1. Len(<<>>) = 0
    OBVIOUS
  <2> QED
    BY <2>1 DEF FlattenSeq
<1>2. FlattenSeq(<<p>>) = p
  <2>1. PICK l \in Seq(Seq(V)) : l = <<p>> /\ Len(l) = 1 /\ l[1] = p
    <3>1. <<p>> \in Seq(Seq(V)) /\ Len(<<p>>) = 1 /\ <<p>>[1] = p
      OBVIOUS
    <3> QED
      BY <3>1
  <2>2. PICK f : Flattened(V, l, 1, f)
    BY <2>1, FlattenIs
  <2>3. f[0] = <<>> /\ FlattenSeq(l) = f[1] /\ \A i \in 1..1 : f[i] = f[i - 1] \o l[i]
    BY <2>2, Zenon DEF Flattened, Gathers
  <2>4. 1 \in 1..1 /\ 1 - 1 = 0
    OBVIOUS
  <2>5. f[1] = <<>> \o p
    BY <2>1, <2>3, <2>4
  <2>6. <<>> \o p = p
    OBVIOUS
  <2> QED
    BY <2>1, <2>3, <2>5, <2>6
<1> QED
  BY <1>1, <1>2

\* The spaces between the phrases of the tail are nothing that is heard.
LEMMA JoinedIs ==
  ASSUME NEW V, Space \in V, NEW l \in Seq(Seq(V))
  PROVE  Joined(l) \in Seq(V) /\ NonSpace(Joined(l)) = NonSpace(FlattenSeq(l))
<1>1. PICK n \in Nat : n = Len(l)
  OBVIOUS
<1>2. PICK f : Flattened(V, l, n, f)
  BY <1>1, FlattenIs
<1>3. (\A i \in 1..n : l[i] \in Seq(V)) /\ (\A i \in 0..n : f[i] \in Seq(V))
      /\ FlattenSeq(l) = f[n] /\ f[0] = <<>> /\ \A i \in 1..n : f[i] = f[i - 1] \o l[i]
  BY <1>2, Zenon DEF Flattened, Gathers
<1> DEFINE A == Seq(V)
           Of(x, i) == IF i = 1 THEN l[i] ELSE x \o <<Space>> \o l[i]
           Is(g) == g = [i \in 0..Len(l) |->
                          IF i = 0 THEN <<>>
                          ELSE IF i = 1 THEN l[i] ELSE g[i - 1] \o <<Space>> \o l[i]]
<1>4. Joined(l) = (CHOOSE g : Is(g))[n]
  BY <1>1 DEF Joined
<1>5. \E g : Is(g)
  <2>1. PICK C : C = [i \in 0..n |-> [x \in A |-> IF i = 0 THEN <<>> ELSE Of(x, i)]]
    OBVIOUS
  <2>2. \A i \in 0..n : \A x \in A : (IF i = 0 THEN <<>> ELSE Of(x, i)) \in A
    <3> TAKE i \in 0..n
    <3> TAKE x \in A
    <3>1. CASE i = 0
      <4>1. <<>> \in Seq(V)
        OBVIOUS
      <4> QED
        BY <3>1, <4>1
    <3>2. CASE i # 0
      <4>1. PICK y \in Seq(V) : y = l[i]
        <5>1. i \in 1..n
          BY <3>2
        <5> QED
          BY <1>3, <5>1
      <4>2. x \o <<Space>> \o y \in Seq(V)
        OBVIOUS
      <4> QED
        BY <3>2, <4>1, <4>2
    <3> QED
      BY <3>1, <3>2
  <2>3. C \in [0..n -> [A -> A]]
    <3> HIDE DEF A, Of
    <3> QED
      BY <2>1, <2>2
  <2>4. PICK none \in A : none = <<>>
    <3>1. <<>> \in Seq(V)
      OBVIOUS
    <3> QED
      BY <3>1
  <2>5. PICK g \in [0..n -> A] : Steps(g, n, none, C)
    <3> HIDE DEF A
    <3> QED
      BY <2>3, <2>4, StepsExist
  <2>6. g[0] = <<>> /\ \A i \in 1..n : g[i] = C[i][g[i - 1]]
    BY <2>4, <2>5 DEF Steps
  <2>7. ASSUME NEW i \in 0..n, i # 0 PROVE g[i] = Of(g[i - 1], i)
    <3>1. i \in 1..n /\ i - 1 \in 0..n
      BY <2>7
    <3>2. g[i - 1] \in A
      <4> HIDE DEF A
      <4> QED
        BY <2>5, <3>1
    <3>3. C[i][g[i - 1]] = Of(g[i - 1], i)
      <4> HIDE DEF A, Of
      <4> QED
        BY <2>1, <2>7, <3>2
    <3> QED
      BY <2>6, <3>1, <3>3
  <2>8. \A i \in 0..n : g[i] = IF i = 0 THEN <<>>
                               ELSE IF i = 1 THEN l[i] ELSE g[i - 1] \o <<Space>> \o l[i]
    BY <2>6, <2>7
  <2>9. g = [i \in 0..n |-> g[i]]
    BY <2>5
  <2>10. g = [i \in 0..n |-> IF i = 0 THEN <<>>
                             ELSE IF i = 1 THEN l[i] ELSE g[i - 1] \o <<Space>> \o l[i]]
    BY <2>8, <2>9
  <2>11. Is(g)
    BY <1>1, <2>10
  <2> QED
    <3> HIDE DEF Is
    <3> QED
      BY <2>11
<1>6. PICK h : h = CHOOSE g : Is(g)
  OBVIOUS
<1>7. Is(h)
  <2> HIDE DEF Is
  <2> QED
    BY <1>5, <1>6, Zenon
<1>8. \A i \in 0..n : h[i] = IF i = 0 THEN <<>>
                             ELSE IF i = 1 THEN l[i] ELSE h[i - 1] \o <<Space>> \o l[i]
  BY <1>1, <1>7
<1> DEFINE T == {i \in 0..n : h[i] \in Seq(V) /\ NonSpace(h[i]) = NonSpace(f[i])}
<1>9. 0 \in T
  <2>1. <<>> \in Seq(V) /\ 0 \in 0..n
    OBVIOUS
  <2> QED
    BY <1>3, <1>8, <2>1
<1>10. \A i \in 0..n : i < n /\ i \in T => i + 1 \in T
  <2> SUFFICES ASSUME NEW i \in 0..n, i < n, i \in T PROVE i + 1 \in T
    OBVIOUS
  <2>1. i + 1 \in 1..n /\ i + 1 \in 0..n /\ i + 1 # 0 /\ (i + 1) - 1 = i
    OBVIOUS
  <2>2. PICK x \in Seq(V), y \in Seq(V), z \in Seq(V) : x = h[i] /\ y = l[i + 1] /\ z = f[i]
    <3>1. h[i] \in Seq(V) /\ l[i + 1] \in Seq(V) /\ f[i] \in Seq(V)
      BY <1>3, <2>1
    <3> QED
      BY <3>1
  <2>3. f[i + 1] = z \o y
    BY <1>3, <2>1, <2>2
  <2>4. h[i + 1] = IF i + 1 = 1 THEN y ELSE x \o <<Space>> \o y
    BY <1>8, <2>1, <2>2
  <2>5. NonSpace(x) = NonSpace(z)
    BY <2>2
  <2>6. CASE i = 0
    <3>1. <<>> \o y = y /\ z = <<>>
      BY <1>3, <2>2, <2>6
    <3>2. h[i + 1] = y /\ f[i + 1] = y
      BY <2>3, <2>4, <2>6, <3>1
    <3> QED
      BY <2>1, <3>2
  <2>7. CASE i # 0
    <3>1. h[i + 1] = x \o <<Space>> \o y
      BY <2>4, <2>7
    <3>2. PICK v \in Seq(V), w \in Seq(V), o \in Seq(V) : v = <<Space>> /\ w = x \o v /\ o = w \o y
      <4>1. <<Space>> \in Seq(V)
        OBVIOUS
      <4>2. PICK v \in Seq(V) : v = <<Space>>
        BY <4>1
      <4>3. x \o v \in Seq(V)
        OBVIOUS
      <4>4. PICK w \in Seq(V) : w = x \o v
        BY <4>3
      <4>5. w \o y \in Seq(V)
        OBVIOUS
      <4> QED
        BY <4>2, <4>4, <4>5
    <3>3. AllSpace(v)
      <4>1. Len(<<Space>>) = 1 /\ <<Space>>[1] = Space /\ \A j \in 1..1 : j = 1
        OBVIOUS
      <4> QED
        BY <3>2, <4>1 DEF AllSpace
    <3>4. NonSpace(w) = NonSpace(x)
      <4>1. IsJoin(w, x, v)
        BY <3>2 DEF IsJoin
      <4> QED
        BY <3>3, <4>1, SpacesAround
    <3>5. PICK p : p = f[i + 1]
      OBVIOUS
    <3>6. NonSpace(o) = NonSpace(p)
      <4>1. IsJoin(o, w, y) /\ IsJoin(p, z, y)
        BY <2>3, <3>2, <3>5 DEF IsJoin
      <4>2. IsJoin(NonSpace(o), NonSpace(w), NonSpace(y))
        BY <4>1, NonSpaceJoin
      <4>3. IsJoin(NonSpace(p), NonSpace(z), NonSpace(y))
        BY <4>1, NonSpaceJoin
      <4> QED
        BY <2>5, <3>4, <4>2, <4>3 DEF IsJoin
    <3>7. h[i + 1] = o
      BY <3>1, <3>2
    <3> QED
      BY <2>1, <3>2, <3>5, <3>6, <3>7
  <2> QED
    BY <2>6, <2>7
<1>11. n \in T
  <2> HIDE DEF T
  <2>1. \A i \in 0..n : i \in T
    BY <1>9, <1>10, UpTo
  <2> QED
    BY <2>1
<1> QED
  BY <1>3, <1>4, <1>6, <1>11

-----------------------------------------------------------------------------
(* The functions of the answer that are defined by recursion *)

\* Induction on the length of a sequence, with a set for what is to be shown.
LEMMA ShorterFirst ==
  ASSUME NEW V, NEW T,
         \A s \in Seq(V) : (\A t \in Seq(V) : Len(t) < Len(s) => t \in T) => s \in T
  PROVE  \A s \in Seq(V) : s \in T
<1> DEFINE Wrong == {n \in Nat : \E s \in Seq(V) : Len(s) = n /\ s \notin T}
<1>1. SUFFICES ASSUME Wrong # {} PROVE FALSE
  <2>1. \A s \in Seq(V) : Len(s) \in Nat
    OBVIOUS
  <2> QED
    BY <2>1
<1>2. PICK n \in Wrong : \A k \in Wrong : n <= k
  <2>1. Wrong \in SUBSET Nat
    OBVIOUS
  <2> HIDE DEF Wrong
  <2> QED
    BY <1>1, <2>1, LeastNumber
<1>3. PICK s \in Seq(V) : Len(s) = n /\ s \notin T
  BY <1>2
<1>4. ASSUME NEW t \in Seq(V), Len(t) < Len(s) PROVE t \in T
  <2>1. Len(t) \in Nat /\ Len(t) < n /\ n \in Nat
    BY <1>2, <1>3, <1>4
  <2>2. Len(t) \notin Wrong
    BY <1>2, <2>1
  <2> QED
    BY <2>1, <2>2
<1> QED
  BY <1>3, <1>4

\* The tags are words.
LEMMA TagFacts ==
  ASSUME NEW tag \in {OpenTag, CloseTag}
  PROVE  \E W : /\ tag \in Seq(W) /\ tag # <<>> /\ Len(tag) \in Nat /\ Len(tag) # 0
                /\ \A j \in 1..Len(tag) : tag[j] # Space
<1>1. tag \in Seq(ToSet(tag)) /\ tag # <<>> /\ " " \notin ToSet(tag)
  BY AnswerStreamAssumption
<1>2. PICK W : W = ToSet(tag)
  OBVIOUS
<1>3. tag \in Seq(W) /\ Space \notin W
  BY <1>1, <1>2 DEF Space
<1>4. \A j \in 1..Len(tag) : tag[j] \in W
  BY <1>3
<1>5. \A j \in 1..Len(tag) : tag[j] # Space
  BY <1>3, <1>4
<1>6. Len(tag) \in Nat /\ Len(tag) # 0
  <2>1. Len(tag) \in Nat
    BY <1>3
  <2> QED
    BY <1>1, <1>3, <2>1, NoneLong
<1> QED
  BY <1>1, <1>3, <1>5, <1>6

\* What is after a tag is shorter than the text.
LEMMA AfterTag ==
  ASSUME NEW V, NEW s \in Seq(V), NEW tag \in {OpenTag, CloseTag}, Begins(s, tag) # {}
  PROVE  /\ Before(s, tag) \in Seq(V) /\ After(s, tag) \in Seq(V)
         /\ Len(After(s, tag)) < Len(s)
         /\ \E r \in Seq(V) : IsJoin(s, Before(s, tag), r)
<1>1. PICK W : tag \in Seq(W) /\ tag # <<>>
  BY TagFacts
<1> QED
  BY <1>1, SearchShortens

LEMMA LetterFacts == \A a \in SpokenAnswers : a \in Seq(Letters)
<1> SUFFICES ASSUME NEW a \in SpokenAnswers PROVE a \in Seq(Letters)
  OBVIOUS
<1>1. PICK W : W = ToSet(a)
  OBVIOUS
<1>2. a \in Seq(W)
  BY <1>1, AnswerStreamAssumption
<1>3. \A x \in W : x \in Letters
  BY <1>1 DEF Letters
<1>4. a \in [1..Len(a) -> Letters] /\ Len(a) \in Nat
  BY <1>2, <1>3
<1> QED
  BY <1>4

Ending(s) == After(After(s, OpenTag), CloseTag)
ThoughtEnds(s) == Begins(s, OpenTag) # {} /\ Begins(After(s, OpenTag), CloseTag) # {}

LEMMA EndingFacts ==
  ASSUME NEW V, NEW s \in Seq(V), ThoughtEnds(s)
  PROVE  Ending(s) \in Seq(V) /\ Len(Ending(s)) < Len(s)
<1>1. PICK t \in Seq(V) : t = After(s, OpenTag) /\ Len(t) < Len(s)
  BY AfterTag DEF ThoughtEnds
<1>2. PICK u \in Seq(V) : u = After(t, CloseTag) /\ Len(u) < Len(t)
  BY <1>1, AfterTag DEF ThoughtEnds
<1>3. Len(u) < Len(s)
  BY <1>1, <1>2
<1> QED
  BY <1>1, <1>2, <1>3 DEF Ending

\* What is said of s: the thoughts are left out.
SaidStep(s, more) ==
  IF Begins(s, OpenTag) = {} THEN s
  ELSE Before(s, OpenTag) \o (IF ThoughtEnds(s) THEN more ELSE <<>>)

LEMMA SaidStepTypes ==
  ASSUME NEW V, NEW s \in Seq(V), NEW more, ThoughtEnds(s) => more \in Seq(V)
  PROVE  SaidStep(s, more) \in Seq(V)
<1>1. CASE Begins(s, OpenTag) = {}
  BY <1>1 DEF SaidStep
<1>2. CASE Begins(s, OpenTag) # {}
  <2>1. PICK p \in Seq(V) : p = Before(s, OpenTag)
    BY <1>2, AfterTag
  <2>2. <<>> \in Seq(V)
    OBVIOUS
  <2>3. PICK q \in Seq(V) : q = IF ThoughtEnds(s) THEN more ELSE <<>>
    BY <2>2
  <2>4. p \o q \in Seq(V)
    OBVIOUS
  <2> QED
    BY <1>2, <2>1, <2>3, <2>4 DEF SaidStep
<1> QED
  BY <1>1, <1>2

\* Said is what its definition says, for every text: its recursion is on a shorter text.
LEMMA SaidIs ==
  ASSUME NEW s \in Seq(Letters)
  PROVE  Said[s] = SaidStep(s, Said[Ending(s)]) /\ Said[s] \in Seq(Letters)
<1>1. PICK S : S = Seq(Letters)
  OBVIOUS
<1>2. PICK M : M = [x \in S |-> Len(x)]
  OBVIOUS
<1>3. M \in [S -> Nat]
  BY <1>1, <1>2
<1>4. PICK C : C = [x \in S |-> [f \in [S -> S] |-> SaidStep(x, f[Ending(x)])]]
  OBVIOUS
<1>5. \A x \in S : ThoughtEnds(x) => Ending(x) \in S /\ Len(Ending(x)) < Len(x)
  BY <1>1, EndingFacts
<1>6. C \in [S -> [[S -> S] -> S]]
  <2>1. ASSUME NEW x \in S, NEW f \in [S -> S] PROVE SaidStep(x, f[Ending(x)]) \in S
    <3>1. ThoughtEnds(x) => f[Ending(x)] \in S
      BY <1>5
    <3> QED
      BY <1>1, <3>1, SaidStepTypes
  <2> QED
    BY <1>4, <2>1
<1>7. Depends(S, S, M, C)
  <2> SUFFICES ASSUME NEW x \in S, NEW f \in [S -> S], NEW g \in [S -> S],
                      \A t \in S : M[t] < M[x] => f[t] = g[t]
               PROVE  C[x][f] = C[x][g]
    BY DEF Depends
  <2>1. ThoughtEnds(x) => f[Ending(x)] = g[Ending(x)]
    BY <1>2, <1>5
  <2>2. SaidStep(x, f[Ending(x)]) = SaidStep(x, g[Ending(x)])
    BY <2>1 DEF SaidStep
  <2> QED
    BY <1>4, <2>2
<1>8. [x \in S |-> x] \in [S -> S]
  OBVIOUS
<1>9. PICK f \in [S -> S] : Recurs(f, S, C)
  BY <1>3, <1>6, <1>7, <1>8, RecursionExists
<1> DEFINE Is(g) == g = [x \in Seq(Letters) |->
                          IF Begins(x, OpenTag) = {} THEN x
                          ELSE Before(x, OpenTag)
                               \o (IF Begins(After(x, OpenTag), CloseTag) = {} THEN <<>>
                                   ELSE g[After(After(x, OpenTag), CloseTag)])]
<1>0. ASSUME NEW g, NEW x
      PROVE  SaidStep(x, g[Ending(x)])
             = IF Begins(x, OpenTag) = {} THEN x
               ELSE Before(x, OpenTag)
                    \o (IF Begins(After(x, OpenTag), CloseTag) = {} THEN <<>>
                        ELSE g[After(After(x, OpenTag), CloseTag)])
  BY DEF SaidStep, ThoughtEnds, Ending
<1>10. Is(f)
  <2>1. \A x \in S : f[x] = SaidStep(x, f[Ending(x)])
    BY <1>4, <1>9 DEF Recurs
  <2>2. f = [x \in S |-> f[x]]
    OBVIOUS
  <2>3. f = [x \in S |-> SaidStep(x, f[Ending(x)])]
    BY <2>1, <2>2
  <2> QED
    BY <1>0, <1>1, <2>3
<1>11. Said = CHOOSE g : Is(g)
  BY DEF Said
<1>12. Is(Said)
  <2> HIDE DEF Is
  <2> QED
    BY <1>10, <1>11, Zenon
<1>13. \A x \in S : Said[x] = SaidStep(x, Said[Ending(x)])
  BY <1>0, <1>1, <1>12
<1> DEFINE T == {x \in S : Said[x] \in S}
<1>14. \A x \in S : x \in T
  <2>1. ASSUME NEW x \in S, \A t \in S : Len(t) < Len(x) => t \in T
        PROVE  x \in T
    <3>1. ThoughtEnds(x) => Said[Ending(x)] \in S
      BY <1>5, <2>1
    <3>2. SaidStep(x, Said[Ending(x)]) \in S
      BY <1>1, <3>1, SaidStepTypes
    <3> QED
      BY <1>13, <3>2
  <2> HIDE DEF T
  <2> QED
    BY <1>1, <2>1, ShorterFirst
<1> QED
  BY <1>1, <1>13, <1>14

\* Without the thoughts that end.
WithoutStep(s, more) == IF ThoughtEnds(s) THEN Before(s, OpenTag) \o more ELSE s
Onward(s) == TrimStart(Ending(s))

LEMMA OnwardFacts ==
  ASSUME NEW V, NEW s \in Seq(V), ThoughtEnds(s)
  PROVE  Onward(s) \in Seq(V) /\ Len(Onward(s)) < Len(s)
<1>1. PICK t \in Seq(V) : t = Ending(s) /\ Len(t) < Len(s)
  BY EndingFacts
<1>2. TrimStart(t) \in Seq(V) /\ Len(TrimStart(t)) <= Len(t)
  BY TrimStartIs
<1>3. Len(TrimStart(t)) < Len(s)
  BY <1>1, <1>2
<1> QED
  BY <1>1, <1>2, <1>3 DEF Onward

LEMMA WithoutStepTypes ==
  ASSUME NEW V, NEW s \in Seq(V), NEW more, ThoughtEnds(s) => more \in Seq(V)
  PROVE  WithoutStep(s, more) \in Seq(V)
<1>1. CASE ~ThoughtEnds(s)
  BY <1>1 DEF WithoutStep
<1>2. CASE ThoughtEnds(s)
  <2>1. PICK p \in Seq(V) : p = Before(s, OpenTag)
    BY <1>2, AfterTag DEF ThoughtEnds
  <2>2. PICK q \in Seq(V) : q = more
    BY <1>2
  <2>3. p \o q \in Seq(V)
    OBVIOUS
  <2> QED
    BY <1>2, <2>1, <2>2, <2>3 DEF WithoutStep
<1> QED
  BY <1>1, <1>2

\* So is WithoutThoughts.
LEMMA WithoutIs ==
  ASSUME NEW s \in Seq(Letters)
  PROVE  /\ WithoutThoughts[s] = WithoutStep(s, WithoutThoughts[Onward(s)])
         /\ WithoutThoughts[s] \in Seq(Letters)
<1>1. PICK S : S = Seq(Letters)
  OBVIOUS
<1>2. PICK M : M = [x \in S |-> Len(x)]
  OBVIOUS
<1>3. M \in [S -> Nat]
  BY <1>1, <1>2
<1>4. PICK C : C = [x \in S |-> [f \in [S -> S] |-> WithoutStep(x, f[Onward(x)])]]
  OBVIOUS
<1>5. \A x \in S : ThoughtEnds(x) => Onward(x) \in S /\ Len(Onward(x)) < Len(x)
  BY <1>1, OnwardFacts
<1>6. C \in [S -> [[S -> S] -> S]]
  <2>1. ASSUME NEW x \in S, NEW f \in [S -> S] PROVE WithoutStep(x, f[Onward(x)]) \in S
    <3>1. ThoughtEnds(x) => f[Onward(x)] \in S
      BY <1>5
    <3> QED
      BY <1>1, <3>1, WithoutStepTypes
  <2> QED
    BY <1>4, <2>1
<1>7. Depends(S, S, M, C)
  <2> SUFFICES ASSUME NEW x \in S, NEW f \in [S -> S], NEW g \in [S -> S],
                      \A t \in S : M[t] < M[x] => f[t] = g[t]
               PROVE  C[x][f] = C[x][g]
    BY DEF Depends
  <2>1. ThoughtEnds(x) => f[Onward(x)] = g[Onward(x)]
    BY <1>2, <1>5
  <2>2. WithoutStep(x, f[Onward(x)]) = WithoutStep(x, g[Onward(x)])
    BY <2>1 DEF WithoutStep
  <2> QED
    BY <1>4, <2>2
<1>8. [x \in S |-> x] \in [S -> S]
  OBVIOUS
<1>9. PICK f \in [S -> S] : Recurs(f, S, C)
  BY <1>3, <1>6, <1>7, <1>8, RecursionExists
<1> DEFINE Is(g) == g = [x \in Seq(Letters) |->
                          IF Begins(x, OpenTag) = {} \/ Begins(After(x, OpenTag), CloseTag) = {} THEN x
                          ELSE Before(x, OpenTag) \o g[TrimStart(After(After(x, OpenTag), CloseTag))]]
<1>0. ASSUME NEW g, NEW x
      PROVE  WithoutStep(x, g[Onward(x)])
             = IF Begins(x, OpenTag) = {} \/ Begins(After(x, OpenTag), CloseTag) = {} THEN x
               ELSE Before(x, OpenTag) \o g[TrimStart(After(After(x, OpenTag), CloseTag))]
  BY DEF WithoutStep, ThoughtEnds, Ending, Onward
<1>10. Is(f)
  <2>1. \A x \in S : f[x] = WithoutStep(x, f[Onward(x)])
    BY <1>4, <1>9 DEF Recurs
  <2>2. f = [x \in S |-> f[x]]
    OBVIOUS
  <2>3. f = [x \in S |-> WithoutStep(x, f[Onward(x)])]
    BY <2>1, <2>2
  <2> QED
    BY <1>0, <1>1, <2>3
<1>11. WithoutThoughts = CHOOSE g : Is(g)
  BY DEF WithoutThoughts
<1>12. Is(WithoutThoughts)
  <2> HIDE DEF Is
  <2> QED
    BY <1>10, <1>11, Zenon
<1>13. \A x \in S : WithoutThoughts[x] = WithoutStep(x, WithoutThoughts[Onward(x)])
  BY <1>0, <1>1, <1>12
<1> DEFINE T == {x \in S : WithoutThoughts[x] \in S}
<1>14. \A x \in S : x \in T
  <2>1. ASSUME NEW x \in S, \A t \in S : Len(t) < Len(x) => t \in T
        PROVE  x \in T
    <3>1. ThoughtEnds(x) => WithoutThoughts[Onward(x)] \in S
      BY <1>5, <2>1
    <3>2. WithoutStep(x, WithoutThoughts[Onward(x)]) \in S
      BY <1>1, <3>1, WithoutStepTypes
    <3> QED
      BY <1>13, <3>2
  <2> HIDE DEF T
  <2> QED
    BY <1>1, <2>1, ShorterFirst
<1> QED
  BY <1>1, <1>13, <1>14

\* The tag that the filter looks for, and what it makes of a buffer.
Sought(t) == IF t THEN CloseTag ELSE OpenTag
Kept(b) ==
  [out |-> SubSeq(b, 1, SafeLength(b)), kept |-> From(b, SafeLength(b) + 1), thinking |-> FALSE]
FilterStep(b, t, more) ==
  IF Begins(b, Sought(t)) = {}
  THEN IF t THEN [out |-> <<>>, kept |-> KeepThought(b), thinking |-> TRUE] ELSE Kept(b)
  ELSE IF t THEN more ELSE [more EXCEPT !.out = Before(b, OpenTag) \o @]

Filtered(V) == [out : Seq(V), kept : Seq(V), thinking : BOOLEAN]

KeptCut(V, b, n, k) ==
  /\ Cuts(V, b, n, k, SubSeq(b, 1, SafeLength(b)), From(b, SafeLength(b) + 1))
  /\ n - k < Len(OpenTag) /\ (k # 0 => n - k = Len(OpenTag) - 1)

\* The buffer splits into what is let through, or dropped, and what is kept.
LEMMA FilterCuts ==
  ASSUME NEW V, NEW b \in Seq(V), NEW n \in Nat, n = Len(b)
  PROVE  /\ \E k \in 0..n, p \in Seq(V) : 
            /\ Cuts(V, b, n, k, p, KeepThought(b)) /\ n - k < Len(CloseTag)
            /\ (k # 0 => n - k = Len(CloseTag) - 1)
         /\ \E k \in 0..n : KeptCut(V, b, n, k)
<1>1. PICK c \in Nat : c = Len(CloseTag) /\ c # 0
  BY TagFacts
<1>2. PICK o \in Nat : o = Len(OpenTag) /\ o # 0
  BY TagFacts
<1>3. \E k \in 0..n, p \in Seq(V) : 
            /\ Cuts(V, b, n, k, p, KeepThought(b)) /\ n - k < Len(CloseTag)
            /\ (k # 0 => n - k = Len(CloseTag) - 1)
  <2>1. PICK k \in Nat, l \in Nat : /\ k \in 0..n /\ l = k + 1 /\ l = Bigger(1, n - c + 2)
                                    /\ n - k < c /\ (k # 0 => n - k = c - 1)
    <3>1. CASE 1 < n - c + 2
      <4>1. n - c + 1 \in 0..n /\ n - c + 2 \in Nat
        BY <1>1, <3>1
      <4>2. Bigger(1, n - c + 2) = n - c + 2
        BY <3>1 DEF Bigger
      <4>3. PICK k \in {n - c + 1}, l \in {n - c + 2} : k = n - c + 1 /\ l = n - c + 2 /\ k \in 0..n
        BY <4>1
      <4>4. l = k + 1 /\ l = Bigger(1, n - c + 2) /\ n - k < c /\ (k # 0 => n - k = c - 1)
        BY <1>1, <4>2, <4>3
      <4>5. k \in Nat /\ l \in Nat
        BY <4>1, <4>3
      <4> QED
        BY <4>3, <4>4, <4>5
    <3>2. CASE ~(1 < n - c + 2)
      <4>1. Bigger(1, n - c + 2) = 1
        BY <3>2 DEF Bigger
      <4>2. n - 0 < c /\ 0 \in 0..n /\ 1 = 0 + 1 /\ 0 \in Nat /\ 1 \in Nat
        BY <1>1, <3>2
      <4> QED
        BY <4>1, <4>2
    <3> QED
      BY <3>1, <3>2
  <2>2. PICK p, q : p = SubSeq(b, 1, k) /\ q = SubSeq(b, l, n)
    OBVIOUS
  <2>3. Cuts(V, b, n, k, p, q)
    BY <2>1, <2>2, CutJoin
  <2>4. KeepThought(b) = q
    BY <1>1, <2>1, <2>2 DEF KeepThought
  <2>5. p \in Seq(V)
    BY <2>3 DEF Cuts
  <2> QED
    BY <1>1, <2>1, <2>3, <2>4, <2>5
<1>4. \E k \in 0..n : KeptCut(V, b, n, k)
  <2>1. PICK k \in Nat, l \in Nat : /\ k \in 0..n /\ l = k + 1 /\ k = SafeLength(b)
                                    /\ n - k < o /\ (k # 0 => n - k = o - 1)
    <3>0. SafeLength(b) = Bigger(0, n - (o - 1))
      BY <1>2 DEF SafeLength
    <3>1. CASE 0 < n - (o - 1)
      <4>1. n - (o - 1) \in 0..n /\ (n - (o - 1)) + 1 \in Nat
        BY <1>2, <3>1
      <4>2. SafeLength(b) = n - (o - 1)
        BY <3>0, <3>1 DEF Bigger
      <4>3. PICK k \in {n - (o - 1)}, l \in {(n - (o - 1)) + 1} :
              k = n - (o - 1) /\ l = k + 1 /\ k \in 0..n /\ k \in Nat /\ l \in Nat
        BY <4>1
      <4>4. k = SafeLength(b) /\ n - k < o /\ (k # 0 => n - k = o - 1)
        BY <1>2, <4>2, <4>3
      <4> QED
        BY <4>3, <4>4
    <3>2. CASE ~(0 < n - (o - 1))
      <4>1. SafeLength(b) = 0
        BY <3>0, <3>2 DEF Bigger
      <4>2. n - 0 < o /\ 0 \in 0..n /\ 1 = 0 + 1 /\ 0 \in Nat /\ 1 \in Nat
        BY <1>2, <3>2
      <4> QED
        BY <4>1, <4>2
    <3> QED
      BY <3>1, <3>2
  <2>2. PICK p, q : p = SubSeq(b, 1, k) /\ q = SubSeq(b, l, n)
    OBVIOUS
  <2>3. Cuts(V, b, n, k, p, q)
    BY <2>1, <2>2, CutJoin
  <2>4. SubSeq(b, 1, SafeLength(b)) = p /\ From(b, SafeLength(b) + 1) = q
    BY <2>1, <2>2 DEF From
  <2>5. KeptCut(V, b, n, k)
    BY <1>2, <2>1, <2>3, <2>4 DEF KeptCut
  <2> QED
    BY <2>1, <2>5
<1> QED
  BY <1>3, <1>4

LEMMA SoughtFacts ==
  ASSUME NEW V, NEW b \in Seq(V), NEW t \in BOOLEAN, Begins(b, Sought(t)) # {}
  PROVE  /\ After(b, Sought(t)) \in Seq(V) /\ Len(After(b, Sought(t))) < Len(b)
         /\ Before(b, Sought(t)) \in Seq(V)
<1>1. Sought(t) \in {OpenTag, CloseTag}
  BY DEF Sought
<1> QED
  BY <1>1, AfterTag

LEMMA FilterStepTypes ==
  ASSUME NEW V, NEW b \in Seq(V), NEW t \in BOOLEAN, NEW more,
         Begins(b, Sought(t)) # {} => more \in Filtered(V)
  PROVE  FilterStep(b, t, more) \in Filtered(V)
<1>1. PICK n \in Nat : n = Len(b)
  OBVIOUS
<1>2. KeepThought(b) \in Seq(V)
  <2>1. PICK k \in 0..n, p \in Seq(V) : Cuts(V, b, n, k, p, KeepThought(b))
    BY <1>1, FilterCuts
  <2> QED
    BY <2>1 DEF Cuts
<1>3. SubSeq(b, 1, SafeLength(b)) \in Seq(V) /\ From(b, SafeLength(b) + 1) \in Seq(V)
  <2>1. PICK k \in 0..n : KeptCut(V, b, n, k)
    BY <1>1, FilterCuts
  <2> QED
    BY <2>1 DEF KeptCut, Cuts
<1>4. <<>> \in Seq(V)
  OBVIOUS
<1>5. CASE Begins(b, Sought(t)) = {}
  <2>1. CASE t
    BY <1>2, <1>4, <1>5, <2>1 DEF FilterStep, Filtered
  <2>2. CASE ~t
    BY <1>3, <1>5, <2>2 DEF FilterStep, Filtered, Kept
  <2> QED
    BY <2>1, <2>2
<1>6. CASE Begins(b, Sought(t)) # {}
  <2>1. CASE t
    BY <1>6, <2>1 DEF FilterStep
  <2>2. CASE ~t
    <3>1. Sought(t) = OpenTag
      BY <2>2 DEF Sought
    <3>2. PICK p \in Seq(V), q \in Seq(V) : p = Before(b, OpenTag) /\ q = more.out
      <4>1. Before(b, OpenTag) \in Seq(V)
        BY <1>6, <3>1, SoughtFacts
      <4>2. more.out \in Seq(V)
        BY <1>6 DEF Filtered
      <4> QED
        BY <4>1, <4>2
    <3>3. p \o q \in Seq(V)
      OBVIOUS
    <3>4. FilterStep(b, t, more) = [more EXCEPT !.out = p \o q]
      BY <1>6, <2>2, <3>2 DEF FilterStep
    <3>5. more \in Filtered(V)
      BY <1>6
    <3> QED
      BY <3>3, <3>4, <3>5 DEF Filtered
  <2> QED
    BY <2>1, <2>2
<1> QED
  BY <1>5, <1>6

\* And ThinkFilter.
LEMMA FilterIs ==
  ASSUME NEW b \in Seq(Letters), NEW t \in BOOLEAN
  PROVE  /\ ThinkFilter[b][t] = FilterStep(b, t, ThinkFilter[After(b, Sought(t))][~t])
         /\ ThinkFilter[b][t] \in Filtered(Letters)
<1>1. PICK S, R : S = Seq(Letters) /\ R = Filtered(Letters)
  OBVIOUS
<1>2. PICK M : M = [x \in S |-> Len(x)]
  OBVIOUS
<1>3. M \in [S -> Nat]
  BY <1>1, <1>2
<1>20. PICK A : A = [BOOLEAN -> R]
  OBVIOUS
<1> DEFINE Row(f, x) == [u \in BOOLEAN |-> FilterStep(x, u, f[After(x, Sought(u))][~u])]
<1>4. PICK C : C = [x \in S |-> [f \in [S -> A] |-> Row(f, x)]]
  OBVIOUS
<1>5. \A x \in S : \A u \in BOOLEAN : Begins(x, Sought(u)) # {} =>
        After(x, Sought(u)) \in S /\ Len(After(x, Sought(u))) < Len(x)
  BY <1>1, SoughtFacts
<1>6. C \in [S -> [[S -> A] -> A]]
  <2>1. ASSUME NEW x \in S, NEW f \in [S -> A] PROVE Row(f, x) \in A
    <3>1. ASSUME NEW u \in BOOLEAN PROVE FilterStep(x, u, f[After(x, Sought(u))][~u]) \in R
      <4>1. ASSUME Begins(x, Sought(u)) # {} PROVE f[After(x, Sought(u))][~u] \in R
        <5>1. f[After(x, Sought(u))] \in A
          BY <1>5, <4>1
        <5> QED
          BY <1>20, <5>1
      <4> QED
        BY <1>1, <4>1, FilterStepTypes
    <3> QED
      BY <1>20, <3>1
  <2> HIDE DEF Row
  <2> QED
    BY <1>4, <2>1
<1>7. Depends(S, A, M, C)
  <2> SUFFICES ASSUME NEW x \in S, NEW f \in [S -> A], NEW g \in [S -> A],
                      \A y \in S : M[y] < M[x] => f[y] = g[y]
               PROVE  C[x][f] = C[x][g]
    BY DEF Depends
  <2>1. ASSUME NEW u \in BOOLEAN
        PROVE  FilterStep(x, u, f[After(x, Sought(u))][~u]) = FilterStep(x, u, g[After(x, Sought(u))][~u])
    <3>1. Begins(x, Sought(u)) # {} => f[After(x, Sought(u))] = g[After(x, Sought(u))]
      BY <1>2, <1>5
    <3> QED
      BY <3>1 DEF FilterStep
  <2>2. Row(f, x) = Row(g, x)
    BY <2>1
  <2> HIDE DEF Row
  <2> QED
    BY <1>4, <2>2
<1>8. \E any : any \in [S -> A]
  <2>1. PICK r : r = [out |-> <<>>, kept |-> <<>>, thinking |-> FALSE]
    OBVIOUS
  <2>2. r \in R
    <3>1. <<>> \in Seq(Letters)
      OBVIOUS
    <3> QED
      BY <1>1, <2>1, <3>1 DEF Filtered
  <2>3. [x \in S |-> [u \in BOOLEAN |-> r]] \in [S -> A]
    BY <1>20, <2>2
  <2> QED
    BY <2>3
<1>9. PICK f \in [S -> A] : Recurs(f, S, C)
  <2> HIDE DEF Row
  <2> QED
    BY <1>3, <1>6, <1>7, <1>8, RecursionExists
<1> DEFINE Raw(g, x, u) ==
             IF u
             THEN IF Begins(x, CloseTag) = {}
                  THEN [out |-> <<>>, kept |-> KeepThought(x), thinking |-> TRUE]
                  ELSE g[After(x, CloseTag)][FALSE]
             ELSE IF Begins(x, OpenTag) = {}
                  THEN [out |-> SubSeq(x, 1, SafeLength(x)),
                        kept |-> From(x, SafeLength(x) + 1), thinking |-> FALSE]
                  ELSE LET inside == g[After(x, OpenTag)][TRUE]
                       IN [inside EXCEPT !.out = Before(x, OpenTag) \o @]
           Is(g) == g = [x \in Seq(Letters) |-> [u \in BOOLEAN |-> Raw(g, x, u)]]
<1>0. ASSUME NEW g, NEW x, NEW u \in BOOLEAN
      PROVE  FilterStep(x, u, g[After(x, Sought(u))][~u]) = Raw(g, x, u)
  <2>1. CASE u
    BY <2>1 DEF FilterStep, Sought
  <2>2. CASE ~u
    BY <2>2 DEF FilterStep, Sought, Kept
  <2> QED
    BY <2>1, <2>2
<1>10. Is(f)
  <2>1. \A x \in S : f[x] = Row(f, x)
    <3> HIDE DEF Row
    <3> QED
      BY <1>4, <1>9 DEF Recurs
  <2>2. f = [x \in S |-> f[x]]
    OBVIOUS
  <2>3. ASSUME NEW x \in S PROVE f[x] = [u \in BOOLEAN |-> Raw(f, x, u)]
    <3> HIDE DEF Raw
    <3> QED
      BY <1>0, <2>1
  <2>4. f = [x \in S |-> [u \in BOOLEAN |-> Raw(f, x, u)]]
    <3> HIDE DEF Raw
    <3> QED
      BY <2>2, <2>3
  <2> QED
    BY <1>1, <2>4
<1>11. ThinkFilter = CHOOSE g : Is(g)
  BY DEF ThinkFilter
<1>12. Is(ThinkFilter)
  <2> HIDE DEF Is
  <2> QED
    BY <1>10, <1>11, Zenon
<1>13. \A x \in S : \A u \in BOOLEAN :
         ThinkFilter[x][u] = FilterStep(x, u, ThinkFilter[After(x, Sought(u))][~u])
  <2>1. \A x \in S : \A u \in BOOLEAN : ThinkFilter[x][u] = Raw(ThinkFilter, x, u)
    <3> HIDE DEF Raw
    <3> QED
      BY <1>1, <1>12, SMTT(20)
  <2> HIDE DEF Raw
  <2> QED
    BY <1>0, <2>1
<1> DEFINE T == {x \in S : \A u \in BOOLEAN : ThinkFilter[x][u] \in R}
<1>14. \A x \in S : x \in T
  <2>1. ASSUME NEW x \in S, \A y \in S : Len(y) < Len(x) => y \in T
        PROVE  x \in T
    <3> SUFFICES ASSUME NEW u \in BOOLEAN PROVE ThinkFilter[x][u] \in R
      OBVIOUS
    <3>1. Begins(x, Sought(u)) # {} => ThinkFilter[After(x, Sought(u))][~u] \in R
      BY <1>5, <2>1
    <3>2. FilterStep(x, u, ThinkFilter[After(x, Sought(u))][~u]) \in R
      BY <1>1, <3>1, FilterStepTypes
    <3> QED
      BY <1>13, <3>2
  <2> HIDE DEF T
  <2> QED
    BY <1>1, <2>1, ShorterFirst
<1> QED
  BY <1>1, <1>13, <1>14

-----------------------------------------------------------------------------
(* What the filter passes on *)

\* What is still to be said of s, inside a thought or outside.
SaidOf(t, s) ==
  IF t THEN IF Begins(s, CloseTag) = {} THEN <<>> ELSE Said[After(s, CloseTag)]
  ELSE Said[s]

\* What is to be said of a text that starts inside of a thought or outside.
LEMMA SaidOfIs ==
  ASSUME NEW s \in Seq(Letters)
  PROVE  /\ \A t \in BOOLEAN : SaidOf(t, s) \in Seq(Letters)
         /\ Begins(s, OpenTag) = {} => SaidOf(FALSE, s) = s
         /\ Begins(s, OpenTag) # {} =>
              IsJoin(SaidOf(FALSE, s), Before(s, OpenTag), SaidOf(TRUE, After(s, OpenTag)))
<1>1. ASSUME NEW t \in BOOLEAN PROVE SaidOf(t, s) \in Seq(Letters)
  <2>1. CASE ~t
    <3>1. Said[s] \in Seq(Letters)
      BY SaidIs
    <3> QED
      BY <2>1, <3>1 DEF SaidOf
  <2>2. CASE t /\ Begins(s, CloseTag) = {}
    <3>1. <<>> \in Seq(Letters)
      OBVIOUS
    <3> QED
      BY <2>2, <3>1 DEF SaidOf
  <2>3. CASE t /\ Begins(s, CloseTag) # {}
    <3>1. PICK x \in Seq(Letters) : x = After(s, CloseTag)
      BY <2>3, AfterTag
    <3>2. Said[x] \in Seq(Letters)
      BY SaidIs
    <3> QED
      BY <2>3, <3>1, <3>2 DEF SaidOf
  <2> QED
    BY <2>1, <2>2, <2>3
<1>2. Said[s] = SaidStep(s, Said[Ending(s)])
  BY SaidIs
<1>3. Begins(s, OpenTag) = {} => SaidOf(FALSE, s) = s
  BY <1>2 DEF SaidOf, SaidStep
<1>4. ASSUME Begins(s, OpenTag) # {}
      PROVE  IsJoin(SaidOf(FALSE, s), Before(s, OpenTag), SaidOf(TRUE, After(s, OpenTag)))
  <2>1. Said[s] = Before(s, OpenTag) \o (IF ThoughtEnds(s) THEN Said[Ending(s)] ELSE <<>>)
    BY <1>2, <1>4 DEF SaidStep
  <2>2. (IF ThoughtEnds(s) THEN Said[Ending(s)] ELSE <<>>) = SaidOf(TRUE, After(s, OpenTag))
    BY <1>4 DEF SaidOf, ThoughtEnds, Ending
  <2>3. SaidOf(FALSE, s) = Said[s]
    BY DEF SaidOf
  <2> QED
    BY <2>1, <2>2, <2>3 DEF IsJoin
<1> QED
  BY <1>1, <1>3, <1>4

\* A tag that is not in b begins, when more follows b, not before its last characters.
LEMMA BeginsLate ==
  ASSUME NEW V, NEW b \in Seq(V), NEW z \in Seq(V), NEW u, IsJoin(u, b, z),
         NEW tag \in {OpenTag, CloseTag}, Begins(b, tag) = {}, NEW n \in Nat, n = Len(b),
         NEW i \in Begins(u, tag)
  PROVE  i \in Nat /\ i >= 1 /\ i + Len(tag) > n + 1
<1>1. PICK W : tag \in Seq(W) /\ tag # <<>> /\ Len(tag) \in Nat /\ Len(tag) # 0
  BY TagFacts
<1>2. PICK m \in Nat, l \in Nat : m = Len(tag) /\ m # 0 /\ l = n + Len(z)
  <2>1. Len(tag) \in Nat /\ n + Len(z) \in Nat /\ Len(tag) # 0
    BY <1>1
  <2> QED
    BY <2>1
<1>3. u \in Seq(V) /\ Len(u) = l /\ \A j \in 1..n : u[j] = b[j]
  BY <1>2, JoinFacts
<1>4. StartsAt(u, l, tag, m, i)
  BY <1>1, <1>2, <1>3, BeginsIs
<1>5. i \in Nat /\ i >= 1 /\ \A j \in 1..m : u[i + (j - 1)] = tag[j]
  BY <1>4 DEF StartsAt
<1>6. SUFFICES ASSUME ~(i + m > n + 1) PROVE FALSE
  BY <1>2, <1>5
<1>7. \A j \in 1..m : b[i + (j - 1)] = tag[j]
  <2> TAKE j \in 1..m
  <2>1. i + (j - 1) \in 1..n
    BY <1>5, <1>6
  <2> QED
    BY <1>3, <1>5, <2>1
<1>8. StartsAt(b, n, tag, m, i)
  BY <1>5, <1>6, <1>7 DEF StartsAt
<1>9. i \in Begins(b, tag)
  BY <1>1, <1>2, <1>8, BeginsIs
<1> QED
  BY <1>9

\* What is said behind characters in which no thought begins.
LEMMA SaidBehind ==
  ASSUME NEW d \in Seq(Letters), NEW w \in Seq(Letters), NEW u, IsJoin(u, d, w),
         \A i \in Begins(u, OpenTag) : i > Len(d)
  PROVE  IsJoin(SaidOf(FALSE, u), d, SaidOf(FALSE, w))
<1>1. PICK W : OpenTag \in Seq(W) /\ OpenTag # <<>>
  BY TagFacts
<1>2. PICK V : V = Letters
  OBVIOUS
<1>3. FoundBehind(V, u, d, w, OpenTag)
  <2>1. d \in Seq(V) /\ w \in Seq(V)
    BY <1>2
  <2> QED
    BY <1>1, <2>1, SearchRight
<1>4. u \in Seq(Letters)
  BY JoinFacts
<1>5. CASE Begins(u, OpenTag) = {}
  <2>1. Begins(w, OpenTag) = {}
    BY <1>3, <1>5 DEF FoundBehind
  <2>2. SaidOf(FALSE, u) = u /\ SaidOf(FALSE, w) = w
    BY <1>4, <1>5, <2>1, SaidOfIs
  <2> QED
    BY <2>2
<1>6. CASE Begins(u, OpenTag) # {}
  <2>1. /\ Begins(w, OpenTag) # {}
        /\ IsJoin(Before(u, OpenTag), d, Before(w, OpenTag)) /\ Before(w, OpenTag) \in Seq(Letters)
        /\ After(u, OpenTag) = After(w, OpenTag) /\ After(w, OpenTag) \in Seq(Letters)
    BY <1>2, <1>3, <1>6 DEF FoundBehind
  <2>2. PICK p \in Seq(Letters), x \in Seq(Letters), y \in Seq(Letters), r \in {SaidOf(FALSE, w)} : 
          /\ p = Before(w, OpenTag) /\ x = Before(u, OpenTag) /\ y = SaidOf(TRUE, After(w, OpenTag))
          /\ r = SaidOf(FALSE, w)
    <3>1. SaidOf(TRUE, After(w, OpenTag)) \in Seq(Letters)
      BY <2>1, SaidOfIs
    <3>2. PICK p \in Seq(Letters) : p = Before(w, OpenTag)
      BY <2>1
    <3>3. PICK y \in Seq(Letters) : y = SaidOf(TRUE, After(w, OpenTag))
      BY <3>1
    <3>4. PICK x \in Seq(Letters) : x = Before(u, OpenTag)
      <4>1. IsJoin(Before(u, OpenTag), d, p)
        BY <2>1, <3>2
      <4>2. Before(u, OpenTag) \in Seq(Letters)
        BY <4>1, JoinFacts
      <4> QED
        BY <4>2
    <3> QED
      BY <3>2, <3>3, <3>4
  <2>3. IsJoin(SaidOf(FALSE, u), x, y) /\ IsJoin(r, p, y)
    BY <1>4, <1>6, <2>1, <2>2, SaidOfIs
  <2>4. IsJoin(x, d, p)
    BY <2>1, <2>2
  <2>5. IsJoin(SaidOf(FALSE, u), d, r)
    BY <2>3, <2>4, JoinLeft
  <2> QED
    BY <2>2, <2>5
<1> QED
  BY <1>5, <1>6

\* Whatever follows, what the filter lets through and what is said of what it keeps is what
\* is said of what it was given.
FilterSays(b, t, F) ==
  /\ \A z \in Seq(Letters) : \A u, w : IsJoin(u, b, z) /\ IsJoin(w, F.kept, z) =>
       IsJoin(SaidOf(t, u), F.out, SaidOf(F.thinking, w))
  /\ Len(F.kept) < Len(Sought(F.thinking))

\* The filter that finds no tag passes on what cannot be the start of one, and keeps the rest.
LEMMA FilterKeeps ==
  ASSUME NEW b \in Seq(Letters), NEW t \in BOOLEAN, Begins(b, Sought(t)) = {}
  PROVE  FilterSays(b, t, FilterStep(b, t, b))
<1>1. PICK n \in Nat, V \in {Letters} : n = Len(b) /\ V = Letters
  OBVIOUS
<1>2. PICK F, tag : F = FilterStep(b, t, b) /\ tag = Sought(t) /\ tag \in {OpenTag, CloseTag}
  BY DEF Sought
<1>3. PICK m \in Nat : \E W : m = Len(tag) /\ tag \in Seq(W) /\ tag # <<>>
  BY <1>2, TagFacts
<1>9. PICK W : m = Len(tag) /\ tag \in Seq(W) /\ tag # <<>>
  BY <1>3
<1>4. PICK k \in 0..n, d \in Seq(V) :
        /\ Cuts(V, b, n, k, d, F.kept) /\ n - k < m /\ (k # 0 => n - k = m - 1)
        /\ F.out = (IF t THEN <<>> ELSE d) /\ F.thinking = t
  <2>1. CASE t
    <3>1. F.out = <<>> /\ F.kept = KeepThought(b) /\ F.thinking = TRUE
      BY <1>2, <2>1 DEF FilterStep
    <3>2. PICK k \in 0..n, p \in Seq(V) : 
            /\ Cuts(V, b, n, k, p, KeepThought(b)) /\ n - k < Len(CloseTag)
            /\ (k # 0 => n - k = Len(CloseTag) - 1)
      BY <1>1, FilterCuts
    <3>3. tag = CloseTag
      BY <1>2, <2>1 DEF Sought
    <3> QED
      BY <1>9, <2>1, <3>1, <3>2, <3>3
  <2>2. CASE ~t
    <3>1. F = Kept(b)
      BY <1>2, <2>2 DEF FilterStep
    <3>2. F.out = SubSeq(b, 1, SafeLength(b)) /\ F.kept = From(b, SafeLength(b) + 1) /\ F.thinking = FALSE
      BY <3>1 DEF Kept
    <3>3. PICK k \in 0..n : KeptCut(V, b, n, k)
      BY <1>1, FilterCuts
    <3>4. tag = OpenTag
      BY <1>2, <2>2 DEF Sought
    <3> QED
      <4>1. Cuts(V, b, n, k, F.out, F.kept) /\ n - k < m /\ (k # 0 => n - k = m - 1)
        BY <1>9, <3>2, <3>3, <3>4 DEF KeptCut
      <4>2. F.out \in Seq(V)
        BY <4>1 DEF Cuts
      <4> QED
        BY <2>2, <3>2, <4>1, <4>2
  <2> QED
    BY <2>1, <2>2
<1>5. /\ IsJoin(b, d, F.kept) /\ d \in Seq(V) /\ F.kept \in Seq(V)
      /\ Len(d) = k /\ Len(F.kept) = n - k
  BY <1>4 DEF Cuts
<1>6. ASSUME NEW z \in Seq(Letters), NEW u, NEW w, IsJoin(u, b, z), IsJoin(w, F.kept, z)
      PROVE  IsJoin(SaidOf(t, u), F.out, SaidOf(F.thinking, w))
  <2>1. PICK q \in Seq(V) : q = F.kept
    BY <1>5
  <2>2. d \in Seq(V) /\ z \in Seq(V) /\ b \in Seq(V)
    BY <1>1, <1>5
  <2>3. IsJoin(b, d, q) /\ IsJoin(w, q, z)
    BY <1>5, <1>6, <2>1
  <2>4. IsJoin(u, d, w) /\ w \in Seq(V)
    BY <1>6, <2>1, <2>2, <2>3, JoinAssoc
  <2>5. u \in Seq(V)
    BY <1>6, <2>2, JoinFacts
  <2>6. ASSUME NEW i \in Begins(u, tag) PROVE i > Len(d)
    <3>1. i \in Nat /\ i >= 1 /\ i + m > n + 1
      BY <1>1, <1>2, <1>9, <1>6, <2>2, BeginsLate
    <3>2. k = 0 \/ k = n + 1 - m
      <4>1. k # 0 => n - k = m - 1
        BY <1>4
      <4> QED
        BY <4>1
    <3> QED
      BY <1>5, <3>1, <3>2
  <2>7. CASE ~t
    <3>1. tag = OpenTag /\ F.out = d /\ F.thinking = FALSE
      BY <1>2, <1>4, <2>7 DEF Sought
    <3>2. d \in Seq(Letters) /\ w \in Seq(Letters) /\ \A i \in Begins(u, OpenTag) : i > Len(d)
      BY <1>1, <2>2, <2>4, <2>6, <3>1
    <3>3. IsJoin(SaidOf(FALSE, u), d, SaidOf(FALSE, w))
      BY <2>4, <3>2, SaidBehind
    <3>4. t = FALSE
      BY <2>7
    <3> QED
      BY <3>1, <3>3, <3>4
  <2>8. CASE t
    <3>1. tag = CloseTag /\ F.out = <<>> /\ F.thinking = TRUE /\ t = TRUE
      BY <1>2, <1>4, <2>8 DEF Sought
    <3>2. FoundBehind(V, u, d, w, CloseTag)
      <4>1. \A i \in Begins(u, CloseTag) : i > Len(d)
        BY <2>6, <3>1
      <4>2. CloseTag \in Seq(W) /\ CloseTag # <<>>
        BY <1>9, <3>1
      <4> QED
        BY <2>2, <2>4, <4>1, <4>2, SearchRight
    <3>3. SaidOf(TRUE, u) = SaidOf(TRUE, w)
      BY <3>2 DEF FoundBehind, SaidOf
    <3>4. PICK r \in Seq(Letters), none \in {<<>>} : r = SaidOf(TRUE, w) /\ none = <<>>
      BY <1>1, <2>4, SaidOfIs
    <3>5. IsJoin(r, none, r)
      BY <3>4, JoinEmpty
    <3> QED
      BY <3>1, <3>3, <3>4, <3>5
  <2> QED
    BY <2>7, <2>8
<1>7. Len(F.kept) < Len(Sought(F.thinking))
  BY <1>2, <1>9, <1>4, <1>5
<1>8. FilterSays(b, t, F)
  BY <1>6, <1>7 DEF FilterSays
<1> QED
  BY <1>2, <1>8

\* The filter that finds a tag passes on what is before it, and goes on behind it.
LEMMA FilterPasses ==
  ASSUME NEW b \in Seq(Letters), NEW t \in BOOLEAN, Begins(b, Sought(t)) # {},
         NEW more \in Filtered(Letters), FilterSays(After(b, Sought(t)), ~t, more)
  PROVE  FilterSays(b, t, FilterStep(b, t, more))
<1>1. PICK F, tag : F = FilterStep(b, t, more) /\ tag = Sought(t) /\ tag \in {OpenTag, CloseTag}
  BY DEF Sought
<1>2. PICK W : tag \in Seq(W) /\ tag # <<>>
  BY <1>1, TagFacts
<1>3. PICK a \in Seq(Letters), p \in Seq(Letters) : a = After(b, tag) /\ p = Before(b, tag)
  <2>1. After(b, tag) \in Seq(Letters) /\ Before(b, tag) \in Seq(Letters)
    BY <1>1, AfterTag
  <2> QED
    BY <2>1
<1>4. /\ F.kept = more.kept /\ F.thinking = more.thinking
      /\ F.out = (IF t THEN more.out ELSE p \o more.out)
      /\ more.out \in Seq(Letters) /\ more.kept \in Seq(Letters) /\ more.thinking \in BOOLEAN
  <2>1. more.out \in Seq(Letters) /\ more.kept \in Seq(Letters) /\ more.thinking \in BOOLEAN
    BY DEF Filtered
  <2>2. CASE t
    BY <1>1, <2>1, <2>2 DEF FilterStep
  <2>3. CASE ~t
    <3>1. F = [more EXCEPT !.out = Before(b, OpenTag) \o @]
      BY <1>1, <2>3 DEF FilterStep
    <3>2. tag = OpenTag
      BY <1>1, <2>3 DEF Sought
    <3> QED
      BY <1>3, <2>1, <2>3, <3>1, <3>2 DEF Filtered
  <2> QED
    BY <2>2, <2>3
<1>5. FilterSays(a, ~t, more)
  BY <1>1, <1>3
<1>6. ASSUME NEW z \in Seq(Letters), NEW u, NEW w, IsJoin(u, b, z), IsJoin(w, F.kept, z)
      PROVE  IsJoin(SaidOf(t, u), F.out, SaidOf(F.thinking, w))
  <2>1. /\ Begins(u, tag) # {} /\ Before(u, tag) = p /\ IsJoin(After(u, tag), a, z)
    BY <1>1, <1>2, <1>3, <1>6, SearchLeft
  <2>2. PICK v \in Seq(Letters) : v = After(u, tag) /\ IsJoin(v, a, z)
    <3>1. After(u, tag) \in Seq(Letters)
      BY <2>1, JoinFacts
    <3> QED
      BY <2>1, <3>1
  <2>3. IsJoin(SaidOf(~t, v), more.out, SaidOf(more.thinking, w))
    <3>1. IsJoin(w, more.kept, z)
      BY <1>4, <1>6
    <3> QED
      BY <1>5, <2>2, <3>1 DEF FilterSays
  <2>4. u \in Seq(Letters) /\ w \in Seq(Letters)
    <3>1. PICK q \in Seq(Letters) : q = more.kept
      BY <1>4
    <3>2. IsJoin(w, q, z)
      BY <1>4, <1>6, <3>1
    <3> QED
      BY <1>6, <3>2, JoinFacts
  <2>5. CASE t
    <3>1. tag = CloseTag /\ t = TRUE /\ ~t = FALSE
      BY <1>1, <2>5 DEF Sought
    <3>2. SaidOf(TRUE, u) = SaidOf(FALSE, v)
      BY <2>1, <2>2, <3>1 DEF SaidOf
    <3> QED
      BY <1>4, <2>3, <3>1, <3>2
  <2>6. CASE ~t
    <3>1. tag = OpenTag /\ t = FALSE /\ ~t = TRUE
      BY <1>1, <2>6 DEF Sought
    <3>2. PICK x \in Seq(Letters), y \in Seq(Letters), o \in Seq(Letters), r \in Seq(Letters) :
            x = SaidOf(TRUE, v) /\ y = SaidOf(more.thinking, w) /\ o = more.out /\ r = SaidOf(FALSE, u)
      <4>1. PICK y \in Seq(Letters) : y = SaidOf(more.thinking, w)
        BY <1>4, <2>4, SaidOfIs
      <4>2. PICK o \in Seq(Letters) : o = more.out
        BY <1>4
      <4>3. PICK x \in Seq(Letters) : x = SaidOf(TRUE, v)
        BY SaidOfIs
      <4>4. PICK r \in Seq(Letters) : r = SaidOf(FALSE, u)
        BY <2>4, SaidOfIs
      <4> QED
        BY <4>1, <4>2, <4>3, <4>4
    <3>3. IsJoin(r, p, x)
      BY <2>1, <2>2, <2>4, <3>1, <3>2, SaidOfIs
    <3>4. IsJoin(x, o, y)
      BY <2>3, <3>1, <3>2
    <3>5. PICK po : IsJoin(po, p, o)
      BY JoinExists
    <3>6. IsJoin(r, po, y)
      BY <3>3, <3>4, <3>5, JoinRight
    <3>7. F.out = po /\ F.thinking = more.thinking
      BY <1>4, <2>6, <3>2, <3>5 DEF IsJoin
    <3> QED
      BY <3>1, <3>2, <3>6, <3>7
  <2> QED
    BY <2>5, <2>6
<1>7. Len(F.kept) < Len(Sought(F.thinking))
  BY <1>4, <1>5 DEF FilterSays
<1>8. FilterSays(b, t, F)
  BY <1>6, <1>7 DEF FilterSays
<1> QED
  BY <1>1, <1>8

\* So, for every text: what the filter passes on and what remains to be said is what was to be
\* said.
LEMMA FilterIsRight ==
  ASSUME NEW b \in Seq(Letters), NEW t \in BOOLEAN
  PROVE  FilterSays(b, t, ThinkFilter[b][t])
<1> DEFINE T == {x \in Seq(Letters) : \A s \in BOOLEAN : FilterSays(x, s, ThinkFilter[x][s])}
<1>1. ASSUME NEW x \in Seq(Letters), \A y \in Seq(Letters) : Len(y) < Len(x) => y \in T
      PROVE  x \in T
  <2> SUFFICES ASSUME NEW s \in BOOLEAN PROVE FilterSays(x, s, ThinkFilter[x][s])
    OBVIOUS
  <2>1. PICK more : more = ThinkFilter[After(x, Sought(s))][~s]
    OBVIOUS
  <2>2. ThinkFilter[x][s] = FilterStep(x, s, more)
    BY <2>1, FilterIs
  <2>3. CASE Begins(x, Sought(s)) = {}
    <3>1. FilterStep(x, s, more) = FilterStep(x, s, x)
      BY <2>3 DEF FilterStep
    <3> QED
      BY <2>2, <2>3, <3>1, FilterKeeps
  <2>4. CASE Begins(x, Sought(s)) # {}
    <3>1. PICK y \in Seq(Letters) : y = After(x, Sought(s)) /\ Len(y) < Len(x)
      BY <2>4, SoughtFacts
    <3>2. PICK r \in BOOLEAN : r = ~s
      OBVIOUS
    <3>3. FilterSays(y, r, more)
      BY <1>1, <2>1, <3>1, <3>2
    <3>4. more \in Filtered(Letters)
      BY <2>1, <3>1, <3>2, FilterIs
    <3>5. FilterSays(After(x, Sought(s)), ~s, more)
      BY <3>1, <3>2, <3>3
    <3> QED
      BY <2>2, <2>4, <3>4, <3>5, FilterPasses
  <2> QED
    BY <2>3, <2>4
<1> HIDE DEF T
<1>2. \A x \in Seq(Letters) : x \in T
  BY <1>1, ShorterFirst
<1> QED
  BY <1>2 DEF T

-----------------------------------------------------------------------------
(* The phrases *)

Goes(s) == Solid(s) # {} /\ Cut(s) # 0
SplitStep(s, more) ==
  IF Goes(s) THEN [more EXCEPT !.phrases = <<Trim(SubSeq(s, 1, Cut(s)))>> \o @]
  ELSE [phrases |-> <<>>, remaining |-> s]
SplitInto(V) == [phrases : Seq(Seq(V)), remaining : Seq(V)]

\* A phrase is cut within the text, and it is cut when a sentence ends.
LEMMA CutIs ==
  ASSUME NEW V, NEW s \in Seq(V), NEW n \in Nat, n = Len(s)
  PROVE  /\ Cut(s) # 0 => Cut(s) \in 1..n
         /\ EndsOfSentence(s) # {} => Cut(s) # 0
<1>1. ASSUME EndsOfSentence(s) # {} PROVE Cut(s) \in 1..n
  <2>1. EndsOfSentence(s) \in SUBSET Nat /\ EndsOfSentence(s) \in SUBSET (1..n)
    BY DEF EndsOfSentence
  <2>2. First(EndsOfSentence(s)) \in EndsOfSentence(s)
    BY <1>1, <2>1, FirstIs
  <2>3. Cut(s) = First(EndsOfSentence(s))
    BY <1>1 DEF Cut
  <2> QED
    BY <2>1, <2>2, <2>3
<1>2. ASSUME EndsOfSentence(s) = {}, Cut(s) # 0 PROVE Cut(s) \in 1..n
  <2>1. Cut(s) = LastSplit(s) /\ LastSplit(s) > PhraseFloor + 1
    BY <1>2 DEF Cut
  <2>2. Splits(s) \in SUBSET (0..n) /\ Splits(s) \in SUBSET (1..n)
    BY DEF Splits
  <2>3. Splits(s) # {}
    <3>1. SUFFICES ASSUME Splits(s) = {} PROVE FALSE
      OBVIOUS
    <3>2. Cut(s) = 0
      BY <2>1, <3>1 DEF LastSplit
    <3> QED
      BY <1>2, <3>2
  <2>4. Final(Splits(s)) \in Splits(s)
    BY <2>2, <2>3, FinalIs
  <2>5. LastSplit(s) = Final(Splits(s))
    BY <2>3 DEF LastSplit
  <2> QED
    BY <2>1, <2>2, <2>4, <2>5
<1>3. EndsOfSentence(s) # {} => Cut(s) # 0
  BY <1>1
<1> QED
  BY <1>1, <1>2, <1>3

\* s is cut into a phrase and what is behind it.
CutsOff(V, s, p, q) ==
  /\ p = SubSeq(s, 1, Cut(s)) /\ p \in Seq(V) /\ q \in Seq(V) /\ IsJoin(s, p, q)
  /\ RestAfter(s) = TrimStart(q) /\ RestAfter(s) \in Seq(V) /\ Len(RestAfter(s)) < Len(s)

\* A phrase that is cut off and the rest are the text, without spaces.
LEMMA CutOffIs ==
  ASSUME NEW V, NEW s \in Seq(V), Goes(s)
  PROVE  \E p, q : CutsOff(V, s, p, q)
<1>1. PICK n \in Nat : n = Len(s)
  OBVIOUS
<1>2. Cut(s) \in 1..n
  BY <1>1, CutIs DEF Goes
<1>3. PICK k \in Nat, l \in Nat : k = Cut(s) /\ l = k + 1 /\ k \in 0..n /\ k >= 1
  <2>1. Cut(s) \in Nat /\ Cut(s) + 1 \in Nat /\ Cut(s) \in 0..n /\ Cut(s) >= 1
    BY <1>2
  <2> QED
    BY <2>1
<1>4. PICK p, q : p = SubSeq(s, 1, k) /\ q = SubSeq(s, l, n)
  OBVIOUS
<1>5. Cuts(V, s, n, k, p, q)
  BY <1>1, <1>3, <1>4, CutJoin
<1>6. IsJoin(s, p, q) /\ p \in Seq(V) /\ q \in Seq(V) /\ Len(q) = n - k
  BY <1>5 DEF Cuts
<1>7. TrimStart(q) \in Seq(V) /\ Len(TrimStart(q)) <= Len(q)
  BY <1>6, TrimStartIs
<1>8. RestAfter(s) = TrimStart(q)
  BY <1>1, <1>3, <1>4 DEF RestAfter, From
<1>9. Len(TrimStart(q)) < Len(s)
  <2>1. Len(TrimStart(q)) \in Nat
    BY <1>7
  <2> QED
    BY <1>1, <1>3, <1>6, <1>7, <2>1
<1>10. CutsOff(V, s, p, q)
  BY <1>3, <1>4, <1>6, <1>7, <1>8, <1>9 DEF CutsOff
<1> QED
  BY <1>10

LEMMA OneMorePhrase ==
  ASSUME NEW V, NEW s \in Seq(V), Goes(s), NEW more \in SplitInto(V)
  PROVE  /\ SplitStep(s, more) \in SplitInto(V)
         /\ \E t \in Seq(V), one \in Seq(Seq(V)) :
              /\ t = Trim(SubSeq(s, 1, Cut(s))) /\ one = <<t>>
              /\ SplitStep(s, more).remaining = more.remaining
              /\ IsJoin(SplitStep(s, more).phrases, one, more.phrases)
<1>1. PICK p, q : CutsOff(V, s, p, q)
  BY CutOffIs
<1>2. PICK t \in Seq(V) : t = Trim(SubSeq(s, 1, Cut(s)))
  BY <1>1, TrimsKeep DEF CutsOff
<1>3. PICK W : W = Seq(V)
  OBVIOUS
<1>4. PICK one \in Seq(W) : one = <<t>>
  <2>1. <<t>> \in Seq(W)
    BY <1>3
  <2> QED
    BY <2>1
<1>5. PICK l \in Seq(W) : l = more.phrases
  BY <1>3 DEF SplitInto
<1>6. one \o l \in Seq(W)
  OBVIOUS
<1>7. SplitStep(s, more) = [more EXCEPT !.phrases = one \o l]
  BY <1>2, <1>4, <1>5 DEF SplitStep
<1>8. /\ SplitStep(s, more) \in SplitInto(V)
      /\ SplitStep(s, more).remaining = more.remaining /\ SplitStep(s, more).phrases = one \o l
  BY <1>3, <1>6, <1>7 DEF SplitInto
<1>9. IsJoin(SplitStep(s, more).phrases, one, more.phrases)
  BY <1>5, <1>8 DEF IsJoin
<1> QED
  BY <1>2, <1>3, <1>4, <1>8, <1>9

LEMMA SplitStepTypes ==
  ASSUME NEW V, NEW s \in Seq(V), NEW more, Goes(s) => more \in SplitInto(V)
  PROVE  SplitStep(s, more) \in SplitInto(V)
<1>1. CASE Goes(s)
  BY <1>1, OneMorePhrase
<1>2. CASE ~Goes(s)
  <2>1. <<>> \in Seq(Seq(V))
    OBVIOUS
  <2> QED
    BY <1>2, <2>1 DEF SplitStep, SplitInto
<1> QED
  BY <1>1, <1>2

\* SplitReady is what its definition says, for every text.
LEMMA SplitIs ==
  ASSUME NEW s \in Seq(Letters)
  PROVE  /\ SplitReady[s] = SplitStep(s, SplitReady[RestAfter(s)])
         /\ SplitReady[s] \in SplitInto(Letters)
<1>1. PICK S, A : S = Seq(Letters) /\ A = SplitInto(Letters)
  OBVIOUS
<1>2. PICK M : M = [x \in S |-> Len(x)]
  OBVIOUS
<1>3. M \in [S -> Nat]
  BY <1>1, <1>2
<1>4. PICK C : C = [x \in S |-> [f \in [S -> A] |-> SplitStep(x, f[RestAfter(x)])]]
  OBVIOUS
<1>5. \A x \in S : Goes(x) => RestAfter(x) \in S /\ Len(RestAfter(x)) < Len(x)
  BY <1>1, CutOffIs DEF CutsOff
<1>6. C \in [S -> [[S -> A] -> A]]
  <2>1. ASSUME NEW x \in S, NEW f \in [S -> A] PROVE SplitStep(x, f[RestAfter(x)]) \in A
    <3>1. Goes(x) => f[RestAfter(x)] \in A
      BY <1>5
    <3> QED
      BY <1>1, <3>1, SplitStepTypes
  <2> QED
    BY <1>4, <2>1
<1>7. Depends(S, A, M, C)
  <2> SUFFICES ASSUME NEW x \in S, NEW f \in [S -> A], NEW g \in [S -> A],
                      \A t \in S : M[t] < M[x] => f[t] = g[t]
               PROVE  C[x][f] = C[x][g]
    BY DEF Depends
  <2>1. Goes(x) => f[RestAfter(x)] = g[RestAfter(x)]
    BY <1>2, <1>5
  <2>2. SplitStep(x, f[RestAfter(x)]) = SplitStep(x, g[RestAfter(x)])
    BY <2>1 DEF SplitStep
  <2> QED
    BY <1>4, <2>2
<1>8. \E any : any \in [S -> A]
  <2>1. PICK r : r = [phrases |-> <<>>, remaining |-> <<>>]
    OBVIOUS
  <2>2. r \in A
    <3>1. <<>> \in Seq(Letters) /\ <<>> \in Seq(Seq(Letters))
      OBVIOUS
    <3> QED
      BY <1>1, <2>1, <3>1 DEF SplitInto
  <2>3. [x \in S |-> r] \in [S -> A]
    BY <2>2
  <2> QED
    BY <2>3
<1>9. PICK f \in [S -> A] : Recurs(f, S, C)
  BY <1>3, <1>6, <1>7, <1>8, RecursionExists
<1> DEFINE Is(g) == g = [x \in Seq(Letters) |->
                          IF Solid(x) # {} /\ Cut(x) # 0
                          THEN LET more == g[RestAfter(x)]
                               IN [more EXCEPT !.phrases = <<Trim(SubSeq(x, 1, Cut(x)))>> \o @]
                          ELSE [phrases |-> <<>>, remaining |-> x]]
<1>0. ASSUME NEW g, NEW x
      PROVE  SplitStep(x, g[RestAfter(x)])
             = IF Solid(x) # {} /\ Cut(x) # 0
               THEN LET more == g[RestAfter(x)]
                    IN [more EXCEPT !.phrases = <<Trim(SubSeq(x, 1, Cut(x)))>> \o @]
               ELSE [phrases |-> <<>>, remaining |-> x]
  BY DEF SplitStep, Goes
<1>10. Is(f)
  <2>1. \A x \in S : f[x] = SplitStep(x, f[RestAfter(x)])
    BY <1>4, <1>9 DEF Recurs
  <2>2. f = [x \in S |-> f[x]]
    OBVIOUS
  <2>3. f = [x \in S |-> SplitStep(x, f[RestAfter(x)])]
    BY <2>1, <2>2
  <2> QED
    BY <1>0, <1>1, <2>3
<1>11. SplitReady = CHOOSE g : Is(g)
  BY DEF SplitReady
<1>12. Is(SplitReady)
  <2> HIDE DEF Is
  <2> QED
    BY <1>10, <1>11, Zenon
<1>13. \A x \in S : SplitReady[x] = SplitStep(x, SplitReady[RestAfter(x)])
  <2> DEFINE Raw(x) ==
               IF Solid(x) # {} /\ Cut(x) # 0
               THEN LET more == SplitReady[RestAfter(x)]
                    IN [more EXCEPT !.phrases = <<Trim(SubSeq(x, 1, Cut(x)))>> \o @]
               ELSE [phrases |-> <<>>, remaining |-> x]
  <2>1. SplitReady = [x \in S |-> Raw(x)]
    BY <1>1, <1>12
  <2>2. \A x \in S : SplitReady[x] = Raw(x)
    <3> HIDE DEF Raw
    <3> QED
      BY <2>1
  <2>3. \A x : SplitStep(x, SplitReady[RestAfter(x)]) = Raw(x)
    BY DEF SplitStep, Goes
  <2> HIDE DEF Raw
  <2> QED
    BY <2>2, <2>3
<1> DEFINE T == {x \in S : SplitReady[x] \in A}
<1>14. \A x \in S : x \in T
  <2>1. ASSUME NEW x \in S, \A t \in S : Len(t) < Len(x) => t \in T
        PROVE  x \in T
    <3>1. Goes(x) => SplitReady[RestAfter(x)] \in A
      BY <1>5, <2>1
    <3>2. SplitStep(x, SplitReady[RestAfter(x)]) \in A
      BY <1>1, <3>1, SplitStepTypes
    <3> QED
      BY <1>13, <3>2
  <2> HIDE DEF T
  <2> QED
    BY <1>1, <2>1, ShorterFirst
<1> QED
  BY <1>1, <1>13, <1>14

\* The phrases and the remainder are the whole text, and no sentence waits in the remainder.
SplitSays(s, R) ==
  /\ IsJoin(NonSpace(s), NonSpace(FlattenSeq(R.phrases)), NonSpace(R.remaining))
  /\ EndsOfSentence(R.remaining) = {}

LEMMA NothingSplit ==
  ASSUME NEW V, NEW s \in Seq(V), ~Goes(s), NEW R, R = [phrases |-> <<>>, remaining |-> s]
  PROVE  SplitSays(s, R)
<1>1. EndsOfSentence(s) = {}
  <2>1. CASE Solid(s) = {}
    <3>1. "." # Space
      BY DEF Space
    <3>2. \A i \in 1..Len(s) : s[i] = Space
      BY <2>1 DEF Solid
    <3> QED
      BY <3>1, <3>2 DEF EndsOfSentence, SentenceEnds
  <2>2. CASE Cut(s) = 0
    <3>1. PICK n \in Nat : n = Len(s)
      OBVIOUS
    <3> QED
      BY <2>2, <3>1, CutIs
  <2> QED
    BY <2>1, <2>2 DEF Goes
<1>2. PICK x \in Seq(V), none \in Seq(V) : x = NonSpace(s) /\ none = <<>>
  <2>1. NonSpace(s) \in Seq(V) /\ <<>> \in Seq(V)
    BY NonSpaceTypes
  <2> QED
    BY <2>1
<1>3. IsJoin(x, none, x)
  BY <1>2, JoinEmpty
<1>4. NonSpace(none) = none /\ FlattenSeq(<<>>) = none
  BY <1>2, NonSpaceTypes, FlattenOne
<1> QED
  BY <1>1, <1>2, <1>3, <1>4 DEF SplitSays

LEMMA OneSplitOff ==
  ASSUME NEW V, NEW s \in Seq(V), Goes(s), NEW more \in SplitInto(V), SplitSays(RestAfter(s), more)
  PROVE  SplitSays(s, SplitStep(s, more))
<1>1. PICK p, q : CutsOff(V, s, p, q)
  BY CutOffIs
<1>2. /\ p = SubSeq(s, 1, Cut(s)) /\ p \in Seq(V) /\ q \in Seq(V) /\ IsJoin(s, p, q)
      /\ RestAfter(s) = TrimStart(q)
  BY <1>1 DEF CutsOff
<1>3. PICK t \in Seq(V), one \in Seq(Seq(V)) :
        /\ t = Trim(p) /\ one = <<t>>
        /\ SplitStep(s, more).remaining = more.remaining
        /\ IsJoin(SplitStep(s, more).phrases, one, more.phrases)
  BY <1>2, OneMorePhrase
<1>4. PICK l \in Seq(Seq(V)), r \in Seq(V), f \in {SplitStep(s, more).phrases} : l = more.phrases /\ r = more.remaining /\ f = SplitStep(s, more).phrases
  <2>1. more.phrases \in Seq(Seq(V)) /\ more.remaining \in Seq(V)
    BY DEF SplitInto
  <2> QED
    BY <2>1
<1>5. PICK fl \in Seq(V), ff \in {FlattenSeq(f)} : fl = FlattenSeq(l) /\ ff = FlattenSeq(f) /\ IsJoin(ff, t, fl)
  <2>1. FlattenSeq(l) \in Seq(V) /\ IsJoin(FlattenSeq(f), FlattenSeq(one), FlattenSeq(l))
    BY <1>3, <1>4, FlattenJoin
  <2>2. FlattenSeq(one) = t
    BY <1>3, FlattenOne
  <2> QED
    BY <2>1, <2>2
<1>6. IsJoin(NonSpace(ff), NonSpace(t), NonSpace(fl))
  BY <1>5, NonSpaceJoin
<1>7. NonSpace(t) = NonSpace(p) /\ NonSpace(RestAfter(s)) = NonSpace(q)
  BY <1>2, <1>3, TrimsKeep
<1>8. PICK x \in Seq(V), y \in Seq(V), z \in Seq(V), w \in {NonSpace(q)}, v \in {NonSpace(s)} :
        x = NonSpace(p) /\ y = NonSpace(fl) /\ z = NonSpace(r) /\ w = NonSpace(q) /\ v = NonSpace(s)
  <2>1. NonSpace(p) \in Seq(V) /\ NonSpace(fl) \in Seq(V) /\ NonSpace(r) \in Seq(V)
    BY <1>2, NonSpaceTypes
  <2> QED
    BY <2>1
<1>9. IsJoin(v, x, w)
  BY <1>2, <1>8, NonSpaceJoin
<1>10. IsJoin(w, y, z)
  BY <1>4, <1>5, <1>7, <1>8 DEF SplitSays
<1>11. PICK g : g = NonSpace(ff)
  OBVIOUS
<1>12. IsJoin(g, x, y)
  BY <1>6, <1>7, <1>8, <1>11
<1>13. IsJoin(v, g, z)
  BY <1>9, <1>10, <1>12, JoinRight
<1>14. EndsOfSentence(r) = {}
  BY <1>4 DEF SplitSays
<1> QED
  BY <1>3, <1>4, <1>5, <1>8, <1>11, <1>13, <1>14 DEF SplitSays

\* So, for every text: the phrases and what remains are the text, but for spaces, and no
\* sentence ends in what remains.
LEMMA SplitIsRight ==
  ASSUME NEW s \in Seq(Letters)
  PROVE  SplitSays(s, SplitReady[s])
<1> DEFINE T == {x \in Seq(Letters) : SplitSays(x, SplitReady[x])}
<1>1. ASSUME NEW x \in Seq(Letters), \A y \in Seq(Letters) : Len(y) < Len(x) => y \in T
      PROVE  x \in T
  <2> SUFFICES SplitSays(x, SplitReady[x])
    OBVIOUS
  <2>1. PICK more : more = SplitReady[RestAfter(x)]
    OBVIOUS
  <2>2. SplitReady[x] = SplitStep(x, more)
    BY <2>1, SplitIs
  <2>3. CASE ~Goes(x)
    <3>1. SplitReady[x] = [phrases |-> <<>>, remaining |-> x]
      BY <2>2, <2>3 DEF SplitStep
    <3> QED
      BY <2>3, <3>1, NothingSplit
  <2>4. CASE Goes(x)
    <3>1. RestAfter(x) \in Seq(Letters) /\ Len(RestAfter(x)) < Len(x)
      BY <2>4, CutOffIs DEF CutsOff
    <3>2. SplitSays(RestAfter(x), more)
      BY <1>1, <2>1, <3>1
    <3>3. more \in SplitInto(Letters)
      BY <2>1, <3>1, SplitIs
    <3> QED
      BY <2>2, <2>4, <3>2, <3>3, OneSplitOff
  <2> QED
    BY <2>3, <2>4
<1> HIDE DEF T
<1>2. \A x \in Seq(Letters) : x \in T
  BY <1>1, ShorterFirst
<1> QED
  BY <1>2 DEF T

-----------------------------------------------------------------------------
(* The answer at once *)

Unended(s) == ThinkFilter[s][FALSE].thinking

\* The three kinds of text: without a thought, with one that does not end, with one that ends.
LEMMA ThoughtCases ==
  ASSUME NEW s \in Seq(Letters)
  PROVE  /\ Begins(s, OpenTag) = {} => Said[s] = s /\ ~Unended(s)
         /\ Begins(s, OpenTag) # {} /\ ~ThoughtEnds(s) => Said[s] = Before(s, OpenTag) /\ Unended(s)
         /\ ThoughtEnds(s) => /\ IsJoin(Said[s], Before(s, OpenTag), Said[Ending(s)])
                       /\ Unended(s) = Unended(Ending(s))
         /\ Said[s] \in Seq(Letters)
<1>1. Said[s] = SaidStep(s, Said[Ending(s)]) /\ Said[s] \in Seq(Letters)
  BY SaidIs
<1>2. /\ Sought(FALSE) = OpenTag /\ Sought(TRUE) = CloseTag /\ ~FALSE = TRUE /\ ~TRUE = FALSE
      /\ FALSE \in BOOLEAN /\ TRUE \in BOOLEAN
  BY DEF Sought
<1>3. ThinkFilter[s][FALSE] = FilterStep(s, FALSE, ThinkFilter[After(s, OpenTag)][TRUE])
  BY <1>2, FilterIs
<1>4. ASSUME Begins(s, OpenTag) = {} PROVE Said[s] = s /\ ~Unended(s)
  <2>1. ThinkFilter[s][FALSE] = Kept(s)
    BY <1>2, <1>3, <1>4 DEF FilterStep
  <2>2. Kept(s).thinking = FALSE
    BY DEF Kept
  <2>3. Said[s] = s
    BY <1>1, <1>4 DEF SaidStep
  <2> QED
    BY <2>1, <2>2, <2>3 DEF Unended
<1>5. ASSUME Begins(s, OpenTag) # {}
      PROVE  /\ ~ThoughtEnds(s) => Said[s] = Before(s, OpenTag) /\ Unended(s)
             /\ ThoughtEnds(s) => /\ IsJoin(Said[s], Before(s, OpenTag), Said[Ending(s)])
                           /\ Unended(s) = Unended(Ending(s))
  <2>1. PICK a \in Seq(Letters), p \in Seq(Letters) : a = After(s, OpenTag) /\ p = Before(s, OpenTag)
    <3>1. After(s, OpenTag) \in Seq(Letters) /\ Before(s, OpenTag) \in Seq(Letters)
      BY <1>5, AfterTag
    <3> QED
      BY <3>1
  <2>2. PICK more : more = ThinkFilter[a][TRUE] /\ more \in Filtered(Letters)
    BY <1>2, FilterIs
  <2>3. ThinkFilter[s][FALSE].thinking = more.thinking
    <3>1. ThinkFilter[s][FALSE] = [more EXCEPT !.out = Before(s, OpenTag) \o @]
      BY <1>2, <1>3, <1>5, <2>1, <2>2 DEF FilterStep
    <3> QED
      BY <2>2, <3>1 DEF Filtered
  <2>4. more = FilterStep(a, TRUE, ThinkFilter[After(a, CloseTag)][FALSE])
    BY <1>2, <2>2, FilterIs
  <2>5. ThoughtEnds(s) <=> Begins(a, CloseTag) # {}
    BY <1>5, <2>1 DEF ThoughtEnds
  <2>6. ASSUME ~ThoughtEnds(s) PROVE Said[s] = Before(s, OpenTag) /\ Unended(s)
    <3>1. more.thinking = TRUE
      <4>1. more = [out |-> <<>>, kept |-> KeepThought(a), thinking |-> TRUE]
        BY <1>2, <2>4, <2>5, <2>6 DEF FilterStep
      <4> QED
        BY <4>1
    <3>2. Said[s] = p \o <<>>
      BY <1>1, <1>5, <2>1, <2>6 DEF SaidStep
    <3>3. p \o <<>> = p
      OBVIOUS
    <3> QED
      BY <2>1, <2>3, <3>1, <3>2, <3>3 DEF Unended
  <2>7. ASSUME ThoughtEnds(s)
        PROVE  /\ IsJoin(Said[s], Before(s, OpenTag), Said[Ending(s)])
               /\ Unended(s) = Unended(Ending(s))
    <3>1. more = ThinkFilter[Ending(s)][FALSE]
      BY <1>2, <2>1, <2>4, <2>5, <2>7 DEF FilterStep, Ending
    <3>2. Said[s] = Before(s, OpenTag) \o Said[Ending(s)]
      BY <1>1, <1>5, <2>7 DEF SaidStep
    <3> QED
      BY <2>3, <3>1, <3>2 DEF Unended, IsJoin
  <2> QED
    BY <2>6, <2>7
<1>6. ThoughtEnds(s) => Begins(s, OpenTag) # {}
  BY DEF ThoughtEnds
<1> QED
  BY <1>1, <1>4, <1>5, <1>6

SameSaid(s, t) == NonSpace(Said[s]) = NonSpace(Said[t]) /\ Unended(s) = Unended(t)

\* Spaces before a text are no part of what is to be said of it.
LEMMA LeadingSpaces ==
  ASSUME NEW a \in Seq(Letters), AllSpace(a), NEW r \in Seq(Letters), NEW s, IsJoin(s, a, r)
  PROVE  SameSaid(s, r) /\ s \in Seq(Letters)
<1>1. PICK W : /\ OpenTag \in Seq(W) /\ OpenTag # <<>> /\ Len(OpenTag) \in Nat /\ Len(OpenTag) # 0
               /\ \A j \in 1..Len(OpenTag) : OpenTag[j] # Space
  BY TagFacts
<1>2. PICK n \in Nat, m \in Nat, k \in Nat : n = Len(s) /\ m = Len(OpenTag) /\ m # 0 /\ k = Len(a)
  <2>1. s \in Seq(Letters)
    BY JoinFacts
  <2>2. Len(s) \in Nat /\ Len(a) \in Nat
    BY <2>1
  <2> QED
    BY <1>1, <2>2
<1>3. s \in Seq(Letters) /\ \A i \in 1..k : s[i] = a[i]
  BY <1>2, JoinFacts
<1>4. ASSUME NEW i \in Begins(s, OpenTag) PROVE i > Len(a)
  <2>1. StartsAt(s, n, OpenTag, m, i)
    BY <1>1, <1>2, <1>3, BeginsIs
  <2>2. i \in Nat /\ i >= 1 /\ \A j \in 1..m : s[i + (j - 1)] = OpenTag[j]
    BY <2>1 DEF StartsAt
  <2>3. 1 \in 1..m /\ i + (1 - 1) = i
    BY <1>2, <2>2
  <2>4. s[i] = OpenTag[1] /\ OpenTag[1] # Space
    BY <1>1, <1>2, <2>2, <2>3
  <2>5. SUFFICES ASSUME i <= k PROVE FALSE
    BY <1>2, <2>2
  <2>6. i \in 1..k
    BY <2>2, <2>5
  <2> QED
    BY <1>2, <1>3, <2>4, <2>6 DEF AllSpace
<1>5. IsJoin(Said[s], a, Said[r])
  <2>1. IsJoin(SaidOf(FALSE, s), a, SaidOf(FALSE, r))
    BY <1>4, SaidBehind
  <2> QED
    BY <2>1 DEF SaidOf
<1>6. NonSpace(Said[s]) = NonSpace(Said[r])
  <2>1. Said[r] \in Seq(Letters)
    BY SaidIs
  <2> QED
    BY <1>5, <2>1, SpacesAround
<1>7. FoundBehind(Letters, s, a, r, OpenTag)
  BY <1>1, <1>4, SearchRight
<1>8. Unended(s) = Unended(r)
  <2>1. CASE Begins(s, OpenTag) = {}
    <3>1. Begins(r, OpenTag) = {}
      BY <1>7, <2>1 DEF FoundBehind
    <3>2. ~Unended(s) /\ ~Unended(r)
      BY <1>3, <2>1, <3>1, ThoughtCases
    <3>3. Unended(s) \in BOOLEAN /\ Unended(r) \in BOOLEAN
      BY <1>3, FilterIs DEF Unended, Filtered
    <3> QED
      BY <3>2, <3>3
  <2>2. CASE Begins(s, OpenTag) # {}
    <3>1. Begins(r, OpenTag) # {} /\ After(s, OpenTag) = After(r, OpenTag)
      BY <1>7, <2>2 DEF FoundBehind
    <3>2. (ThoughtEnds(s) <=> ThoughtEnds(r)) /\ Ending(s) = Ending(r)
      BY <2>2, <3>1 DEF ThoughtEnds, Ending
    <3>3. CASE ThoughtEnds(s)
      BY <1>3, <3>2, <3>3, ThoughtCases
    <3>4. CASE ~ThoughtEnds(s)
      <4>1. Unended(s) /\ Unended(r)
        BY <1>3, <2>2, <3>1, <3>2, <3>4, ThoughtCases
      <4>2. Unended(s) \in BOOLEAN /\ Unended(r) \in BOOLEAN
        BY <1>3, FilterIs DEF Unended, Filtered
      <4> QED
        BY <4>1, <4>2
    <3> QED
      BY <3>3, <3>4
  <2> QED
    BY <2>1, <2>2
<1> QED
  BY <1>3, <1>6, <1>8 DEF SameSaid

LEMMA NoTagInSpaces ==
  ASSUME NEW V, NEW r \in Seq(V), NEW b \in Seq(V), AllSpace(b), NEW s, IsJoin(s, r, b),
         NEW tag \in {OpenTag, CloseTag}, Begins(r, tag) = {}
  PROVE  Begins(s, tag) = {}
<1>1. PICK W : tag \in Seq(W) /\ tag # <<>> /\ \A j \in 1..Len(tag) : tag[j] # Space
  BY TagFacts
<1>2. \A i \in 1..Len(b), j \in 1..Len(tag) : b[i] # tag[j]
  BY <1>1 DEF AllSpace
<1> QED
  BY <1>1, <1>2, SearchStrange

\* Nor are spaces after it.
LEMMA TrailingSpaces ==
  ASSUME NEW b \in Seq(Letters), AllSpace(b), NEW r \in Seq(Letters), NEW s, IsJoin(s, r, b)
  PROVE  SameSaid(s, r)
<1> DEFINE T == {x \in Seq(Letters) : \A y : IsJoin(y, x, b) => SameSaid(y, x)}
<1>0. ASSUME NEW x \in Seq(Letters) PROVE Unended(x) \in BOOLEAN
  BY FilterIs DEF Unended, Filtered
<1>1. ASSUME NEW x \in Seq(Letters), \A z \in Seq(Letters) : Len(z) < Len(x) => z \in T
      PROVE  x \in T
  <2> SUFFICES ASSUME NEW y, IsJoin(y, x, b) PROVE SameSaid(y, x)
    OBVIOUS
  <2>1. y \in Seq(Letters)
    BY JoinFacts
  <2>2. Unended(x) \in BOOLEAN /\ Unended(y) \in BOOLEAN
    BY <1>0, <2>1
  <2>3. CASE Begins(x, OpenTag) = {}
    <3>1. Begins(y, OpenTag) = {}
      BY <2>3, NoTagInSpaces
    <3>2. Said[x] = x /\ Said[y] = y /\ ~Unended(x) /\ ~Unended(y)
      BY <2>1, <2>3, <3>1, ThoughtCases
    <3>3. NonSpace(y) = NonSpace(x)
      BY SpacesAround
    <3> QED
      BY <2>2, <3>2, <3>3 DEF SameSaid
  <2>4. CASE Begins(x, OpenTag) # {}
    <3>1. PICK W : OpenTag \in Seq(W) /\ OpenTag # <<>>
      BY TagFacts
    <3>2. /\ Begins(y, OpenTag) # {} /\ Before(y, OpenTag) = Before(x, OpenTag)
          /\ Before(x, OpenTag) \in Seq(Letters)
          /\ After(x, OpenTag) \in Seq(Letters) /\ IsJoin(After(y, OpenTag), After(x, OpenTag), b)
      BY <2>4, <3>1, SearchLeft
    <3>3. PICK u \in Seq(Letters), v \in Seq(Letters), p \in Seq(Letters) :
            /\ u = After(x, OpenTag) /\ v = After(y, OpenTag) /\ IsJoin(v, u, b)
            /\ p = Before(x, OpenTag)
      <4>1. After(y, OpenTag) \in Seq(Letters)
        BY <3>2, JoinFacts
      <4> QED
        BY <3>2, <4>1
    <3>4. CASE Begins(u, CloseTag) = {}
      <4>1. Begins(v, CloseTag) = {}
        BY <3>3, <3>4, NoTagInSpaces
      <4>2. ~ThoughtEnds(x) /\ ~ThoughtEnds(y)
        BY <3>3, <3>4, <4>1 DEF ThoughtEnds
      <4>3. Said[x] = p /\ Said[y] = p /\ Unended(x) /\ Unended(y)
        BY <2>1, <2>4, <3>2, <3>3, <4>2, ThoughtCases
      <4> QED
        BY <2>2, <4>3 DEF SameSaid
    <3>5. CASE Begins(u, CloseTag) # {}
      <4>1. PICK X : CloseTag \in Seq(X) /\ CloseTag # <<>>
        BY TagFacts
      <4>2. Begins(v, CloseTag) # {} /\ IsJoin(After(v, CloseTag), After(u, CloseTag), b)
        BY <3>3, <3>5, <4>1, SearchLeft
      <4>3. ThoughtEnds(x) /\ ThoughtEnds(y)
        BY <2>4, <3>2, <3>3, <3>5, <4>2 DEF ThoughtEnds
      <4>4. PICK e \in Seq(Letters), g \in {Ending(y)} : e = Ending(x) /\ Len(e) < Len(x) /\ g = Ending(y) /\ IsJoin(g, e, b)
        <5>1. Ending(x) \in Seq(Letters) /\ Len(Ending(x)) < Len(x)
          BY <4>3, EndingFacts
        <5>2. Ending(x) = After(u, CloseTag) /\ Ending(y) = After(v, CloseTag)
          BY <3>3 DEF Ending
        <5> QED
          BY <4>2, <5>1, <5>2
      <4>5. SameSaid(g, e)
        BY <1>1, <4>4
      <4>6. g \in Seq(Letters)
        BY <4>4, JoinFacts
      <4>7. IsJoin(Said[x], p, Said[e]) /\ IsJoin(Said[y], p, Said[g])
            /\ Unended(x) = Unended(e) /\ Unended(y) = Unended(g)
        BY <2>1, <3>2, <3>3, <4>3, <4>4, ThoughtCases
      <4>8. Said[e] \in Seq(Letters) /\ Said[g] \in Seq(Letters)
        BY <4>6, SaidIs
      <4>9. IsJoin(NonSpace(Said[x]), NonSpace(p), NonSpace(Said[e]))
        BY <4>7, <4>8, NonSpaceJoin
      <4>10. IsJoin(NonSpace(Said[y]), NonSpace(p), NonSpace(Said[g]))
        BY <4>7, <4>8, NonSpaceJoin
      <4> QED
        BY <4>5, <4>7, <4>9, <4>10 DEF SameSaid, IsJoin
    <3> QED
      BY <3>4, <3>5
  <2> QED
    BY <2>3, <2>4
<1> HIDE DEF T
<1>2. \A x \in Seq(Letters) : x \in T
  BY <1>1, ShorterFirst
<1> QED
  BY <1>2 DEF T

\* Of the thoughts that end nothing is left, and nothing else is missing; a thought without
\* an end is left where it is.
LEMMA WithoutKeeps ==
  ASSUME NEW s \in Seq(Letters)
  PROVE  /\ Len(NonSpace(WithoutThoughts[s])) >= Len(NonSpace(Said[s]))
         /\ ~Unended(s) => NonSpace(WithoutThoughts[s]) = NonSpace(Said[s])
<1> DEFINE P(x) == /\ Len(NonSpace(WithoutThoughts[x])) >= Len(NonSpace(Said[x]))
                   /\ ~Unended(x) => NonSpace(WithoutThoughts[x]) = NonSpace(Said[x])
           T == {x \in Seq(Letters) : P(x)}
<1>1. ASSUME NEW x \in Seq(Letters), \A z \in Seq(Letters) : Len(z) < Len(x) => z \in T
      PROVE  x \in T
  <2> SUFFICES P(x)
    OBVIOUS
  <2>1. WithoutThoughts[x] = WithoutStep(x, WithoutThoughts[Onward(x)])
    BY WithoutIs
  <2>2. CASE Begins(x, OpenTag) = {}
    <3>1. WithoutThoughts[x] = x /\ Said[x] = x
      BY <2>1, <2>2, ThoughtCases DEF WithoutStep, ThoughtEnds
    <3>2. Len(NonSpace(x)) \in Nat
      <4>1. NonSpace(x) \in Seq(Letters)
        BY NonSpaceTypes
      <4> QED
        BY <4>1
    <3> QED
      BY <3>1, <3>2
  <2>3. CASE Begins(x, OpenTag) # {} /\ ~ThoughtEnds(x)
    <3>1. WithoutThoughts[x] = x /\ Said[x] = Before(x, OpenTag) /\ Unended(x)
      BY <2>1, <2>3, ThoughtCases DEF WithoutStep
    <3>2. PICK p \in Seq(Letters), r \in Seq(Letters) : p = Before(x, OpenTag) /\ IsJoin(x, p, r)
      <4>1. Before(x, OpenTag) \in Seq(Letters) /\ \E r \in Seq(Letters) : IsJoin(x, Before(x, OpenTag), r)
        BY <2>3, AfterTag
      <4> QED
        BY <4>1
    <3>3. PICK np \in Seq(Letters), nr \in Seq(Letters), nx \in {NonSpace(x)} : np = NonSpace(p) /\ nr = NonSpace(r) /\ nx = NonSpace(x)
      BY NonSpaceTypes
    <3>4. IsJoin(nx, np, nr)
      BY <3>2, <3>3, NonSpaceJoin
    <3>5. Len(nx) = Len(np) + Len(nr)
      BY <3>4, JoinFacts
    <3>6. Len(np) \in Nat /\ Len(nr) \in Nat
      OBVIOUS
    <3>7. Len(nx) >= Len(np)
      BY <3>5, <3>6
    <3> QED
      BY <3>1, <3>2, <3>3, <3>7
  <2>4. CASE ThoughtEnds(x)
    <3>1. PICK p \in Seq(Letters) : p = Before(x, OpenTag)
      BY <2>4, AfterTag DEF ThoughtEnds
    <3>2. PICK e \in Seq(Letters), o \in Seq(Letters) : e = Ending(x) /\ o = Onward(x) /\ o = TrimStart(e) /\ Len(o) < Len(x)
      <4>1. Ending(x) \in Seq(Letters)
        BY <2>4, EndingFacts
      <4>2. Onward(x) \in Seq(Letters) /\ Len(Onward(x)) < Len(x)
        BY <2>4, OnwardFacts
      <4>3. Onward(x) = TrimStart(Ending(x))
        BY DEF Onward
      <4> QED
        BY <4>1, <4>2, <4>3
    <3>3. P(o)
      BY <1>1, <3>2
    <3>4. SameSaid(e, o)
      <4>1. PICK a \in Seq(Letters) : AllSpace(a) /\ IsJoin(e, a, o)
        BY <3>2, TrimStartIs
      <4> QED
        BY <4>1, LeadingSpaces
    <3>5. IsJoin(Said[x], p, Said[e]) /\ Unended(x) = Unended(e)
      BY <2>4, <3>1, <3>2, ThoughtCases
    <3>6. IsJoin(WithoutThoughts[x], p, WithoutThoughts[o])
      BY <2>1, <2>4, <3>1, <3>2 DEF WithoutStep, IsJoin
    <3>7. Said[e] \in Seq(Letters) /\ WithoutThoughts[o] \in Seq(Letters)
      BY SaidIs, WithoutIs
    <3>8. IsJoin(NonSpace(Said[x]), NonSpace(p), NonSpace(Said[e]))
      BY <3>5, <3>7, NonSpaceJoin
    <3>9. IsJoin(NonSpace(WithoutThoughts[x]), NonSpace(p), NonSpace(WithoutThoughts[o]))
      BY <3>6, <3>7, NonSpaceJoin
    <3>10. PICK np \in Seq(Letters), ns \in Seq(Letters), nw \in Seq(Letters), a \in {NonSpace(Said[x])}, c \in {NonSpace(WithoutThoughts[x])} :
             /\ np = NonSpace(p) /\ ns = NonSpace(Said[e]) /\ nw = NonSpace(WithoutThoughts[o])
             /\ a = NonSpace(Said[x]) /\ c = NonSpace(WithoutThoughts[x])
      <4>1. NonSpace(p) \in Seq(Letters) /\ NonSpace(Said[e]) \in Seq(Letters) /\ NonSpace(WithoutThoughts[o]) \in Seq(Letters)
        BY <3>7, NonSpaceTypes
      <4> QED
        BY <4>1
    <3>11. IsJoin(a, np, ns) /\ IsJoin(c, np, nw)
      BY <3>8, <3>9, <3>10
    <3>12. Len(a) = Len(np) + Len(ns) /\ Len(c) = Len(np) + Len(nw)
      BY <3>11, JoinFacts
    <3>13. Len(np) \in Nat /\ Len(ns) \in Nat /\ Len(nw) \in Nat
      OBVIOUS
    <3>14. NonSpace(Said[o]) = ns /\ Unended(x) = Unended(o)
      BY <3>4, <3>5, <3>10 DEF SameSaid
    <3>15. Len(nw) >= Len(ns) /\ (~Unended(x) => nw = ns)
      BY <3>3, <3>10, <3>14
    <3>16. Len(c) >= Len(a)
      BY <3>12, <3>13, <3>15
    <3>17. ~Unended(x) => c = a
      BY <3>11, <3>15 DEF IsJoin
    <3> QED
      BY <3>10, <3>16, <3>17
  <2> QED
    BY <2>2, <2>3, <2>4
<1> HIDE DEF T
<1>2. \A x \in Seq(Letters) : x \in T
  BY <1>1, ShorterFirst
<1> QED
  BY <1>2 DEF T

\* So a trimmed text says the same.
LEMMA TrimSays ==
  ASSUME NEW s \in Seq(Letters)
  PROVE  SameSaid(s, Trim(s)) /\ Trim(s) \in Seq(Letters)
<1>1. PICK a, r, b : Between(Letters, s, Trim(s), a, r, b)
  BY TrimIs
<1>2. PICK t \in Seq(Letters) : t = Trim(s)
  BY TrimsKeep
<1>3. /\ a \in Seq(Letters) /\ r \in Seq(Letters) /\ b \in Seq(Letters)
      /\ AllSpace(a) /\ AllSpace(b) /\ IsJoin(s, a, r) /\ IsJoin(r, t, b)
  BY <1>1, <1>2 DEF Between
<1>4. SameSaid(s, r)
  BY <1>3, LeadingSpaces
<1>5. SameSaid(r, t)
  BY <1>3, TrailingSpaces
<1> QED
  BY <1>2, <1>4, <1>5 DEF SameSaid

\* What is spoken of an answer that comes at once.
LEMMA AtOnceIs ==
  ASSUME NEW s \in Seq(Letters), NEW w, w = Trim(WithoutThoughts[Trim(s)])
  PROVE  /\ w \in Seq(Letters) /\ Len(NonSpace(w)) >= Len(NonSpace(Said[s]))
         /\ ~Unended(s) => NonSpace(w) = NonSpace(Said[s])
<1>1. PICK t \in Seq(Letters) : t = Trim(s) /\ SameSaid(s, t)
  BY TrimSays
<1>2. PICK x \in Seq(Letters) : x = WithoutThoughts[t]
  BY WithoutIs
<1>3. w \in Seq(Letters) /\ NonSpace(w) = NonSpace(x)
  BY <1>1, <1>2, TrimsKeep
<1>4. /\ Len(NonSpace(x)) >= Len(NonSpace(Said[t]))
      /\ ~Unended(t) => NonSpace(x) = NonSpace(Said[t])
  BY <1>2, WithoutKeeps
<1> QED
  BY <1>1, <1>3, <1>4 DEF SameSaid

\* What is said of a call: the characters of the answers, and the spaces between phrases.
Sounds == Letters \cup {Space}

LEMMA WiderSeq ==
  ASSUME NEW V, NEW W, V \subseteq W, NEW s \in Seq(V)
  PROVE  s \in Seq(W)
<1>1. s \in [1..Len(s) -> W] /\ Len(s) \in Nat
  OBVIOUS
<1> QED
  BY <1>1

LEMMA SoundFacts ==
  /\ \A s \in Seq(Letters) : s \in Seq(Sounds)
  /\ \A l \in Seq(Seq(Letters)) : l \in Seq(Seq(Sounds))
  /\ Space \in Sounds
<1>1. Letters \subseteq Sounds /\ Space \in Sounds
  BY DEF Sounds
<1>2. \A s \in Seq(Letters) : s \in Seq(Sounds)
  BY <1>1, WiderSeq
<1>3. Seq(Letters) \subseteq Seq(Sounds)
  BY <1>2
<1>4. \A l \in Seq(Seq(Letters)) : l \in Seq(Seq(Sounds))
  <2> SUFFICES ASSUME NEW l \in Seq(Seq(Letters)) PROVE l \in Seq(Seq(Sounds))
    OBVIOUS
  <2>1. PICK V, W : V = Seq(Letters) /\ W = Seq(Sounds)
    OBVIOUS
  <2>2. V \subseteq W /\ l \in Seq(V)
    BY <1>3, <2>1
  <2>3. l \in Seq(W)
    BY <2>2, WiderSeq
  <2> QED
    BY <2>1, <2>3
<1> QED
  BY <1>1, <1>2, <1>4

\* The whole answer, and what is still to come of it, as they should be said.
SaidWhole(f, a) == IF f THEN Said[a] ELSE a
StillToSay(f, t, h, r) == IF f THEN SaidOf(t, h \o r) ELSE r
ThroughOf(f, t, h, d) ==
  IF f THEN ThinkFilter[h \o d][t] ELSE [out |-> d, kept |-> h, thinking |-> t]

\* A piece that goes through the filter.
Passes(f, t, h, r, q, F) ==
  /\ F \in Filtered(Letters)
  /\ IsJoin(StillToSay(f, t, h, r), F.out, StillToSay(f, F.thinking, F.kept, q))
  /\ StillToSay(f, t, h, r) \in Seq(Letters) /\ StillToSay(f, F.thinking, F.kept, q) \in Seq(Letters)
  /\ f => Len(F.kept) < Len(Sought(F.thinking))

\* What is still to be said, of what is held back and of what has not come.
LEMMA StillToSayIs ==
  ASSUME NEW f \in BOOLEAN, NEW t \in BOOLEAN, NEW h \in Seq(Letters), NEW r \in Seq(Letters),
         NEW u, IsJoin(u, h, r)
  PROVE  /\ StillToSay(f, t, h, r) = IF f THEN SaidOf(t, u) ELSE r
         /\ StillToSay(f, t, h, r) \in Seq(Letters) /\ u \in Seq(Letters)
<1>1. u = h \o r
  BY DEF IsJoin
<1>2. u \in Seq(Letters)
  BY JoinFacts
<1>3. SaidOf(t, u) \in Seq(Letters)
  BY <1>2, SaidOfIs
<1>4. StillToSay(f, t, h, r) = IF f THEN SaidOf(t, u) ELSE r
  BY <1>1 DEF StillToSay
<1> QED
  BY <1>2, <1>3, <1>4

\* A piece that comes: what passes the filter is the start of what was still to be said.
LEMMA PiecePasses ==
  ASSUME NEW f \in BOOLEAN, NEW t \in BOOLEAN, NEW h \in Seq(Letters), NEW r \in Seq(Letters),
         NEW d \in Seq(Letters), NEW q \in Seq(Letters), IsJoin(r, d, q)
  PROVE  Passes(f, t, h, r, q, ThroughOf(f, t, h, d))
<1>1. PICK F : F = ThroughOf(f, t, h, d)
  OBVIOUS
<1>2. PICK b, u : IsJoin(b, h, d) /\ IsJoin(u, h, r)
  BY JoinExists
<1>3. b \in Seq(Letters)
  BY <1>2, JoinFacts
<1>4. IsJoin(u, b, q)
  BY <1>2, JoinRight
<1>5. StillToSay(f, t, h, r) = (IF f THEN SaidOf(t, u) ELSE r) /\ StillToSay(f, t, h, r) \in Seq(Letters)
  BY <1>2, StillToSayIs
<1>6. CASE f
  <2>1. F = ThinkFilter[b][t]
    <3>1. b = h \o d
      BY <1>2 DEF IsJoin
    <3> QED
      BY <1>1, <1>6, <3>1 DEF ThroughOf
  <2>2. F \in Filtered(Letters)
    BY <1>3, <2>1, FilterIs
  <2>3. FilterSays(b, t, F)
    BY <1>3, <2>1, FilterIsRight
  <2>4. PICK k \in Seq(Letters), s \in BOOLEAN : k = F.kept /\ s = F.thinking
    BY <2>2 DEF Filtered
  <2>5. PICK w : IsJoin(w, k, q)
    BY JoinExists
  <2>9. StillToSay(f, s, k, q) = (IF f THEN SaidOf(s, w) ELSE q) /\ StillToSay(f, s, k, q) \in Seq(Letters)
    BY <2>5, StillToSayIs
  <2>6. StillToSay(f, s, k, q) = SaidOf(s, w) /\ StillToSay(f, s, k, q) \in Seq(Letters)
    BY <1>6, <2>9
  <2>7. IsJoin(SaidOf(t, u), F.out, SaidOf(s, w)) /\ Len(k) < Len(Sought(s))
    BY <1>4, <2>3, <2>4, <2>5 DEF FilterSays
  <2>8. StillToSay(f, t, h, r) = SaidOf(t, u)
    BY <1>5, <1>6
  <2> QED
    BY <1>1, <1>5, <2>2, <2>4, <2>6, <2>7, <2>8 DEF Passes
<1>7. CASE ~f
  <2>1. F = [out |-> d, kept |-> h, thinking |-> t]
    BY <1>1, <1>7 DEF ThroughOf
  <2>2. F \in Filtered(Letters) /\ F.out = d /\ F.kept = h /\ F.thinking = t
    BY <2>1 DEF Filtered
  <2>3. StillToSay(f, t, h, r) = r /\ StillToSay(f, t, h, q) = q
    BY <1>7 DEF StillToSay
  <2> QED
    BY <1>1, <1>7, <2>2, <2>3 DEF Passes
<1> QED
  BY <1>6, <1>7

\* What has been spoken, or will be as the end of the answer.
Phrased(u, l) == NonSpace(FlattenSeq(u)) \o NonSpace(FlattenSeq(l))

\* What was spoken and what waits in phrases, without spaces.
LEMMA PhrasedIs ==
  ASSUME NEW V, NEW u \in Seq(Seq(V)), NEW l \in Seq(Seq(V))
  PROVE  /\ IsJoin(Phrased(u, l), NonSpace(FlattenSeq(u)), NonSpace(FlattenSeq(l)))
         /\ NonSpace(FlattenSeq(u)) \in Seq(V) /\ NonSpace(FlattenSeq(l)) \in Seq(V)
         /\ Phrased(u, l) \in Seq(V)
<1>1. IsJoin(Phrased(u, l), NonSpace(FlattenSeq(u)), NonSpace(FlattenSeq(l)))
  BY DEF Phrased, IsJoin
<1>2. FlattenSeq(u) \in Seq(V) /\ FlattenSeq(l) \in Seq(V)
  <2>1. PICK z : IsJoin(z, u, l)
    BY JoinExists
  <2> QED
    BY <2>1, FlattenJoin
<1>3. NonSpace(FlattenSeq(u)) \in Seq(V) /\ NonSpace(FlattenSeq(l)) \in Seq(V)
  BY <1>2, NonSpaceTypes
<1>4. Phrased(u, l) \in Seq(V)
  BY <1>1, <1>3, JoinFacts
<1> QED
  BY <1>1, <1>3, <1>4

\* The phrases of two lists, one after the other.
LEMMA PhrasesJoin ==
  ASSUME NEW V, NEW s \in Seq(Seq(V)), NEW t \in Seq(Seq(V)), NEW u, IsJoin(u, s, t)
  PROVE  IsJoin(NonSpace(FlattenSeq(u)), NonSpace(FlattenSeq(s)), NonSpace(FlattenSeq(t)))
<1>1. /\ FlattenSeq(s) \in Seq(V) /\ FlattenSeq(t) \in Seq(V)
      /\ IsJoin(FlattenSeq(u), FlattenSeq(s), FlattenSeq(t))
  BY FlattenJoin
<1> QED
  BY <1>1, NonSpaceJoin

LEMMA NoPhrases == FlattenSeq(<<>>) = <<>> /\ NonSpace(<<>>) = <<>>
<1>1. <<>> \in Seq({})
  OBVIOUS
<1>2. FlattenSeq(<<>>) = <<>>
  BY <1>1, FlattenOne
<1>3. NonSpace(<<>>) = <<>>
  BY <1>1, NonSpaceTypes
<1> QED
  BY <1>2, <1>3

LEMMA FirstAndOthers ==
  ASSUME NEW V, NEW s \in Seq(V), s # <<>>
  PROVE  /\ Head(s) \in V /\ Tail(s) \in Seq(V) /\ <<Head(s)>> \in Seq(V)
         /\ IsJoin(s, <<Head(s)>>, Tail(s))
<1>1. PICK n \in Nat : n = Len(s) /\ n # 0
  OBVIOUS
<1>2. PICK h, t, one : h = Head(s) /\ t = Tail(s) /\ one = <<h>>
  OBVIOUS
<1>3. h \in V /\ t \in Seq(V) /\ one \in Seq(V) /\ Len(one) = 1 /\ one[1] = s[1] /\ Len(t) = n - 1
  BY <1>1, <1>2
<1>4. PICK m \in Nat : m = n - 1
  BY <1>1
<1>5. \A i \in 1..m : t[i] = s[1 + i]
  BY <1>1, <1>2, <1>4
<1>6. \A i \in 1..1 : s[i] = one[i]
  BY <1>3
<1>7. Len(s) = 1 + m
  BY <1>1, <1>4
<1>8. IsJoin(s, one, t)
  <2>1. PICK k \in Nat : k = 1
    OBVIOUS
  <2>2. k = Len(one) /\ m = Len(t) /\ Len(s) = k + m
    BY <1>3, <1>4, <1>7, <2>1
  <2>3. \A i \in 1..k : s[i] = one[i]
    BY <1>6, <2>1
  <2>4. \A i \in 1..m : s[k + i] = t[i]
    BY <1>5, <2>1
  <2> QED
    BY <1>3, <2>2, <2>3, <2>4, JoinIf
<1> QED
  BY <1>2, <1>3, <1>8

FirstPhrase(u, l) == u = <<>> /\ l # <<>>
UtteredWith(u, l) == IF FirstPhrase(u, l) THEN <<Head(l)>> ELSE u
TailWith(t, u, l) == IF FirstPhrase(u, l) THEN t \o Tail(l) ELSE t \o l

\* Phrases put in the queue of the call, the first of which may be spoken at once.
Queued(V, u, t, l) ==
  /\ UtteredWith(u, l) \in Seq(Seq(V)) /\ TailWith(t, u, l) \in Seq(Seq(V))
  /\ IsJoin(Phrased(UtteredWith(u, l), TailWith(t, u, l)), Phrased(u, t), NonSpace(FlattenSeq(l)))
  /\ UtteredWith(u, l) = <<>> => TailWith(t, u, l) = <<>>

\* Phrases that are queued are spoken at once or wait behind the first one, in order.
LEMMA PhrasesQueued ==
  ASSUME NEW V, NEW u \in Seq(Seq(V)), NEW t \in Seq(Seq(V)), NEW l \in Seq(Seq(V)),
         u = <<>> => t = <<>>
  PROVE  Queued(V, u, t, l)
<1>1. PICK fl \in Seq(V) : fl = NonSpace(FlattenSeq(l))
  BY PhrasedIs
<1>2. CASE FirstPhrase(u, l)
  <2>1. PICK W : W = Seq(V)
    OBVIOUS
  <2>2. u = <<>> /\ t = <<>> /\ l # <<>> /\ l \in Seq(W)
    BY <1>2, <2>1 DEF FirstPhrase
  <2>3. PICK one \in Seq(W), more \in Seq(W) : /\ one = <<Head(l)>> /\ more = Tail(l)
                                             /\ IsJoin(l, one, more) /\ one # <<>>
    <3>1. <<Head(l)>> \in Seq(W) /\ Tail(l) \in Seq(W) /\ IsJoin(l, <<Head(l)>>, Tail(l))
      BY <2>2, FirstAndOthers
    <3> QED
      BY <3>1
  <2>4. UtteredWith(u, l) = one /\ TailWith(t, u, l) = more
    <3>1. t \o Tail(l) = more
      BY <2>1, <2>2, <2>3
    <3> QED
      BY <1>2, <2>3, <3>1 DEF UtteredWith, TailWith
  <2>5. one \in Seq(Seq(V)) /\ more \in Seq(Seq(V))
    BY <2>1, <2>3
  <2>6. IsJoin(fl, NonSpace(FlattenSeq(one)), NonSpace(FlattenSeq(more)))
    BY <1>1, <2>3, <2>5, PhrasesJoin
  <2>7. Phrased(one, more) = fl
    BY <2>6 DEF IsJoin, Phrased
  <2>8. Phrased(u, t) = <<>>
    BY <2>2, NoPhrases DEF Phrased
  <2>9. IsJoin(fl, <<>>, fl)
    BY JoinEmpty
  <2> QED
    BY <1>1, <2>3, <2>4, <2>5, <2>7, <2>8, <2>9 DEF Queued
<1>3. CASE ~FirstPhrase(u, l)
  <2>1. PICK z : IsJoin(z, t, l)
    BY JoinExists
  <2>2. z = t \o l
    BY <2>1 DEF IsJoin
  <2>3. UtteredWith(u, l) = u /\ TailWith(t, u, l) = z
    BY <1>3, <2>2 DEF UtteredWith, TailWith
  <2>4. z \in Seq(Seq(V))
    BY <2>1, JoinFacts
  <2>5. PICK fu \in Seq(V), ft \in Seq(V) : fu = NonSpace(FlattenSeq(u)) /\ ft = NonSpace(FlattenSeq(t))
    BY PhrasedIs
  <2>6. PICK fz \in Seq(V) : fz = NonSpace(FlattenSeq(z))
    BY <2>4, PhrasedIs
  <2>7. IsJoin(fz, ft, fl)
    BY <1>1, <2>1, <2>5, <2>6, PhrasesJoin
  <2>8. IsJoin(Phrased(u, t), fu, ft)
    BY <2>5, PhrasedIs
  <2>9. IsJoin(Phrased(u, z), fu, fz)
    BY <2>4, <2>5, <2>6, PhrasedIs
  <2>10. IsJoin(Phrased(u, z), Phrased(u, t), fl)
    BY <2>7, <2>8, <2>9, JoinRight
  <2>11. u = <<>> => z = <<>>
    <3>1. u = <<>> => t = <<>> /\ l = <<>>
      BY <1>3 DEF FirstPhrase
    <3> QED
      BY <2>2, <3>1
  <2> QED
    BY <1>1, <2>3, <2>4, <2>10, <2>11 DEF Queued
<1> QED
  BY <1>2, <1>3

\* The rest of the pending text is the last phrase.
LEMMA ForcedIs ==
  ASSUME NEW V, NEW R \in SplitInto(V), NEW p \in Seq(V),
         IsJoin(NonSpace(p), NonSpace(FlattenSeq(R.phrases)), NonSpace(R.remaining))
  PROVE  Forced(R) \in Seq(Seq(V)) /\ NonSpace(FlattenSeq(Forced(R))) = NonSpace(p)
<1>1. PICK l \in Seq(Seq(V)), q \in Seq(V) : l = R.phrases /\ q = R.remaining
  BY DEF SplitInto
<1>2. PICK fl \in Seq(V), fq \in Seq(V) : fl = NonSpace(FlattenSeq(l)) /\ fq = NonSpace(q)
  BY PhrasedIs, NonSpaceTypes
<1>3. IsJoin(NonSpace(p), fl, fq)
  BY <1>1, <1>2
<1>4. CASE Solid(q) = {}
  <2>1. Forced(R) = l
    BY <1>1, <1>4 DEF Forced
  <2>2. AllSpace(q)
    BY <1>4 DEF Solid, AllSpace
  <2>3. fq = <<>>
    BY <1>2, <2>2, NonSpaceOfSpaces
  <2>4. NonSpace(p) = fl
    <3>1. IsJoin(fl, fl, fq)
      BY <2>3, JoinEmpty
    <3> QED
      BY <1>3, <3>1 DEF IsJoin
  <2> QED
    BY <1>2, <2>1, <2>4
<1>5. CASE Solid(q) # {}
  <2>1. PICK t \in Seq(V) : t = Trim(q) /\ NonSpace(t) = fq
    BY <1>2, TrimsKeep
  <2>2. PICK one, z : one = <<t>> /\ IsJoin(z, l, one)
    BY JoinExists
  <2>3. one \in Seq(Seq(V)) /\ FlattenSeq(one) = t
    BY <2>2, FlattenOne
  <2>4. Forced(R) = z
    <3>1. Forced(R) = Append(l, t)
      BY <1>1, <1>5, <2>1 DEF Forced
    <3>2. z = Append(l, t)
      BY <2>2 DEF IsJoin
    <3> QED
      BY <3>1, <3>2
  <2>5. z \in Seq(Seq(V))
    BY <2>2, <2>3, JoinFacts
  <2>6. IsJoin(NonSpace(FlattenSeq(z)), fl, fq)
    <3>1. IsJoin(NonSpace(FlattenSeq(z)), NonSpace(FlattenSeq(l)), NonSpace(FlattenSeq(one)))
      BY <2>2, <2>3, PhrasesJoin
    <3> QED
      BY <1>2, <2>1, <2>3, <3>1
  <2> QED
    BY <1>3, <2>4, <2>5, <2>6 DEF IsJoin
<1> QED
  BY <1>4, <1>5

\* The tail, spoken as one, says what its phrases say.
TailTo(u, t) == IF t = <<>> THEN u ELSE Append(u, Joined(t))
\* What waits behind the first phrase is spoken as it is.
LEMMA TailSpoken ==
  ASSUME NEW V, Space \in V, NEW u \in Seq(Seq(V)), NEW t \in Seq(Seq(V))
  PROVE  TailTo(u, t) \in Seq(Seq(V)) /\ Phrased(TailTo(u, t), <<>>) = Phrased(u, t)
<1>5. PICK w : w = TailTo(u, t)
  OBVIOUS
<1>1. <<>> \in Seq(Seq(V))
  OBVIOUS
<1>2. PICK fu \in Seq(V), ft \in Seq(V) : fu = NonSpace(FlattenSeq(u)) /\ ft = NonSpace(FlattenSeq(t))
  BY PhrasedIs
<1>3. CASE t = <<>>
  BY <1>3 DEF TailTo
<1>4. CASE t # <<>>
  <2>1. PICK j \in Seq(V) : j = Joined(t) /\ NonSpace(j) = ft
    BY <1>2, JoinedIs
  <2>2. PICK one : one = <<j>>
    OBVIOUS
  <2>3. one \in Seq(Seq(V)) /\ FlattenSeq(one) = j
    BY <2>2, FlattenOne
  <2>4. w = Append(u, j)
    BY <1>4, <1>5, <2>1 DEF TailTo
  <2>5. IsJoin(w, u, one) /\ w \in Seq(Seq(V))
    BY <2>2, <2>4 DEF IsJoin
  <2>6. IsJoin(NonSpace(FlattenSeq(w)), NonSpace(FlattenSeq(u)), NonSpace(FlattenSeq(one)))
    BY <2>3, <2>5, PhrasesJoin
  <2>7. IsJoin(NonSpace(FlattenSeq(w)), fu, ft)
    BY <1>2, <2>1, <2>3, <2>6
  <2>8. IsJoin(Phrased(u, t), fu, ft)
    BY <1>2, PhrasedIs
  <2>9. NonSpace(FlattenSeq(w)) = Phrased(u, t)
    BY <2>7, <2>8 DEF IsJoin
  <2>10. Phrased(w, <<>>) = NonSpace(FlattenSeq(w))
    <3>1. PICK fw \in Seq(V) : fw = NonSpace(FlattenSeq(w))
      BY <2>5, PhrasedIs
    <3>2. Phrased(w, <<>>) = fw \o <<>>
      BY <3>1, NoPhrases DEF Phrased
    <3>3. fw \o <<>> = fw
      OBVIOUS
    <3> QED
      BY <3>1, <3>2, <3>3
  <2> QED
    BY <1>5, <2>5, <2>9, <2>10
<1> QED
  BY <1>3, <1>4

\* Text that is moved from the pending phrase to the queue.
LEMMA Moves ==
  ASSUME NEW V, NEW T \in Seq(V), NEW p \in Seq(V), NEW o \in Seq(V), NEW g \in Seq(V), NEW r \in Seq(V),
         NEW x, IsJoin(x, T, p), NEW y, IsJoin(y, x, o), NEW c, IsJoin(c, p, o), IsJoin(c, g, r),
         NEW T1, IsJoin(T1, T, g)
  PROVE  IsJoin(y, T1, r)
<1>1. IsJoin(y, T, c)
  BY JoinLeft
<1> QED
  BY <1>1, JoinRight

-----------------------------------------------------------------------------
(* The invariant of the answer *)

AnswerTypes ==
  /\ answer \in SpokenAnswers /\ answer \in Seq(Letters)
  /\ filters \in BOOLEAN /\ inThink \in BOOLEAN
  /\ rest \in Seq(Letters) /\ held \in Seq(Letters)
  /\ text \in Seq(Letters) /\ pending \in Seq(Letters)
  /\ tail \in Seq(Seq(Sounds)) /\ uttered \in Seq(Seq(Sounds))
  /\ answering \in {"receiving", "closing", "done", "whole", "aborted"}

\* Of an answer in pieces: what should be said is what is recorded and what is still to
\* come; what is recorded is what is spoken, what waits for the end and what is pending;
\* the filter holds back less than the tag it looks for; nothing waits for the end
\* before a phrase was spoken.
InPieces ==
  /\ IsJoin(SaidWhole(filters, answer), text, StillToSay(filters, inThink, held, rest))
  /\ IsJoin(NonSpace(text), Phrased(uttered, tail), NonSpace(pending))
  /\ filters => Len(held) < Len(Sought(inThink))
  /\ uttered = <<>> => tail = <<>>
  /\ answering = "receiving" => EndsOfSentence(pending) = {}
  /\ answering \in {"closing", "done"} => rest = <<>> /\ pending = <<>>
  /\ answering = "done" => tail = <<>>

AnswerInv ==
  /\ AnswerTypes
  /\ answering = "whole" => HeardInOrder /\ OnlyTheEndMissing /\ RecordedIsHeard
  /\ answering # "whole" => InPieces

\* An answer begins with nothing heard.
LEMMA AnswerStart == AnswerInit => AnswerInv
<1> SUFFICES ASSUME AnswerInit PROVE AnswerInv
  OBVIOUS
<1>1. answer \in SpokenAnswers /\ answer \in Seq(Letters) /\ filters \in BOOLEAN
  BY LetterFacts DEF AnswerInit
<1>2. AnswerTypes /\ answering = "receiving"
  <2>1. <<>> \in Seq(Letters) /\ <<>> \in Seq(Seq(Sounds))
    OBVIOUS
  <2> QED
    BY <1>1, <2>1, Zenon DEF AnswerInit, AnswerTypes
<1>3. StillToSay(filters, inThink, held, rest) = SaidWhole(filters, answer)
  <2>1. rest = answer /\ held = <<>> /\ inThink = FALSE
    BY DEF AnswerInit
  <2>2. held \o rest = answer
    BY <1>1, <2>1
  <2> QED
    BY <2>1, <2>2 DEF StillToSay, SaidWhole, SaidOf
<1>4. IsJoin(SaidWhole(filters, answer), text, StillToSay(filters, inThink, held, rest))
  <2>1. PICK w \in Seq(Letters) : w = SaidWhole(filters, answer)
    BY <1>1, SaidIs DEF SaidWhole
  <2>2. IsJoin(w, <<>>, w)
    BY JoinEmpty
  <2> QED
    BY <1>3, <2>1, <2>2 DEF AnswerInit
<1>5. IsJoin(NonSpace(text), Phrased(uttered, tail), NonSpace(pending))
  <2>1. text = <<>> /\ uttered = <<>> /\ tail = <<>> /\ pending = <<>>
    BY DEF AnswerInit
  <2>2. Phrased(uttered, tail) = <<>>
    BY <2>1, NoPhrases DEF Phrased
  <2>3. IsJoin(<<>>, <<>>, <<>>)
    BY DEF IsJoin
  <2> QED
    BY <2>1, <2>2, <2>3, NoPhrases
<1>6. Len(held) < Len(Sought(inThink))
  <2>1. held = <<>> /\ Sought(inThink) = OpenTag
    BY DEF AnswerInit, Sought
  <2>2. Len(OpenTag) \in Nat /\ Len(OpenTag) # 0
    BY TagFacts
  <2> QED
    BY <2>1, <2>2
<1>7. uttered = <<>> /\ tail = <<>> /\ EndsOfSentence(pending) = {}
  BY DEF AnswerInit, EndsOfSentence
<1> QED
  BY <1>2, <1>4, <1>5, <1>6, <1>7 DEF AnswerInv, InPieces

\* What of the answer arrives, and what has not.
LEMMA PieceTaken ==
  ASSUME NEW r \in Seq(Letters), NEW n \in 1..Len(r)
  PROVE  /\ SubSeq(r, 1, n) \in Seq(Letters) /\ From(r, n + 1) \in Seq(Letters)
         /\ IsJoin(r, SubSeq(r, 1, n), From(r, n + 1))
<1>1. PICK m \in Nat : m = Len(r)
  OBVIOUS
<1>2. PICK k \in 0..m, l \in Nat : k = n /\ l = k + 1
  BY <1>1
<1>3. PICK p, q : p = SubSeq(r, 1, k) /\ q = SubSeq(r, l, m)
  OBVIOUS
<1>4. Cuts(Letters, r, m, k, p, q)
  BY <1>1, <1>2, <1>3, CutJoin
<1>5. p \in Seq(Letters) /\ q \in Seq(Letters) /\ IsJoin(r, p, q)
  BY <1>4 DEF Cuts
<1>6. p = SubSeq(r, 1, n) /\ q = From(r, n + 1)
  BY <1>1, <1>2, <1>3 DEF From
<1> QED
  BY <1>5, <1>6

\* The text that a piece brings is split off the pending phrase.
SplitBy(p, o) == SplitReady[Collapsed(p \o o)]
\* What comes in is split into phrases with what was pending.
LEMMA PendingSplit ==
  ASSUME NEW p \in Seq(Letters), NEW o \in Seq(Letters)
  PROVE  /\ SplitBy(p, o) \in SplitInto(Letters) /\ EndsOfSentence(SplitBy(p, o).remaining) = {}
         /\ \E c \in Seq(Letters) :
              /\ IsJoin(c, NonSpace(p), NonSpace(o))
              /\ IsJoin(c, NonSpace(FlattenSeq(SplitBy(p, o).phrases)), NonSpace(SplitBy(p, o).remaining))
<1>1. PICK u : IsJoin(u, p, o)
  BY JoinExists
<1>2. u = p \o o /\ u \in Seq(Letters)
  BY <1>1, JoinFacts DEF IsJoin
<1>3. PICK s \in Seq(Letters) : s = Collapsed(u) /\ NonSpace(s) = NonSpace(u)
  BY <1>2, CollapsedKeeps
<1>4. SplitBy(p, o) = SplitReady[s]
  BY <1>2, <1>3 DEF SplitBy
<1>5. SplitReady[s] \in SplitInto(Letters) /\ SplitSays(s, SplitReady[s])
  BY SplitIs, SplitIsRight
<1>6. IsJoin(NonSpace(u), NonSpace(p), NonSpace(o)) /\ NonSpace(u) \in Seq(Letters)
  BY <1>1, NonSpaceJoin
<1>7. /\ IsJoin(NonSpace(u), NonSpace(FlattenSeq(SplitBy(p, o).phrases)), NonSpace(SplitBy(p, o).remaining))
      /\ EndsOfSentence(SplitBy(p, o).remaining) = {}
  BY <1>3, <1>4, <1>5 DEF SplitSays
<1> QED
  BY <1>4, <1>5, <1>6, <1>7

\* A piece of the answer comes, passes the filter, is split and queued.
LEMMA ReceiveKeeps ==
  ASSUME AnswerInv, NEW n \in 1..Len(rest), Receive(n)
  PROVE  AnswerInv'
<1>1. /\ answer \in Seq(Letters) /\ filters \in BOOLEAN /\ inThink \in BOOLEAN
      /\ rest \in Seq(Letters) /\ held \in Seq(Letters)
      /\ text \in Seq(Letters) /\ pending \in Seq(Letters)
      /\ tail \in Seq(Seq(Sounds)) /\ uttered \in Seq(Seq(Sounds))
  BY DEF AnswerInv, AnswerTypes
<1>2. answering = "receiving" /\ answering' = "receiving" /\ answer' = answer /\ filters' = filters
  BY DEF Receive
<1>3. InPieces
  BY <1>2 DEF AnswerInv
<1>4. PICK d \in Seq(Letters), q \in Seq(Letters) :
        d = SubSeq(rest, 1, n) /\ q = From(rest, n + 1) /\ IsJoin(rest, d, q)
  BY <1>1, PieceTaken
<1>5. PICK F : F = Through(d) /\ F = ThroughOf(filters, inThink, held, d)
  BY DEF Through, ThroughOf
<1>6. Passes(filters, inThink, held, rest, q, F)
  <2>1. PICK f \in BOOLEAN, s \in BOOLEAN, h \in Seq(Letters), r \in Seq(Letters) :
          f = filters /\ s = inThink /\ h = held /\ r = rest
    BY <1>1
  <2>2. IsJoin(r, d, q)
    BY <1>4, <2>1
  <2>3. Passes(f, s, h, r, q, ThroughOf(f, s, h, d))
    BY <2>2, PiecePasses
  <2> QED
    BY <1>5, <2>1, <2>3
<1>7. PICK o \in Seq(Letters), k \in Seq(Letters), t \in BOOLEAN :
        o = F.out /\ k = F.kept /\ t = F.thinking
  BY <1>6 DEF Passes, Filtered
<1>8. /\ rest' = q /\ held' = k /\ inThink' = t
      /\ o = <<>> => UNCHANGED <<text, pending, tail, uttered>>
      /\ o # <<>> => /\ text' = text \o o /\ pending' = SplitBy(pending, o).remaining
                     /\ uttered' = UtteredWith(uttered, SplitBy(pending, o).phrases)
                     /\ tail' = TailWith(tail, uttered, SplitBy(pending, o).phrases)
  BY <1>4, <1>5, <1>7 DEF Receive, SplitBy, UtteredOf, TailOf, UtteredWith, TailWith, FirstPhrase
<1>9. PICK x : IsJoin(x, text, o)
  BY JoinExists
<1>10. x \in Seq(Letters) /\ text' = x
  <2>1. x \in Seq(Letters)
    BY <1>1, <1>9, JoinFacts
  <2>2. x = text \o o
    BY <1>9 DEF IsJoin
  <2>3. o = <<>> => x = text
    BY <1>1, <2>2
  <2> QED
    BY <1>8, <2>1, <2>2, <2>3
<1>11. IsJoin(SaidWhole(filters, answer), text, StillToSay(filters, inThink, held, rest))'
  <2>1. PICK w : w = SaidWhole(filters, answer)
    OBVIOUS
  <2>2. PICK y \in Seq(Letters), z \in Seq(Letters) :
          /\ y = StillToSay(filters, inThink, held, rest) /\ z = StillToSay(filters, t, k, q)
          /\ IsJoin(y, o, z)
    BY <1>6, <1>7 DEF Passes
  <2>3. IsJoin(w, text, y)
    BY <1>3, <2>1, <2>2 DEF InPieces
  <2>4. IsJoin(w, x, z)
    BY <1>1, <1>9, <2>2, <2>3, JoinRight
  <2> QED
    BY <1>2, <1>8, <1>10, <2>1, <2>2, <2>4
<1>12. (filters => Len(held) < Len(Sought(inThink)))'
  BY <1>2, <1>6, <1>7, <1>8 DEF Passes
<1>13. /\ pending' \in Seq(Letters) /\ tail' \in Seq(Seq(Sounds)) /\ uttered' \in Seq(Seq(Sounds))
       /\ IsJoin(NonSpace(text'), Phrased(uttered', tail'), NonSpace(pending'))
       /\ uttered' = <<>> => tail' = <<>>
       /\ EndsOfSentence(pending') = {}
  <2>1. CASE o = <<>>
    <3>1. UNCHANGED <<text, pending, tail, uttered>>
      BY <1>8, <2>1
    <3>2. EndsOfSentence(pending) = {}
      BY <1>2, <1>3 DEF InPieces
    <3> QED
      BY <1>1, <1>3, <3>1, <3>2 DEF InPieces
  <2>2. CASE o # <<>>
    <3>1. PICK R \in SplitInto(Letters) :
            /\ R = SplitBy(pending, o) /\ EndsOfSentence(R.remaining) = {}
            /\ \E c \in Seq(Letters) :
                 /\ IsJoin(c, NonSpace(pending), NonSpace(o))
                 /\ IsJoin(c, NonSpace(FlattenSeq(R.phrases)), NonSpace(R.remaining))
      BY <1>1, PendingSplit
    <3>2. PICK l \in Seq(Seq(Letters)), r \in Seq(Letters) : l = R.phrases /\ r = R.remaining
      BY DEF SplitInto
    <3>3. PICK c : IsJoin(c, NonSpace(pending), NonSpace(o)) /\ IsJoin(c, NonSpace(FlattenSeq(l)), NonSpace(r))
      BY <3>1, <3>2
    <3>4. l \in Seq(Seq(Sounds))
      BY SoundFacts
    <3>5. Queued(Sounds, uttered, tail, l)
      <4>1. uttered = <<>> => tail = <<>>
        BY <1>3 DEF InPieces
      <4> QED
        BY <1>1, <3>4, <4>1, PhrasesQueued
    <3>6. pending' = r /\ uttered' = UtteredWith(uttered, l) /\ tail' = TailWith(tail, uttered, l)
      BY <1>8, <2>2, <3>1, <3>2
    <3>7. /\ uttered' \in Seq(Seq(Sounds)) /\ tail' \in Seq(Seq(Sounds))
          /\ IsJoin(Phrased(uttered', tail'), Phrased(uttered, tail), NonSpace(FlattenSeq(l)))
          /\ uttered' = <<>> => tail' = <<>>
      BY <3>5, <3>6 DEF Queued
    <3>8. PICK g \in Seq(Sounds), T \in Seq(Sounds) : g = NonSpace(FlattenSeq(l)) /\ T = Phrased(uttered, tail)
      BY <1>1, <3>4, PhrasedIs
    <3>9. PICK p1 \in Seq(Sounds), o1 \in Seq(Sounds), r1 \in Seq(Sounds) :
            p1 = NonSpace(pending) /\ o1 = NonSpace(o) /\ r1 = NonSpace(r)
      <4>1. pending \in Seq(Sounds) /\ o \in Seq(Sounds) /\ r \in Seq(Sounds)
        BY <1>1, SoundFacts
      <4> QED
        BY <4>1, NonSpaceTypes
    <3>10. IsJoin(NonSpace(x), NonSpace(text), o1)
      BY <1>1, <1>9, <3>9, NonSpaceJoin
    <3>11. IsJoin(NonSpace(text), T, p1)
      BY <1>3, <3>8, <3>9 DEF InPieces
    <3>12. IsJoin(c, p1, o1) /\ IsJoin(c, g, r1)
      BY <3>3, <3>8, <3>9
    <3>13. IsJoin(Phrased(uttered', tail'), T, g)
      BY <3>7, <3>8
    <3>14. IsJoin(NonSpace(x), Phrased(uttered', tail'), r1)
      BY <3>10, <3>11, <3>12, <3>13, Moves
    <3> QED
      BY <1>10, <3>1, <3>2, <3>6, <3>7, <3>9, <3>14
  <2> QED
    BY <2>1, <2>2
<1>14. AnswerTypes'
  BY <1>1, <1>2, <1>8, <1>10, <1>13 DEF AnswerInv, AnswerTypes
<1>15. InPieces'
  BY <1>2, <1>11, <1>12, <1>13 DEF InPieces
<1> QED
  BY <1>2, <1>14, <1>15 DEF AnswerInv

\* The answer ends: what is pending is spoken, what the filter holds back is not.
LEMMA StreamEndsKeeps ==
  ASSUME AnswerInv, StreamEnds
  PROVE  AnswerInv'
<1>1. /\ answer \in Seq(Letters) /\ filters \in BOOLEAN /\ inThink \in BOOLEAN
      /\ rest \in Seq(Letters) /\ held \in Seq(Letters)
      /\ text \in Seq(Letters) /\ pending \in Seq(Letters)
      /\ tail \in Seq(Seq(Sounds)) /\ uttered \in Seq(Seq(Sounds))
  BY DEF AnswerInv, AnswerTypes
<1>2. /\ answering = "receiving" /\ answering' = "closing" /\ rest = <<>> /\ pending' = <<>>
      /\ UNCHANGED <<answer, filters, rest, held, inThink, text>>
  BY DEF StreamEnds
<1>3. InPieces
  BY <1>2 DEF AnswerInv
<1>4. PICK s \in Seq(Letters) : s = Collapsed(pending) /\ NonSpace(s) = NonSpace(pending)
  BY <1>1, CollapsedKeeps
<1>5. PICK R \in SplitInto(Letters) : R = SplitReady[s] /\ SplitSays(s, R)
  BY SplitIs, SplitIsRight
<1>6. IsJoin(NonSpace(s), NonSpace(FlattenSeq(R.phrases)), NonSpace(R.remaining))
  BY <1>5 DEF SplitSays
<1>7. PICK l \in Seq(Seq(Letters)) : l = Forced(R) /\ NonSpace(FlattenSeq(l)) = NonSpace(s)
  BY <1>6, ForcedIs
<1>8. uttered' = UtteredWith(uttered, l) /\ tail' = TailWith(tail, uttered, l)
  BY <1>4, <1>5, <1>7 DEF StreamEnds, UtteredOf, TailOf, UtteredWith, TailWith, FirstPhrase
<1>9. l \in Seq(Seq(Sounds))
  BY SoundFacts
<1>10. Queued(Sounds, uttered, tail, l)
  <2>1. uttered = <<>> => tail = <<>>
    BY <1>3 DEF InPieces
  <2> QED
    BY <1>1, <1>9, <2>1, PhrasesQueued
<1>11. /\ uttered' \in Seq(Seq(Sounds)) /\ tail' \in Seq(Seq(Sounds))
       /\ IsJoin(Phrased(uttered', tail'), Phrased(uttered, tail), NonSpace(FlattenSeq(l)))
       /\ uttered' = <<>> => tail' = <<>>
  BY <1>8, <1>10 DEF Queued
<1>12. IsJoin(NonSpace(text), Phrased(uttered', tail'), NonSpace(<<>>))
  <2>1. Phrased(uttered', tail') = NonSpace(text)
    BY <1>3, <1>4, <1>7, <1>11 DEF InPieces, IsJoin
  <2>2. NonSpace(text) \in Seq(Letters)
    BY <1>1, NonSpaceTypes
  <2>3. PICK z : z = NonSpace(<<>>) /\ z = <<>>
    BY NoPhrases
  <2> QED
    BY <2>1, <2>2, <2>3, JoinEmpty
<1>13. AnswerTypes'
  <2>1. <<>> \in Seq(Letters)
    OBVIOUS
  <2> QED
    BY <1>1, <1>2, <1>11, <2>1 DEF AnswerInv, AnswerTypes
<1>14. InPieces'
  <2>1. IsJoin(NonSpace(text'), Phrased(uttered', tail'), NonSpace(pending'))
    BY <1>2, <1>12
  <2>2. IsJoin(SaidWhole(filters, answer), text, StillToSay(filters, inThink, held, rest))'
    BY <1>2, <1>3 DEF InPieces
  <2> QED
    BY <1>2, <1>3, <1>11, <2>1, <2>2 DEF InPieces
<1> QED
  BY <1>2, <1>13, <1>14 DEF AnswerInv

\* The phrases behind the first one are spoken.
LEMMA SpeakTailKeeps ==
  ASSUME AnswerInv, SpeakTail
  PROVE  AnswerInv'
<1>1. tail \in Seq(Seq(Sounds)) /\ uttered \in Seq(Seq(Sounds)) /\ Space \in Sounds
  BY SoundFacts DEF AnswerInv, AnswerTypes
<1>2. /\ answering = "closing" /\ answering' = "done" /\ tail' = <<>>
      /\ uttered' = (IF tail = <<>> THEN uttered ELSE Append(uttered, Joined(tail)))
      /\ UNCHANGED <<answer, filters, rest, held, inThink, text, pending>>
  BY DEF SpeakTail
<1>3. InPieces
  BY <1>2 DEF AnswerInv
<1>4. uttered' \in Seq(Seq(Sounds)) /\ Phrased(uttered', <<>>) = Phrased(uttered, tail)
  <2>1. uttered' = TailTo(uttered, tail)
    BY <1>2 DEF TailTo
  <2> QED
    BY <1>1, <2>1, TailSpoken
<1>5. AnswerTypes'
  <2>1. <<>> \in Seq(Seq(Sounds))
    OBVIOUS
  <2> QED
    BY <1>2, <1>4, <2>1 DEF AnswerInv, AnswerTypes
<1>6. InPieces'
  <2>1. IsJoin(NonSpace(text'), Phrased(uttered', tail'), NonSpace(pending'))
    BY <1>2, <1>3, <1>4 DEF InPieces
  <2>2. IsJoin(SaidWhole(filters, answer), text, StillToSay(filters, inThink, held, rest))'
    BY <1>2, <1>3 DEF InPieces
  <2> QED
    BY <1>2, <1>3, <2>1, <2>2 DEF InPieces
<1> QED
  BY <1>2, <1>5, <1>6 DEF AnswerInv

\* The answer came at once: it is spoken without its thoughts and its spaces.
LEMMA AtOnceKeeps ==
  ASSUME AnswerInv, AnswersAtOnce
  PROVE  AnswerInv'
<1>1. answer \in Seq(Letters) /\ filters \in BOOLEAN
  BY DEF AnswerInv, AnswerTypes
<1>2. PICK w : w = Trim(IF filters THEN WithoutThoughts[Trim(answer)] ELSE answer)
  OBVIOUS
<1>3. /\ text' = w /\ uttered' = (IF w = <<>> THEN <<>> ELSE <<w>>) /\ rest' = <<>>
      /\ answering' = "whole" /\ UNCHANGED <<answer, filters, held, inThink, pending, tail>>
  BY <1>2 DEF AnswersAtOnce
<1>4. /\ w \in Seq(Letters) /\ Len(NonSpace(w)) >= Len(ToSay)
      /\ (filters => ~Unended(answer)) => NonSpace(w) = ToSay
  <2>1. CASE filters
    <3>1. w = Trim(WithoutThoughts[Trim(answer)]) /\ ToSay = NonSpace(Said[answer])
      BY <1>2, <2>1 DEF ToSay
    <3> QED
      BY <1>1, <2>1, <3>1, AtOnceIs
  <2>2. CASE ~filters
    <3>1. w = Trim(answer) /\ ToSay = NonSpace(answer)
      BY <1>2, <2>2 DEF ToSay
    <3>2. NonSpace(w) = ToSay /\ w \in Seq(Letters)
      BY <1>1, <3>1, TrimsKeep
    <3>3. NonSpace(w) \in Seq(Letters)
      BY <3>2, NonSpaceTypes
    <3> QED
      BY <2>2, <3>2, <3>3
  <2> QED
    BY <1>1, <2>1, <2>2
<1>5. uttered' \in Seq(Seq(Letters)) /\ FlattenSeq(uttered') = w
  <2>1. CASE w = <<>>
    <3>1. <<>> \in Seq(Seq(Letters))
      OBVIOUS
    <3> QED
      BY <1>3, <2>1, <3>1, NoPhrases
  <2>2. CASE w # <<>>
    <3>1. PICK one : one = <<w>>
      OBVIOUS
    <3>2. one \in Seq(Seq(Letters)) /\ FlattenSeq(one) = w
      BY <1>4, <3>1, FlattenOne
    <3> QED
      BY <1>3, <2>2, <3>1, <3>2
  <2> QED
    BY <2>1, <2>2
<1>6. uttered' \in Seq(Seq(Sounds))
  BY <1>5, SoundFacts
<1>7. AnswerTypes'
  <2>1. <<>> \in Seq(Letters)
    OBVIOUS
  <2> QED
    BY <1>3, <1>4, <1>6, <2>1 DEF AnswerInv, AnswerTypes
<1>8. Heard' = NonSpace(w) /\ ToSay' = ToSay /\ Heard' \in Seq(Letters)
  BY <1>3, <1>4, <1>5, NonSpaceTypes DEF Heard, ToSay
<1>9. HeardInOrder'
  <2>1. CASE Unended(answer)
    BY <1>3, <2>1 DEF HeardInOrder, ThoughtSpoken, Unended
  <2>2. CASE ~Unended(answer)
    <3>1. Heard' = ToSay'
      BY <1>1, <1>4, <1>8, <2>2
    <3>2. PICK h \in Seq(Letters) : h = Heard' /\ h = ToSay'
      BY <1>8, <3>1
    <3>3. IsPrefix(h, h)
      BY DEF IsPrefix
    <3> QED
      BY <3>2, <3>3 DEF HeardInOrder
  <2> QED
    BY <2>1, <2>2
<1>10. OnlyTheEndMissing'
  BY <1>3, <1>4, <1>8 DEF OnlyTheEndMissing
<1>11. RecordedIsHeard'
  BY <1>3, <1>8 DEF RecordedIsHeard
<1> QED
  BY <1>3, <1>7, <1>9, <1>10, <1>11 DEF AnswerInv

\* An interruption leaves what was heard.
LEMMA InterruptionKeeps ==
  ASSUME AnswerInv, AnswerInterrupted
  PROVE  AnswerInv'
<1>1. /\ answering # "whole" /\ answering' = "aborted"
      /\ UNCHANGED <<answer, filters, rest, held, inThink, text, pending, tail, uttered>>
  BY DEF AnswerInterrupted
<1>2. AnswerTypes'
  BY <1>1 DEF AnswerInv, AnswerTypes
<1>3. InPieces'
  BY <1>1 DEF AnswerInv, InPieces
<1> QED
  BY <1>1, <1>2, <1>3 DEF AnswerInv

LEMMA AnswerSteps == AnswerInv /\ [AnswerNext]_answerVars => AnswerInv'
<1> SUFFICES ASSUME AnswerInv, [AnswerNext]_answerVars PROVE AnswerInv'
  OBVIOUS
<1>1. ASSUME NEW n \in 1..Len(rest), Receive(n) PROVE AnswerInv'
  BY <1>1, ReceiveKeeps
<1>2. CASE UNCHANGED answerVars
  <2>1. AnswerTypes'
    BY <1>2 DEF answerVars, AnswerInv, AnswerTypes
  <2>2. answering # "whole" => InPieces'
    BY <1>2 DEF answerVars, AnswerInv, InPieces
  <2>3. answering = "whole" => HeardInOrder' /\ OnlyTheEndMissing' /\ RecordedIsHeard'
    BY <1>2 DEF answerVars, AnswerInv, HeardInOrder, OnlyTheEndMissing, RecordedIsHeard,
       ThoughtSpoken, Heard, ToSay
  <2>4. answering' = answering
    BY <1>2 DEF answerVars
  <2> QED
    BY <2>1, <2>2, <2>3, <2>4 DEF AnswerInv
<1> QED
  BY <1>1, <1>2, StreamEndsKeeps, SpeakTailKeeps, AtOnceKeeps, InterruptionKeeps DEF AnswerNext

-----------------------------------------------------------------------------
(* What the invariant says *)

LEMMA JoinIsPrefix ==
  ASSUME NEW V, NEW s \in Seq(V), NEW t \in Seq(V), NEW u, IsJoin(u, s, t)
  PROVE  IsPrefix(s, u) /\ Len(u) = Len(s) + Len(t)
<1>1. PICK n \in Nat : n = Len(s)
  OBVIOUS
<1>2. Len(u) = Len(s) + Len(t) /\ u \in Seq(V)
  BY JoinFacts
<1>3. n \in 0..Len(s)
  BY <1>1
<1>4. SubSeq(u, 1, n) = SubSeq(s, 1, n)
  BY <1>3, JoinStarts
<1> QED
  BY <1>1, <1>2, <1>4 DEF IsPrefix

\* At the end of the answer the filter may hold back less than a tag.
LEMMA LittleIsHeld ==
  ASSUME NEW f \in BOOLEAN, NEW t \in BOOLEAN, NEW h \in Seq(Letters),
         f => Len(h) < Len(Sought(t))
  PROVE  Len(NonSpace(StillToSay(f, t, h, <<>>))) < IF f THEN Len(OpenTag) ELSE 1
<1>1. PICK none \in Seq(Letters) : none = <<>> /\ IsJoin(h, h, none)
  <2>1. <<>> \in Seq(Letters)
    OBVIOUS
  <2> QED
    BY <2>1, JoinEmpty
<1>2. StillToSay(f, t, h, none) = IF f THEN SaidOf(t, h) ELSE none
  <2>1. PICK u : u = h /\ IsJoin(u, h, none)
    BY <1>1
  <2>2. /\ StillToSay(f, t, h, none) = IF f THEN SaidOf(t, u) ELSE none
        /\ StillToSay(f, t, h, none) \in Seq(Letters) /\ u \in Seq(Letters)
    BY <2>1, StillToSayIs
  <2> QED
    BY <2>1, <2>2
<1>3. CASE ~f
  <2>1. NonSpace(StillToSay(f, t, h, <<>>)) = <<>>
    BY <1>1, <1>2, <1>3, NoPhrases
  <2> QED
    BY <1>3, <2>1
<1>4. CASE f
  <2>1. PICK tag : tag = Sought(t) /\ tag \in {OpenTag, CloseTag}
    BY DEF Sought
  <2>2. PICK W : tag \in Seq(W) /\ tag # <<>>
    BY <2>1, TagFacts
  <2>3. Begins(h, tag) = {}
    BY <1>4, <2>1, <2>2, SearchShort
  <2>4. PICK m \in Nat : m = Len(OpenTag) /\ m # 0 /\ m = IF f THEN Len(OpenTag) ELSE 1
    BY <1>4, TagFacts
  <2>5. CASE t
    <3>1. SaidOf(t, h) = <<>>
      BY <2>1, <2>3, <2>5 DEF SaidOf, Sought
    <3>2. NonSpace(StillToSay(f, t, h, <<>>)) = <<>>
      BY <1>1, <1>2, <1>4, <3>1, NoPhrases
    <3>3. Len(NonSpace(StillToSay(f, t, h, <<>>))) < m
      BY <2>4, <3>2
    <3> QED
      BY <2>4, <3>3
  <2>6. CASE ~t
    <3>1. tag = OpenTag /\ t = FALSE
      BY <2>1, <2>6 DEF Sought
    <3>2. SaidOf(t, h) = h
      BY <2>3, <3>1, SaidOfIs
    <3>3. NonSpace(StillToSay(f, t, h, <<>>)) = NonSpace(h)
      BY <1>1, <1>2, <1>4, <3>2
    <3>4. Len(NonSpace(h)) <= Len(h) /\ NonSpace(h) \in Seq(Letters)
      BY NonSpaceShorter, NonSpaceTypes
    <3>5. Len(h) < Len(OpenTag)
      BY <1>4, <2>1, <3>1
    <3>6. Len(NonSpace(StillToSay(f, t, h, <<>>))) < m
      BY <2>4, <3>3, <3>4, <3>5
    <3> QED
      BY <2>4, <3>6
  <2> QED
    BY <2>5, <2>6
<1> QED
  BY <1>3, <1>4

LEMMA AnswerCorrectNow == AnswerInv => AnswerCorrect
<1> SUFFICES ASSUME AnswerInv PROVE AnswerCorrect
  OBVIOUS
<1>1. CASE answering = "whole"
  BY <1>1 DEF AnswerInv, AnswerCorrect, SpokenInTime
<1>2. CASE answering # "whole"
  <2>1. InPieces
    BY <1>2 DEF AnswerInv
  <2>2. /\ answer \in Seq(Letters) /\ filters \in BOOLEAN /\ inThink \in BOOLEAN
        /\ rest \in Seq(Letters) /\ held \in Seq(Letters)
        /\ text \in Seq(Letters) /\ pending \in Seq(Letters)
        /\ tail \in Seq(Seq(Sounds)) /\ uttered \in Seq(Seq(Sounds))
    BY DEF AnswerInv, AnswerTypes
  <2>3. PICK still \in Seq(Letters), w \in {SaidWhole(filters, answer)} :
          still = StillToSay(filters, inThink, held, rest) /\ w = SaidWhole(filters, answer)
    <3>1. PICK u : IsJoin(u, held, rest)
      BY JoinExists
    <3> QED
      BY <2>2, <3>1, StillToSayIs
  <2>4. IsJoin(w, text, still)
    BY <2>1, <2>3 DEF InPieces
  <2>5. ToSay = NonSpace(w)
    BY <2>3 DEF ToSay, SaidWhole
  <2>6. IsJoin(ToSay, NonSpace(text), NonSpace(still))
    BY <2>2, <2>4, <2>5, NonSpaceJoin
  <2>7. PICK n \in Seq(Sounds), s \in Seq(Sounds), p \in Seq(Sounds) :
          n = NonSpace(text) /\ s = NonSpace(still) /\ p = NonSpace(pending)
    <3>1. text \in Seq(Sounds) /\ still \in Seq(Sounds) /\ pending \in Seq(Sounds)
      BY <2>2, SoundFacts
    <3> QED
      BY <3>1, NonSpaceTypes
  <2>8. PICK h \in Seq(Sounds), l \in Seq(Sounds), T \in Seq(Sounds) :
          /\ h = Heard /\ l = NonSpace(FlattenSeq(tail)) /\ T = Phrased(uttered, tail) /\ IsJoin(T, h, l)
    BY <2>2, PhrasedIs DEF Heard
  <2>9. IsJoin(n, T, p) /\ IsJoin(ToSay, n, s)
    BY <2>1, <2>6, <2>7, <2>8 DEF InPieces
  <2>10. HeardInOrder
    <3>1. PICK a, b : IsJoin(a, l, p) /\ IsJoin(b, a, s)
      BY JoinExists
    <3>2. a \in Seq(Sounds) /\ b \in Seq(Sounds)
      <4>1. a \in Seq(Sounds)
        BY <3>1, JoinFacts
      <4> QED
        BY <3>1, <4>1, JoinFacts
    <3>3. IsJoin(n, h, a)
      BY <2>8, <2>9, <3>1, JoinLeft
    <3>4. IsJoin(ToSay, h, b)
      BY <2>9, <3>1, <3>2, <3>3, JoinLeft
    <3>5. IsPrefix(h, ToSay)
      BY <3>2, <3>4, JoinIsPrefix
    <3> QED
      BY <2>8, <3>5 DEF HeardInOrder
  <2>11. ASSUME answering = "done" PROVE n = Heard
    <3>1. tail = <<>> /\ pending = <<>>
      BY <2>1, <2>11 DEF InPieces
    <3>2. l = <<>> /\ p = <<>>
      BY <2>7, <2>8, <3>1, NoPhrases
    <3>3. IsJoin(T, T, p) /\ IsJoin(h, h, l)
      BY <3>2, JoinEmpty
    <3> QED
      BY <2>8, <2>9, <3>3 DEF IsJoin
  <2>12. OnlyTheEndMissing
    <3>1. ASSUME answering = "done"
          PROVE  Len(ToSay) - Len(Heard) < IF filters THEN Len(OpenTag) ELSE 1
      <4>1. rest = <<>> /\ (filters => Len(held) < Len(Sought(inThink)))
        BY <2>1, <3>1 DEF InPieces
      <4>2. still = StillToSay(filters, inThink, held, <<>>)
        BY <2>3, <4>1
      <4>3. Len(NonSpace(StillToSay(filters, inThink, held, <<>>))) < IF filters THEN Len(OpenTag) ELSE 1
        BY <2>2, <4>1, LittleIsHeld
      <4>4. Len(s) < IF filters THEN Len(OpenTag) ELSE 1
        BY <2>7, <4>2, <4>3
      <4>5. Len(ToSay) = Len(n) + Len(s)
        BY <2>9, JoinIsPrefix
      <4>6. n = Heard /\ Len(n) \in Nat /\ Len(s) \in Nat
        BY <2>11, <3>1
      <4>7. Len(ToSay) - Len(Heard) = Len(s)
        BY <4>5, <4>6
      <4> QED
        BY <4>4, <4>7
    <3> QED
      BY <1>2, <3>1 DEF OnlyTheEndMissing
  <2>13. RecordedIsHeard
    BY <1>2, <2>7, <2>11 DEF RecordedIsHeard
  <2>14. SpokenInTime
    BY <2>1 DEF InPieces, SpokenInTime
  <2> QED
    BY <2>10, <2>12, <2>13, <2>14 DEF AnswerCorrect
<1> QED
  BY <1>1, <1>2

=============================================================================
