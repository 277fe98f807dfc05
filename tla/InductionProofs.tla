--------------------------- MODULE InductionProofs ---------------------------
(***************************************************************************)
(* Induction and recursion over the numbers, stated of sets and functions  *)
(* so that the provers can use them: the predicate of an induction is the  *)
(* set of the numbers it is true of, the step of a recursion a function.   *)
(***************************************************************************)
EXTENDS Integers, WellFoundedInduction, TLAPS

(* A set of natural numbers has a least one. *)
LEMMA Least ==
  ASSUME NEW T, T \subseteq Nat, T # {}
  PROVE \E x \in T : \A y \in T : x <= y
<1> DEFINE R == OpToRel(<, Nat)
<1>1. IsWellFoundedOn(R, Nat)
  BY NatLessThanWellFounded
<1>3. \A x, y \in Nat : y < x => <<y,x>> \in R
  BY DEF OpToRel
<1> HIDE DEF R
<1>2. PICK x \in T : \A y \in T : ~ (<<y, x>> \in R)
  BY <1>1, WFMin
<1>4. \A y \in T : x <= y
  <2> TAKE y \in T
  <2>1. x \in Nat /\ y \in Nat /\ ~(y < x)
    BY <1>2, <1>3
  <2> QED
    BY <2>1
<1>5. QED
  BY <1>4

(* What is true of a number if it is true of the one before is true. *)
LEMMA Induction ==
  ASSUME NEW S, \A n \in Nat : (n = 0 \/ n - 1 \in S) => n \in S
  PROVE  \A n \in Nat : n \in S
<1> DEFINE T == Nat \ S
<1>1. SUFFICES ASSUME T # {} PROVE FALSE
  OBVIOUS
<1>2. PICK x \in T : \A y \in T : x <= y
  <2>1. T \subseteq Nat
    OBVIOUS
  <2> HIDE DEF T
  <2>2. QED
    BY <2>1, <1>1, Least
<1>3. x \in Nat /\ x # 0 /\ x - 1 \in Nat /\ ~(x <= x - 1)
  OBVIOUS
<1>4. x - 1 \in S
  BY <1>2, <1>3
<1> QED
  BY <1>3, <1>4

(* f begins with a in S and goes on by the table G. *)
Closed(S, a, G) == a \in S /\ \A n \in Nat : \A s \in S : G[<<n, s>>] \in S
Follows(f, S, a, G) ==
  f \in [Nat -> S] /\ \A n \in Nat : f[n] = IF n = 0 THEN a ELSE G[<<n, f[n - 1]>>]

LEMMA Recursion ==
  ASSUME NEW S, NEW a, NEW G, Closed(S, a, G)
  PROVE  \E f : Follows(f, S, a, G)
<1>0. a \in S /\ \A n \in Nat : \A s \in S : G[<<n, s>>] \in S
  BY DEF Closed
<1> DEFINE Ap(n, g) == g \in [0..n -> S] /\ \A i \in 0..n : g[i] = IF i = 0 THEN a ELSE G[<<i, g[i-1]>>]
<1>1. \A n \in Nat : \E g : Ap(n, g)
  <2> DEFINE T == {n \in Nat : \E g : Ap(n, g)}
  <2>1. SUFFICES ASSUME NEW n \in Nat, n = 0 \/ n - 1 \in T PROVE n \in T
    <3> HIDE DEF Ap
    <3>1. \A n \in Nat : n \in T
      <4> HIDE DEF T
      <4> QED
        BY Induction
    <3> QED
      BY <3>1
  <2>3. CASE n = 0
    <3>1. Ap(0, [i \in 0..0 |-> a])
      BY <1>0
    <3>2. QED
      BY <2>3, <3>1
  <2>4. CASE n # 0
    <3>1. n - 1 \in Nat /\ n - 1 \in T
      BY <2>1, <2>4
    <3>2. PICK g : Ap(n-1, g)
      BY <3>1
    <3> DEFINE h == [i \in 0..n |-> IF i = n THEN G[<<n, g[n-1]>>] ELSE g[i]]
    <3>3. Ap(n, h)
      <4>0. g[n-1] \in S /\ G[<<n, g[n-1]>>] \in S
        BY <1>0, <3>1, <3>2
      <4>1. h \in [0..n -> S]
        BY <3>2, <3>1, <4>0
      <4>2. ASSUME NEW i \in 0..n PROVE h[i] = IF i = 0 THEN a ELSE G[<<i, h[i-1]>>]
        <5>1. CASE i = n
          <6>1. h[n] = G[<<n, g[n-1]>>] /\ h[n-1] = g[n-1]
            BY <3>1
          <6>2. QED
            BY <5>1, <6>1, <2>4
        <5>2. CASE i # n
          <6>1. i \in 0..n-1 /\ i # n /\ i - 1 # n
            BY <5>2
          <6>2. h[i] = g[i]
            BY <6>1
          <6>3. i # 0 => h[i-1] = g[i-1]
            BY <6>1
          <6>4. g[i] = IF i = 0 THEN a ELSE G[<<i, g[i-1]>>]
            BY <3>2, <6>1
          <6> HIDE DEF h
          <6>5. QED
            BY <6>2, <6>3, <6>4
        <5>3. QED
          BY <5>1, <5>2
      <4>3. QED
        BY <4>1, <4>2
    <3>4. QED
      BY <3>3
  <2>5. QED
    BY <2>3, <2>4
<1>2. ASSUME NEW m \in Nat, NEW n \in Nat, NEW g, NEW h, Ap(m, g), Ap(n, h)
      PROVE \A i \in Nat : i <= m /\ i <= n => g[i] = h[i]
  <2> DEFINE T == {i \in Nat : i <= m /\ i <= n => g[i] = h[i]}
  <2>1. SUFFICES ASSUME NEW i \in Nat, i = 0 \/ i - 1 \in T PROVE i \in T
    <3>1. \A k \in Nat : k \in T
      <4> HIDE DEF T
      <4> QED
        BY Induction
    <3> QED
      BY <3>1
  <2>3. SUFFICES ASSUME i <= m, i <= n PROVE g[i] = h[i]
    OBVIOUS
  <2>a. i \in 0..m /\ i \in 0..n
    BY <2>3
  <2>b. /\ g[i] = IF i = 0 THEN a ELSE G[<<i, g[i-1]>>]
        /\ h[i] = IF i = 0 THEN a ELSE G[<<i, h[i-1]>>]
    BY <2>a, <1>2
  <2>4. CASE i # 0
    <3>2. g[i-1] = h[i-1]
      BY <2>1, <2>3, <2>4
    <3>3. QED
      BY <2>b, <3>2
  <2>5. QED
    BY <2>b, <2>4
<1> DEFINE c(n) == CHOOSE g : Ap(n, g)
           f == [n \in Nat |-> c(n)[n]]
<1>3. \A n \in Nat : Ap(n, c(n))
  <2> HIDE DEF Ap
  <2> QED
    BY <1>1
<1> HIDE DEF c
<1>4. f \in [Nat -> S]
  BY <1>3
<1>5. ASSUME NEW n \in Nat PROVE f[n] = IF n = 0 THEN a ELSE G[<<n, f[n-1]>>]
  <2>1. CASE n = 0
    <3>1. Ap(0, c(0))
      <4> HIDE DEF Ap
      <4> QED
        BY <1>3
    <3>2. c(0)[0] = a
      BY <3>1
    <3>3. f[0] = c(0)[0]
      OBVIOUS
    <3> HIDE DEF f
    <3>4. QED
      BY <2>1, <3>2, <3>3
  <2>2. CASE n # 0
    <3>1. Ap(n, c(n)) /\ Ap(n-1, c(n-1)) /\ n - 1 \in Nat
      BY <1>3, <2>2
    <3>2. c(n)[n-1] = c(n-1)[n-1]
      <4> HIDE DEF Ap
      <4> QED
        BY <3>1, <1>2
    <3>3. QED
      BY <3>1, <3>2, <2>2
  <2>3. QED
    BY <2>1, <2>2
<1>6. Follows(f, S, a, G)
  BY <1>4, <1>5 DEF Follows
<1>7. QED
  BY <1>6

(* A recursive definition has a solution: step G makes a function of the   *)
(* set S from one, and what it makes of f at a point depends on f at       *)
(* points of lower rank only.                                              *)
Steps(G, S) == S # {} /\ \A f \in S : G[f] \in S
Descends(G, S, D, rank) ==
  \A f, g \in S : \A c \in D :
    (\A d \in D : rank[d] < rank[c] => f[d] = g[d]) => G[f][c] = G[g][c]

LEMMA FixedPoint ==
  ASSUME NEW D, NEW S, NEW G, NEW rank, NEW L \in Nat, rank \in [D -> 0..L],
         \A f \in S : f = [c \in D |-> f[c]],
         Steps(G, S), Descends(G, S, D, rank)
  PROVE  \E f \in S : f = G[f]
<1>1. PICK a \in S : TRUE
  BY DEF Steps
<1> DEFINE T == [x \in Nat \X S |-> G[x[2]]]
<1>2. \A n \in Nat : \A s \in S : T[<<n, s>>] = G[s] /\ G[s] \in S
  BY DEF Steps
<1> HIDE DEF T
<1>3. Closed(S, a, T)
  BY <1>1, <1>2 DEF Closed
<1>4. PICK F : Follows(F, S, a, T)
  BY <1>3, Recursion
<1>5. \A n \in Nat : F[n] \in S
  BY <1>4 DEF Follows
<1>6. ASSUME NEW n \in Nat PROVE F[n + 1] = G[F[n]]
  <2>1. n + 1 \in Nat /\ n + 1 # 0 /\ (n + 1) - 1 = n
    OBVIOUS
  <2>2. F[n + 1] = T[<<n + 1, F[n]>>]
    BY <1>4, <2>1 DEF Follows
  <2>3. QED
    BY <2>1, <2>2, <1>2, <1>5
<1> DEFINE N == {n \in Nat : \A c \in D : rank[c] < n => F[n][c] = F[n + 1][c]}
<1>7. ASSUME NEW n \in Nat, n = 0 \/ n - 1 \in N PROVE n \in N
  <2>1. SUFFICES ASSUME NEW c \in D, rank[c] < n PROVE F[n][c] = F[n + 1][c]
    OBVIOUS
  <2>2. rank[c] \in Nat /\ n # 0 /\ n - 1 \in Nat /\ (n - 1) + 1 = n
    BY <2>1
  <2>3. F[n] = G[F[n - 1]] /\ F[n + 1] = G[F[n]]
    BY <1>6, <2>2
  <2>4. ASSUME NEW d \in D, rank[d] < rank[c] PROVE F[n - 1][d] = F[n][d]
    <3>1. rank[d] \in Nat /\ rank[d] < n - 1
      BY <2>1, <2>2, <2>4
    <3>2. n - 1 \in N
      BY <1>7, <2>2
    <3>3. QED
      BY <3>1, <3>2, <2>2
  <2>5. F[n - 1] \in S /\ F[n] \in S
    BY <1>5, <2>2
  <2>6. G[F[n - 1]][c] = G[F[n]][c]
    BY <2>4, <2>5 DEF Descends
  <2>7. QED
    BY <2>3, <2>6
<1>8. \A n \in Nat : n \in N
  <2> HIDE DEF N
  <2>1. QED
    BY <1>7, Induction
<1>9. \A c \in D : F[L + 1][c] = G[F[L + 1]][c]
  <2>1. SUFFICES ASSUME NEW c \in D PROVE F[L + 1][c] = G[F[L + 1]][c]
    OBVIOUS
  <2>2. L + 1 \in Nat /\ rank[c] < L + 1
    OBVIOUS
  <2>3. L + 1 \in N
    BY <1>8, <2>2
  <2>4. F[L + 1][c] = F[(L + 1) + 1][c]
    BY <2>2, <2>3
  <2>5. QED
    BY <2>2, <2>4, <1>6
<1>10. F[L + 1] \in S /\ G[F[L + 1]] \in S
  BY <1>5 DEF Steps
<1>11. /\ F[L + 1] = [c \in D |-> F[L + 1][c]]
       /\ G[F[L + 1]] = [c \in D |-> G[F[L + 1]][c]]
  BY <1>10
<1>12. F[L + 1] = G[F[L + 1]]
  BY <1>9, <1>11
<1>13. QED
  BY <1>10, <1>12

(* Two functions that agree at a point whenever they agree at all points   *)
(* of lower rank agree everywhere.                                         *)
LEMMA AgreeByRank ==
  ASSUME NEW D, NEW rank, NEW L \in Nat, rank \in [D -> 0..L], NEW f, NEW g,
         \A c \in D : (\A d \in D : rank[d] < rank[c] => f[d] = g[d]) => f[c] = g[c]
  PROVE  \A c \in D : f[c] = g[c]
<1> DEFINE T == {n \in Nat : \A c \in D : rank[c] < n => f[c] = g[c]}
<1>1. ASSUME NEW n \in Nat, n = 0 \/ n - 1 \in T PROVE n \in T
  <2>1. SUFFICES ASSUME NEW c \in D, rank[c] < n PROVE f[c] = g[c]
    OBVIOUS
  <2>2. rank[c] \in Nat /\ n # 0 /\ n - 1 \in T
    BY <1>1, <2>1
  <2>3. ASSUME NEW d \in D, rank[d] < rank[c] PROVE f[d] = g[d]
    <3>1. rank[d] \in Nat /\ rank[d] < n - 1
      BY <2>1, <2>2, <2>3
    <3>2. QED
      BY <3>1, <2>2
  <2>4. QED
    BY <2>3
<1>2. \A n \in Nat : n \in T
  <2> HIDE DEF T
  <2>1. QED
    BY <1>1, Induction
<1>3. SUFFICES ASSUME NEW c \in D PROVE f[c] = g[c]
  OBVIOUS
<1>4. L + 1 \in T /\ rank[c] < L + 1
  BY <1>2
<1>5. QED
  BY <1>4

=============================================================================
