--------------------------- MODULE DictionaryProofs ---------------------------
(***************************************************************************)
(* The loops of match_score, apply_signature and dict_lookup_typed compute *)
(* what the operators of module Dictionary say, for every signature, type  *)
(* stack and dictionary.                                                   *)
(***************************************************************************)
EXTENDS CompilerProofs, DictionaryLoops, InductionProofs

(* A loop of n iterations: a state of S to begin with, and a table of what *)
(* each iteration makes of a state.                                        *)
LoopTable(n, S, a, G) == n \in Nat /\ a \in S /\ \A i \in 1..n : \A s \in S : G[<<i, s>>] \in S
Looped(n, a, G, g) == g = [i \in 0..n |-> IF i = 0 THEN a ELSE G[<<i, g[i - 1]>>]]

LEMMA LoopRuns ==
  ASSUME NEW n, NEW S, NEW a, NEW G, LoopTable(n, S, a, G)
  PROVE  \E g : Looped(n, a, G, g)
<1> DEFINE T == [q \in Nat \X S |-> IF q[1] \in 1..n THEN G[q] ELSE q[2]]
<1>1. n \in Nat /\ a \in S /\ \A i \in 1..n : \A s \in S : G[<<i, s>>] \in S
  BY DEF LoopTable
<1>2. \A i \in Nat : \A s \in S : T[<<i, s>>] = IF i \in 1..n THEN G[<<i, s>>] ELSE s
  OBVIOUS
<1> HIDE DEF T
<1>3. Closed(S, a, T)
  BY <1>1, <1>2 DEF Closed
<1>4. PICK f : Follows(f, S, a, T)
  BY <1>3, Recursion
<1>5. f \in [Nat -> S] /\ \A i \in Nat : f[i] = IF i = 0 THEN a ELSE T[<<i, f[i - 1]>>]
  BY <1>4 DEF Follows
<1> DEFINE g == [i \in 0..n |-> f[i]]
<1>6. ASSUME NEW i \in 0..n PROVE g[i] = IF i = 0 THEN a ELSE G[<<i, g[i - 1]>>]
  <2>1. CASE i = 0
    BY <1>1, <1>5, <2>1
  <2>2. CASE i # 0
    <3>1. i \in Nat /\ i \in 1..n /\ i - 1 \in 0..n /\ i - 1 \in Nat
      BY <1>1, <2>2
    <3>2. f[i - 1] \in S /\ g[i - 1] = f[i - 1] /\ g[i] = f[i]
      BY <1>5, <3>1
    <3>3. f[i] = T[<<i, f[i - 1]>>]
      BY <1>5, <2>2, <3>1
    <3>4. QED
      BY <1>2, <2>2, <3>1, <3>2, <3>3
  <2>3. QED
    BY <2>1, <2>2
<1>7. g = [i \in 0..n |-> IF i = 0 THEN a ELSE G[<<i, g[i - 1]>>]]
  BY <1>6
<1> HIDE DEF g
<1>8. QED
  BY <1>7 DEF Looped

(* Every state of the loop is in S, and what holds at first and is kept by *)
(* every iteration holds at the end: K is the set of the pairs of an index *)
(* and a state of which it holds.                                          *)
Iterates(n, S, a, G, g) ==
  g[0] = a /\ \A i \in 1..n : g[i - 1] \in S => g[i] = G[<<i, g[i - 1]>>]
Kept(n, S, a, G, K) ==
  <<0, a>> \in K /\ \A i \in 1..n : \A s \in S : <<i - 1, s>> \in K => <<i, G[<<i, s>>]>> \in K
Throughout(n, S, g, K) == \A i \in 0..n : g[i] \in S /\ <<i, g[i]>> \in K

LEMMA LoopKeeps ==
  ASSUME NEW n, NEW S, NEW a, NEW G, LoopTable(n, S, a, G), NEW g, Iterates(n, S, a, G, g),
         NEW K, Kept(n, S, a, G, K)
  PROVE  Throughout(n, S, g, K)
<1>0. /\ <<0, a>> \in K
      /\ \A i \in 1..n : \A s \in S : <<i - 1, s>> \in K => <<i, G[<<i, s>>]>> \in K
  BY DEF Kept
<1>1. n \in Nat /\ a \in S /\ \A i \in 1..n : \A s \in S : G[<<i, s>>] \in S
  BY DEF LoopTable
<1>2. g[0] = a /\ \A i \in 1..n : g[i - 1] \in S => g[i] = G[<<i, g[i - 1]>>]
  BY DEF Iterates
<1> DEFINE T == {i \in Nat : i <= n => g[i] \in S /\ <<i, g[i]>> \in K}
<1>3. ASSUME NEW i \in Nat, i = 0 \/ i - 1 \in T PROVE i \in T
  <2>1. SUFFICES ASSUME i <= n PROVE g[i] \in S /\ <<i, g[i]>> \in K
    OBVIOUS
  <2>2. CASE i = 0
    BY <1>0, <1>1, <1>2, <2>2
  <2>3. CASE i # 0
    <3>1. i \in 1..n /\ i \in 0..n /\ g[i - 1] \in S /\ <<i - 1, g[i - 1]>> \in K
      BY <1>1, <1>3, <2>1, <2>3
    <3>2. g[i] = G[<<i, g[i - 1]>>]
      BY <1>2, <3>1
    <3>3. QED
      BY <1>0, <1>1, <3>1, <3>2
  <2>4. QED
    BY <2>2, <2>3
<1>4. \A i \in Nat : i \in T
  <2> HIDE DEF T
  <2>1. QED
    BY <1>3, Induction
<1>5. QED
  BY <1>1, <1>4 DEF Throughout

LEMMA LoopedIterates ==
  ASSUME NEW n \in Nat, NEW S, NEW a, NEW G, NEW g, Looped(n, a, G, g)
  PROVE  Iterates(n, S, a, G, g)
<1>1. g = [i \in 0..n |-> IF i = 0 THEN a ELSE G[<<i, g[i - 1]>>]]
  BY DEF Looped
<1>2. 0 \in 0..n /\ \A i \in 1..n : i \in 0..n /\ i # 0
  OBVIOUS
<1>3. QED
  BY <1>1, <1>2 DEF Iterates

-----------------------------------------------------------------------------
(* match_score.                                                            *)

MatchStates == [ok : BOOLEAN, score : Int, b : [TypeVars -> Types]]

LEMMA TypesAre ==
  /\ UNKNOWN \in Types /\ UNKNOWN \notin TypeVars /\ "any" \notin TypeVars /\ "any" # UNKNOWN
  /\ TypeVars \subseteq Types
BY DEF Types, TypeVars, UNKNOWN

LEMMA MatchInputIs ==
  ASSUME NEW s \in Types, NEW t \in Types, NEW l \in MatchStates, NEW m, m = MatchInput(s, t, l)
  PROVE  /\ m \in MatchStates
         /\ m.ok <=> /\ l.ok
                     /\ \/ s \in TypeVars /\ l.b[s] \in {UNKNOWN, t}
                        \/ s \notin TypeVars /\ (s = "any" \/ t = s \/ t = UNKNOWN)
         /\ m.ok => /\ \A v \in TypeVars : m.b[v] = IF v = s THEN t ELSE l.b[v]
                    /\ m.score = l.score +
                         (IF s \in TypeVars THEN 80 ELSE IF s = "any" THEN 10
                          ELSE IF t = s THEN 100 ELSE 50)
<1>1. /\ l.ok \in BOOLEAN /\ l.score \in Int /\ l.b \in [TypeVars -> Types]
      /\ l = Matching(l.ok, l.score, l.b)
  BY DEF MatchStates, Matching
<1> DEFINE u == [l.b EXCEPT ![s] = t]
<1>2. u \in [TypeVars -> Types] /\ \A v \in TypeVars : u[v] = IF v = s THEN t ELSE l.b[v]
  BY <1>1
<1> HIDE DEF u
<1>3. CASE ~l.ok
  <2>1. m = l
    BY <1>3 DEF MatchInput
  <2>2. QED
    BY <1>3, <2>1
<1>4. CASE l.ok /\ s \in TypeVars /\ l.b[s] \in {UNKNOWN, t}
  <2>1. s # "any"
    BY <1>4, TypesAre
  <2>2. m = Matching(TRUE, l.score + 80, u)
    BY <1>4, <2>1 DEF MatchInput, u
  <2>3. QED
    BY <1>1, <1>2, <1>4, <2>1, <2>2 DEF Matching, MatchStates
<1>5. CASE l.ok /\ s \in TypeVars /\ l.b[s] \notin {UNKNOWN, t}
  <2>1. m = Matching(FALSE, l.score, l.b)
    BY <1>5, TypesAre DEF MatchInput
  <2>2. QED
    BY <1>1, <1>5, <2>1 DEF Matching, MatchStates
<1>6. CASE l.ok /\ s \notin TypeVars
  <2>1. \A v \in TypeVars : v # s
    BY <1>6
  <2>2. CASE s = "any"
    <3>1. m = Matching(TRUE, l.score + 10, l.b)
      BY <1>6, <2>2 DEF MatchInput
    <3>2. m.ok /\ m.score = l.score + 10 /\ m.b = l.b /\ m \in MatchStates
      BY <1>1, <3>1 DEF Matching, MatchStates
    <3>3. QED
      BY <1>1, <1>6, <2>1, <2>2, <3>2
  <2>3. CASE s # "any" /\ t = s
    <3>1. m = Matching(TRUE, l.score + 100, l.b)
      BY <1>6, <2>3 DEF MatchInput
    <3>2. m.ok /\ m.score = l.score + 100 /\ m.b = l.b /\ m \in MatchStates
      BY <1>1, <3>1 DEF Matching, MatchStates
    <3>3. QED
      BY <1>1, <1>6, <2>1, <2>3, <3>2
  <2>4. CASE s # "any" /\ t # s /\ t = UNKNOWN
    <3>1. m = Matching(TRUE, l.score + 50, l.b)
      BY <1>6, <2>4 DEF MatchInput
    <3>2. m.ok /\ m.score = l.score + 50 /\ m.b = l.b /\ m \in MatchStates
      BY <1>1, <3>1 DEF Matching, MatchStates
    <3>3. QED
      BY <1>1, <1>6, <2>1, <2>4, <3>2
  <2>5. CASE s # "any" /\ t # s /\ t # UNKNOWN
    <3>1. m = Matching(FALSE, l.score, l.b)
      BY <1>6, <2>5 DEF MatchInput
    <3>2. QED
      BY <1>1, <1>6, <2>5, <3>1 DEF Matching, MatchStates
  <2>6. QED
    BY <2>2, <2>3, <2>4, <2>5
<1>7. QED
  BY <1>1, <1>3, <1>4, <1>5, <1>6

(* The first i inputs can be matched; the points for them; and what the    *)
(* variables are bound to.                                                 *)
Fine(ins, args, i) ==
  /\ \A j \in 1..i : ins[j] \in TypeVars \/ ins[j] = "any" \/ args[j] = ins[j] \/ args[j] = UNKNOWN
  /\ \A j, k \in 1..i :
       j < k /\ ins[j] \in TypeVars /\ ins[j] = ins[k] /\ args[j] # UNKNOWN => args[j] = args[k]

VarInputs(ins)        == {j \in 1..Len(ins) : ins[j] \in TypeVars}
AnyInputs(ins)        == {j \in 1..Len(ins) : ins[j] = "any"}
SameInputs(ins, args) ==
  {j \in (1..Len(ins)) \ (VarInputs(ins) \cup AnyInputs(ins)) : args[j] = ins[j]}
UnknownInputs(ins, args) ==
  {j \in (1..Len(ins)) \ (VarInputs(ins) \cup AnyInputs(ins) \cup SameInputs(ins, args)) :
     args[j] = UNKNOWN}

UpTo(S, i) == Cardinality(S \cap (1..i))
Points(ins, args, i) ==
  80 * UpTo(VarInputs(ins), i) + 10 * UpTo(AnyInputs(ins), i)
    + 100 * UpTo(SameInputs(ins, args), i) + 50 * UpTo(UnknownInputs(ins, args), i)

Bound(ins, args, i, b) ==
  \A v \in TypeVars :
    /\ \A j \in 1..i : ins[j] = v /\ args[j] # UNKNOWN => args[j] = b[v]
    /\ b[v] # UNKNOWN => \E j \in 1..i : ins[j] = v /\ args[j] = b[v]

LEMMA UpToGrows ==
  ASSUME NEW S, NEW i \in Nat \ {0}
  PROVE  /\ UpTo(S, i) \in Nat /\ UpTo(S, i - 1) \in Nat
         /\ UpTo(S, i) = UpTo(S, i - 1) + (IF i \in S THEN 1 ELSE 0)
<1> DEFINE T == S \cap (1..i - 1)
<1>1. i - 1 \in Nat /\ i \in Nat
  OBVIOUS
<1>2. IsFiniteSet(1..i - 1) /\ IsFiniteSet(1..i)
  BY <1>1, FS_Interval
<1>3. IsFiniteSet(T) /\ IsFiniteSet(S \cap (1..i))
  BY <1>2, FS_Subset
<1>4. Cardinality(T) \in Nat /\ Cardinality(S \cap (1..i)) \in Nat
  BY <1>3, FS_CardinalityType
<1>5. CASE i \in S
  <2>1. i \notin T /\ S \cap (1..i) = T \cup {i}
    BY <1>1, <1>5
  <2>2. Cardinality(T \cup {i}) = Cardinality(T) + 1
    BY <1>3, <2>1, FS_AddElement
  <2>3. QED
    BY <1>4, <1>5, <2>1, <2>2 DEF UpTo
<1>6. CASE i \notin S
  <2>1. S \cap (1..i) = T
    BY <1>1, <1>6
  <2>2. QED
    BY <1>4, <1>6, <2>1 DEF UpTo
<1>7. QED
  BY <1>5, <1>6

LEMMA PointsGrow ==
  ASSUME NEW ins, Len(ins) \in Nat, NEW args, NEW i \in 1..Len(ins)
  PROVE  /\ Points(ins, args, i) \in Int /\ Points(ins, args, i - 1) \in Int
         /\ Points(ins, args, i) = Points(ins, args, i - 1) +
              (IF ins[i] \in TypeVars THEN 80 ELSE IF ins[i] = "any" THEN 10
               ELSE IF args[i] = ins[i] THEN 100 ELSE IF args[i] = UNKNOWN THEN 50 ELSE 0)
<1> DEFINE V == VarInputs(ins)
           A == AnyInputs(ins)
           S == SameInputs(ins, args)
           U == UnknownInputs(ins, args)
<1>1. i \in Nat \ {0}
  OBVIOUS
<1>2. /\ i \in V <=> ins[i] \in TypeVars
      /\ i \in A <=> ins[i] = "any"
      /\ i \in S <=> i \notin V /\ i \notin A /\ args[i] = ins[i]
      /\ i \in U <=> i \notin V /\ i \notin A /\ i \notin S /\ args[i] = UNKNOWN
  BY DEF VarInputs, AnyInputs, SameInputs, UnknownInputs
<1>3. ins[i] \in TypeVars => ins[i] # "any"
  BY TypesAre
<1> HIDE DEF V, A, S, U
<1>4. /\ UpTo(V, i) \in Nat /\ UpTo(V, i - 1) \in Nat
      /\ UpTo(V, i) = UpTo(V, i - 1) + (IF i \in V THEN 1 ELSE 0)
  BY <1>1, UpToGrows
<1>5. /\ UpTo(A, i) \in Nat /\ UpTo(A, i - 1) \in Nat
      /\ UpTo(A, i) = UpTo(A, i - 1) + (IF i \in A THEN 1 ELSE 0)
  BY <1>1, UpToGrows
<1>6. /\ UpTo(S, i) \in Nat /\ UpTo(S, i - 1) \in Nat
      /\ UpTo(S, i) = UpTo(S, i - 1) + (IF i \in S THEN 1 ELSE 0)
  BY <1>1, UpToGrows
<1>7. /\ UpTo(U, i) \in Nat /\ UpTo(U, i - 1) \in Nat
      /\ UpTo(U, i) = UpTo(U, i - 1) + (IF i \in U THEN 1 ELSE 0)
  BY <1>1, UpToGrows
<1>8. \A k : Points(ins, args, k) =
               80 * UpTo(V, k) + 10 * UpTo(A, k) + 100 * UpTo(S, k) + 50 * UpTo(U, k)
  BY DEF Points, V, A, S, U
<1>9. PICK v0, v1, a0, a1, s0, s1, u0, u1 :
        /\ v0 = UpTo(V, i - 1) /\ v1 = UpTo(V, i) /\ a0 = UpTo(A, i - 1) /\ a1 = UpTo(A, i)
        /\ s0 = UpTo(S, i - 1) /\ s1 = UpTo(S, i) /\ u0 = UpTo(U, i - 1) /\ u1 = UpTo(U, i)
  OBVIOUS
<1>10. PICK p0, p1 : p0 = Points(ins, args, i - 1) /\ p1 = Points(ins, args, i)
  OBVIOUS
<1>11. /\ p0 = 80 * v0 + 10 * a0 + 100 * s0 + 50 * u0
       /\ p1 = 80 * v1 + 10 * a1 + 100 * s1 + 50 * u1
  BY <1>8, <1>9, <1>10
<1>12. /\ v0 \in Nat /\ v1 \in Nat /\ a0 \in Nat /\ a1 \in Nat
       /\ s0 \in Nat /\ s1 \in Nat /\ u0 \in Nat /\ u1 \in Nat
       /\ v1 = v0 + (IF i \in V THEN 1 ELSE 0) /\ a1 = a0 + (IF i \in A THEN 1 ELSE 0)
       /\ s1 = s0 + (IF i \in S THEN 1 ELSE 0) /\ u1 = u0 + (IF i \in U THEN 1 ELSE 0)
  BY <1>4, <1>5, <1>6, <1>7, <1>9
<1>13. PICK gain : gain = IF ins[i] \in TypeVars THEN 80 ELSE IF ins[i] = "any" THEN 10
                          ELSE IF args[i] = ins[i] THEN 100 ELSE IF args[i] = UNKNOWN THEN 50 ELSE 0
  OBVIOUS
<1>14. gain \in Int /\ 80 * (v1 - v0) + 10 * (a1 - a0) + 100 * (s1 - s0) + 50 * (u1 - u0) = gain
  BY <1>2, <1>3, <1>12, <1>13
<1>15. p0 \in Int /\ p1 \in Int /\ p1 = p0 + gain
  BY ONLY <1>11, <1>12, <1>14
<1>16. QED
  BY <1>10, <1>13, <1>15

(* What the loop has computed after i inputs. *)
Matched(ins, args, i, l) ==
  /\ l.ok => Fine(ins, args, i) /\ l.score = Points(ins, args, i) /\ Bound(ins, args, i, l.b)
  /\ Fine(ins, args, i) => l.ok

LEMMA FineGrows ==
  ASSUME NEW ins, NEW args, NEW i \in Nat \ {0}
  PROVE  Fine(ins, args, i) <=>
           /\ Fine(ins, args, i - 1)
           /\ ins[i] \in TypeVars \/ ins[i] = "any" \/ args[i] = ins[i] \/ args[i] = UNKNOWN
           /\ \A j \in 1..i - 1 :
                ins[j] \in TypeVars /\ ins[j] = ins[i] /\ args[j] # UNKNOWN => args[j] = args[i]
<1>1. 1..i = (1..i - 1) \cup {i} /\ \A j \in 1..i - 1 : j < i /\ ~(i < j)
  OBVIOUS
<1>2. ~(i < i)
  OBVIOUS
<1>3. ASSUME Fine(ins, args, i)
      PROVE  /\ Fine(ins, args, i - 1)
             /\ ins[i] \in TypeVars \/ ins[i] = "any" \/ args[i] = ins[i] \/ args[i] = UNKNOWN
             /\ \A j \in 1..i - 1 :
                  ins[j] \in TypeVars /\ ins[j] = ins[i] /\ args[j] # UNKNOWN => args[j] = args[i]
  BY <1>1, <1>3 DEF Fine
<1>4. ASSUME Fine(ins, args, i - 1),
             ins[i] \in TypeVars \/ ins[i] = "any" \/ args[i] = ins[i] \/ args[i] = UNKNOWN,
             \A j \in 1..i - 1 :
                ins[j] \in TypeVars /\ ins[j] = ins[i] /\ args[j] # UNKNOWN => args[j] = args[i]
      PROVE  Fine(ins, args, i)
  BY <1>1, <1>2, <1>4 DEF Fine
<1>5. QED
  BY <1>3, <1>4

LEMMA MatchStep ==
  ASSUME NEW ins \in Seq(Types), NEW args, NEW i \in 1..Len(ins), args[i] \in Types,
         NEW l \in MatchStates, Matched(ins, args, i - 1, l),
         NEW m, m = MatchInput(ins[i], args[i], l)
  PROVE  m \in MatchStates /\ Matched(ins, args, i, m)
<1>1. ins[i] \in Types /\ Len(ins) \in Nat /\ i \in Nat \ {0}
  BY ElementOfSeq, LenProperties
<1>2. PICK s, t : s = ins[i] /\ t = args[i]
  OBVIOUS
<1>3. /\ m \in MatchStates
      /\ m.ok <=> /\ l.ok
                  /\ \/ s \in TypeVars /\ l.b[s] \in {UNKNOWN, t}
                     \/ s \notin TypeVars /\ (s = "any" \/ t = s \/ t = UNKNOWN)
      /\ m.ok => /\ \A v \in TypeVars : m.b[v] = IF v = s THEN t ELSE l.b[v]
                 /\ m.score = l.score +
                      (IF s \in TypeVars THEN 80 ELSE IF s = "any" THEN 10
                       ELSE IF t = s THEN 100 ELSE 50)
  BY <1>1, <1>2, MatchInputIs
<1>4. Fine(ins, args, i) <=>
        /\ Fine(ins, args, i - 1)
        /\ s \in TypeVars \/ s = "any" \/ t = s \/ t = UNKNOWN
        /\ \A j \in 1..i - 1 :
             ins[j] \in TypeVars /\ ins[j] = s /\ args[j] # UNKNOWN => args[j] = t
  BY <1>1, <1>2, FineGrows
<1>5. 1..i = (1..i - 1) \cup {i}
  BY <1>1
<1>6. ASSUME m.ok PROVE Fine(ins, args, i)
  <2>1. l.ok /\ Fine(ins, args, i - 1) /\ Bound(ins, args, i - 1, l.b)
    BY <1>3, <1>6 DEF Matched
  <2>2. s \in TypeVars \/ s = "any" \/ t = s \/ t = UNKNOWN
    BY <1>3, <1>6
  <2>3. ASSUME NEW j \in 1..i - 1, ins[j] \in TypeVars, ins[j] = s, args[j] # UNKNOWN
        PROVE  args[j] = t
    <3>1. args[j] = l.b[s]
      BY <2>1, <2>3 DEF Bound
    <3>2. l.b[s] \in {UNKNOWN, t}
      BY <1>3, <1>6, <2>3
    <3>3. QED
      BY <2>3, <3>1, <3>2
  <2>4. QED
    BY <1>4, <2>1, <2>2, <2>3
<1>7. ASSUME m.ok PROVE m.score = Points(ins, args, i)
  <2>1. l.score = Points(ins, args, i - 1)
    BY <1>3, <1>7 DEF Matched
  <2>2. s \in TypeVars \/ s = "any" \/ t = s \/ t = UNKNOWN
    BY <1>3, <1>7
  <2>3. Points(ins, args, i) = Points(ins, args, i - 1) +
              (IF s \in TypeVars THEN 80 ELSE IF s = "any" THEN 10
               ELSE IF t = s THEN 100 ELSE IF t = UNKNOWN THEN 50 ELSE 0)
    BY <1>1, <1>2, PointsGrow
  <2>4. QED
    BY <1>3, <1>7, <2>1, <2>2, <2>3
<1>8. ASSUME m.ok PROVE Bound(ins, args, i, m.b)
  <2>1. l.ok /\ Bound(ins, args, i - 1, l.b)
    BY <1>3, <1>8 DEF Matched
  <2>2. SUFFICES ASSUME NEW v \in TypeVars
                 PROVE  /\ \A j \in 1..i : ins[j] = v /\ args[j] # UNKNOWN => args[j] = m.b[v]
                        /\ m.b[v] # UNKNOWN => \E j \in 1..i : ins[j] = v /\ args[j] = m.b[v]
    BY DEF Bound
  <2>3. /\ \A j \in 1..i - 1 : ins[j] = v /\ args[j] # UNKNOWN => args[j] = l.b[v]
        /\ l.b[v] # UNKNOWN => \E j \in 1..i - 1 : ins[j] = v /\ args[j] = l.b[v]
    BY <2>1 DEF Bound
  <2>4. m.b[v] = IF v = s THEN t ELSE l.b[v]
    BY <1>3, <1>8
  <2>5. CASE v = s
    <3>1. l.b[v] \in {UNKNOWN, t} /\ m.b[v] = t
      BY <1>3, <1>8, <2>4, <2>5
    <3>2. ins[i] = v /\ args[i] = m.b[v]
      BY <1>2, <2>5, <3>1
    <3>3. QED
      BY <1>5, <2>3, <3>1, <3>2
  <2>6. CASE v # s
    <3>1. m.b[v] = l.b[v] /\ ins[i] # v
      BY <1>2, <2>4, <2>6
    <3>2. QED
      BY <1>5, <2>3, <3>1
  <2>7. QED
    BY <2>5, <2>6
<1>9. ASSUME Fine(ins, args, i) PROVE m.ok
  <2>1. l.ok /\ Bound(ins, args, i - 1, l.b)
    BY <1>4, <1>9 DEF Matched
  <2>2. CASE s \in TypeVars
    <3>1. ASSUME l.b[s] # UNKNOWN PROVE l.b[s] = t
      <4>1. PICK j \in 1..i - 1 : ins[j] = s /\ args[j] = l.b[s]
        BY <2>1, <2>2, <3>1 DEF Bound
      <4>2. QED
        BY <1>4, <1>9, <2>2, <3>1, <4>1
    <3>2. QED
      BY <1>3, <2>1, <2>2, <3>1
  <2>3. CASE s \notin TypeVars
    BY <1>3, <1>4, <1>9, <2>1, <2>3
  <2>4. QED
    BY <2>2, <2>3
<1>10. QED
  BY <1>3, <1>6, <1>7, <1>8, <1>9 DEF Matched

LEMMA UnboundIs ==
  ASSUME NEW ins, NEW args
  PROVE  /\ Unbound \in [TypeVars -> Types] /\ Matching(TRUE, 0, Unbound) \in MatchStates
         /\ Bound(ins, args, 0, Unbound) /\ Fine(ins, args, 0)
<1>1. Unbound \in [TypeVars -> Types] /\ \A v \in TypeVars : Unbound[v] = UNKNOWN
  BY TypesAre DEF Unbound
<1>2. 1..0 = {}
  OBVIOUS
<1>3. QED
  BY <1>1, <1>2 DEF Bound, Fine, Matching, MatchStates

LEMMA NoPoints == ASSUME NEW ins, NEW args PROVE Points(ins, args, 0) = 0
<1>1. \A S : UpTo(S, 0) = 0
  <2>1. \A S : S \cap (1..0) = {}
    OBVIOUS
  <2>2. Cardinality({}) = 0
    BY FS_EmptySet
  <2>3. QED
    BY <2>1, <2>2 DEF UpTo
<1>2. QED
  BY <1>1 DEF Points

LEMMA MatchRunIs ==
  ASSUME NEW ins \in Seq(Types), NEW ts \in Seq(Types), Len(ins) <= Len(ts), NEW args,
         \A i \in 1..Len(ins) : args[i] = ts[Len(ts) - Len(ins) + i]
  PROVE  \A i \in 0..Len(ins) :
           MatchRun(ins, ts)[i] \in MatchStates /\ Matched(ins, args, i, MatchRun(ins, ts)[i])
<1> DEFINE n == Len(ins)
           S == MatchStates
           G == [q \in (1..n) \X S |-> MatchInput(ins[q[1]], ts[Len(ts) - n + q[1]], q[2])]
           K == {q \in (0..n) \X S : Matched(ins, args, q[1], q[2])}
           a == Matching(TRUE, 0, Unbound)
<1>1. n \in Nat /\ Len(ts) \in Nat /\ n <= Len(ts)
  BY LenProperties
<1>2. \A i \in 1..n : args[i] \in Types /\ ins[i] \in Types
  <2>1. \A i \in 1..n : Len(ts) - n + i \in 1..Len(ts)
    BY <1>1
  <2>2. QED
    BY <2>1, ElementOfSeq
<1>3. \A i \in 1..n : \A x \in S : G[<<i, x>>] = MatchInput(ins[i], args[i], x)
  OBVIOUS
<1>4. a \in S /\ Matched(ins, args, 0, a)
  <2>1. a \in S /\ a.ok /\ a.score = 0 /\ a.b = Unbound
    BY UnboundIs DEF Matching
  <2>2. QED
    BY <2>1, UnboundIs, NoPoints DEF Matched
<1>5. \A i \in 1..n : \A x \in S : G[<<i, x>>] \in S
  <2> TAKE i \in 1..n
  <2> TAKE x \in S
  <2>1. G[<<i, x>>] = MatchInput(ins[i], args[i], x)
    BY <1>3
  <2>2. QED
    BY <1>2, <2>1, MatchInputIs
<1>6. \A i \in 1..n : \A x \in S : <<i - 1, x>> \in K => <<i, G[<<i, x>>]>> \in K
  <2> TAKE i \in 1..n
  <2> TAKE x \in S
  <2>1. HAVE <<i - 1, x>> \in K
  <2>2. G[<<i, x>>] = MatchInput(ins[i], args[i], x) /\ i \in 0..n
    BY <1>1, <1>3
  <2>3. Matched(ins, args, i - 1, x)
    BY <2>1
  <2>4. PICK m : m = MatchInput(ins[i], args[i], x)
    OBVIOUS
  <2>5. m \in S /\ Matched(ins, args, i, m)
    BY <1>2, <2>3, <2>4, MatchStep
  <2>6. QED
    BY <2>2, <2>4, <2>5
<1>7. <<0, a>> \in K
  <2> HIDE DEF a
  <2>1. 0 \in 0..n
    BY <1>1
  <2>2. QED
    BY <1>4, <2>1
<1>8. LoopTable(n, S, a, G)
  BY <1>1, <1>4, <1>5 DEF LoopTable
<1> DEFINE run == MatchRun(ins, ts)
<1>9. PICK g : Looped(n, a, G, g)
  BY <1>8, LoopRuns
<1>10. Kept(n, S, a, G, K)
  BY <1>6, <1>7 DEF Kept
<1>11. g = [i \in 0..n |-> IF i = 0 THEN a ELSE MatchInput(ins[i], ts[Len(ts) - n + i], g[i - 1])]
  <2>1. \A i \in 0..n : g[i] \in S
    <3> HIDE DEF n, S, a, G, K
    <3>1. Iterates(n, S, a, G, g)
      BY <1>1, <1>9, LoopedIterates
    <3>2. Throughout(n, S, g, K)
      BY <1>8, <1>10, <3>1, LoopKeeps
    <3>3. QED
      BY <3>2 DEF Throughout
  <2>2. g = [i \in 0..n |-> IF i = 0 THEN a ELSE G[<<i, g[i - 1]>>]]
    BY <1>9 DEF Looped
  <2>3. ASSUME NEW i \in 0..n, i # 0
        PROVE  G[<<i, g[i - 1]>>] = MatchInput(ins[i], ts[Len(ts) - n + i], g[i - 1])
    <3>1. i \in 1..n /\ i - 1 \in 0..n
      BY <1>1, <2>3
    <3>2. g[i - 1] \in S
      BY <2>1, <3>1
    <3>3. QED
      BY <3>1, <3>2
  <2> HIDE DEF a, G
  <2>4. QED
    BY <2>2, <2>3
<1>12. run = [i \in 0..n |-> IF i = 0 THEN a ELSE MatchInput(ins[i], ts[Len(ts) - n + i], run[i - 1])]
  BY <1>11 DEF MatchRun
<1> HIDE DEF run
<1>13. Iterates(n, S, a, G, run)
  <2>1. run[0] = a
    BY <1>1, <1>12
  <2>2. ASSUME NEW i \in 1..n, run[i - 1] \in S
        PROVE  run[i] = G[<<i, run[i - 1]>>]
    <3>1. i \in 0..n /\ i # 0
      BY <1>1
    <3>2. run[i] = MatchInput(ins[i], ts[Len(ts) - n + i], run[i - 1])
      BY <1>12, <3>1
    <3>3. QED
      BY <2>2, <3>2
  <2>3. QED
    BY <2>1, <2>2 DEF Iterates
<1>14. Throughout(n, S, run, K)
  <2> HIDE DEF n, S, a, G, K
  <2>1. QED
    BY <1>8, <1>10, <1>13, LoopKeeps
<1>15. QED
  BY <1>14 DEF run, Throughout

(* The sets of inputs that MatchScore counts, and when it refuses. *)
LEMMA MatchScoreIs ==
  ASSUME NEW sig, NEW ts, NEW ins, ins = sig.ins, Len(ins) \in Nat, Len(ts) \in Nat,
         NEW args, args = TopOf(ts, Len(ins))
  PROVE  MatchScore(sig, ts) = IF Len(ts) < Len(ins) \/ ~Fine(ins, args, Len(ins)) THEN -1
                               ELSE Points(ins, args, Len(ins))
<1> DEFINE n == Len(ins)
           V == VarInputs(ins)
           A == AnyInputs(ins)
           S == SameInputs(ins, args)
           U == UnknownInputs(ins, args)
           conflict == \E i, j \in V : i < j /\ ins[i] = ins[j] /\ args[i] # UNKNOWN /\ args[i] # args[j]
<1>1. MatchScore(sig, ts) =
        IF Len(ts) < n \/ V \cup A \cup S \cup U # 1..n \/ conflict THEN -1
        ELSE 80 * Cardinality(V) + 10 * Cardinality(A) + 100 * Cardinality(S) + 50 * Cardinality(U)
  BY DEF MatchScore, VarInputs, AnyInputs, SameInputs, UnknownInputs
<1>2. Fine(ins, args, n) <=> V \cup A \cup S \cup U = 1..n /\ ~conflict
  <2>1. \A i \in 1..n : i \in V \cup A \cup S \cup U <=>
          ins[i] \in TypeVars \/ ins[i] = "any" \/ args[i] = ins[i] \/ args[i] = UNKNOWN
    BY DEF VarInputs, AnyInputs, SameInputs, UnknownInputs
  <2>2. V \cup A \cup S \cup U \subseteq 1..n
    BY DEF VarInputs, AnyInputs, SameInputs, UnknownInputs
  <2>3. V \cup A \cup S \cup U = 1..n <=> \A i \in 1..n :
          ins[i] \in TypeVars \/ ins[i] = "any" \/ args[i] = ins[i] \/ args[i] = UNKNOWN
    BY <2>1, <2>2
  <2>4. conflict <=> ~ \A j, k \in 1..n :
          j < k /\ ins[j] \in TypeVars /\ ins[j] = ins[k] /\ args[j] # UNKNOWN => args[j] = args[k]
    BY DEF VarInputs
  <2> HIDE DEF V, A, S, U, conflict
  <2>5. QED
    BY <2>3, <2>4 DEF Fine
<1>3. /\ UpTo(V, n) = Cardinality(V) /\ UpTo(A, n) = Cardinality(A)
      /\ UpTo(S, n) = Cardinality(S) /\ UpTo(U, n) = Cardinality(U)
  <2>1. /\ V \cap (1..n) = V /\ A \cap (1..n) = A
        /\ S \cap (1..n) = S /\ U \cap (1..n) = U
    BY DEF VarInputs, AnyInputs, SameInputs, UnknownInputs
  <2>2. QED
    BY <2>1 DEF UpTo
<1>4. Points(ins, args, n) = 80 * Cardinality(V) + 10 * Cardinality(A) + 100 * Cardinality(S)
                               + 50 * Cardinality(U)
  <2>1. Points(ins, args, n) =
          80 * UpTo(V, n) + 10 * UpTo(A, n) + 100 * UpTo(S, n) + 50 * UpTo(U, n)
    BY DEF Points
  <2> HIDE DEF V, A, S, U
  <2>2. QED
    BY <1>3, <2>1
<1> HIDE DEF V, A, S, U, conflict
<1>5. QED
  BY <1>1, <1>2, <1>4

(* match_score refuses, or gives the score, as MatchScore says. *)
THEOREM ScoreIsLoop ==
  ASSUME NEW sig, sig.ins \in Seq(Types), NEW ts \in Seq(Types)
  PROVE  MatchScore(sig, ts) = MatchLoop(sig, ts)
<1>1. PICK ins, n, args : ins = sig.ins /\ n = Len(ins) /\ args = TopOf(ts, n)
  OBVIOUS
<1>2. n \in Nat /\ Len(ts) \in Nat /\ ins \in Seq(Types)
  BY <1>1, LenProperties
<1>3. MatchScore(sig, ts) = IF Len(ts) < n \/ ~Fine(ins, args, n) THEN -1 ELSE Points(ins, args, n)
  BY <1>1, <1>2, MatchScoreIs
<1>4. PICK run : run = MatchRun(ins, ts)
  OBVIOUS
<1>5. MatchLoop(sig, ts) = IF Len(ts) < n \/ ~run[n].ok THEN -1 ELSE run[n].score
  BY <1>1, <1>4 DEF MatchLoop
<1>6. CASE Len(ts) < n
  BY <1>3, <1>5, <1>6
<1>7. CASE ~(Len(ts) < n)
  <2>1. n \in 0..Len(ts) /\ n <= Len(ts) /\ n \in 0..n
    BY <1>2, <1>7
  <2>2. \A i \in 1..n : args[i] = ts[Len(ts) - n + i]
    BY <1>1, <2>1, TopOfTyped
  <2>3. \A i \in 0..n : run[i] \in MatchStates /\ Matched(ins, args, i, run[i])
    <3>1. Len(ins) <= Len(ts) /\ \A i \in 1..Len(ins) : args[i] = ts[Len(ts) - Len(ins) + i]
      BY <1>1, <2>1, <2>2
    <3>2. \A i \in 0..Len(ins) :
            MatchRun(ins, ts)[i] \in MatchStates /\ Matched(ins, args, i, MatchRun(ins, ts)[i])
      BY <1>2, <3>1, MatchRunIs
    <3>3. QED
      BY <1>1, <1>4, <3>2
  <2>4. Matched(ins, args, n, run[n])
    BY <2>1, <2>3
  <2>5. (run[n].ok <=> Fine(ins, args, n)) /\ (run[n].ok => run[n].score = Points(ins, args, n))
    BY <2>4 DEF Matched
  <2>6. QED
    BY <1>3, <1>5, <1>7, <2>5
<1>8. QED
  BY <1>6, <1>7

-----------------------------------------------------------------------------
(* apply_signature.  The inputs are taken from the last one down: what is  *)
(* said of the first k inputs that are met is said of the sequences the    *)
(* other way round.                                                        *)

ApplyStates == [ok : BOOLEAN, b : [TypeVars -> Types]]

LEMMA ApplyInputIs ==
  ASSUME NEW s \in Types, NEW t \in Types, NEW l \in ApplyStates, NEW m, m = ApplyInput(s, t, l)
  PROVE  /\ m \in ApplyStates
         /\ m.ok <=> l.ok /\ Accepts(s, t) /\ (s \in TypeVars => l.b[s] \in {UNKNOWN, t})
         /\ m.ok => \A v \in TypeVars : m.b[v] = IF v = s THEN t ELSE l.b[v]
<1>1. /\ l.ok \in BOOLEAN /\ l.b \in [TypeVars -> Types]
      /\ l = Applying(l.ok, l.b)
  BY DEF ApplyStates, Applying
<1> DEFINE u == [l.b EXCEPT ![s] = t]
<1>2. u \in [TypeVars -> Types] /\ \A v \in TypeVars : u[v] = IF v = s THEN t ELSE l.b[v]
  BY <1>1
<1> HIDE DEF u
<1>3. CASE ~l.ok
  <2>1. m = l
    BY <1>3 DEF ApplyInput
  <2>2. QED
    BY <1>3, <2>1
<1>4. CASE l.ok /\ s \in TypeVars /\ l.b[s] \in {UNKNOWN, t}
  <2>1. m = Applying(TRUE, u)
    BY <1>4 DEF ApplyInput, u
  <2>2. m.ok /\ m.b = u /\ m \in ApplyStates
    BY <1>2, <2>1 DEF Applying, ApplyStates
  <2>3. QED
    BY <1>2, <1>4, <2>2 DEF Accepts
<1>5. CASE l.ok /\ s \in TypeVars /\ l.b[s] \notin {UNKNOWN, t}
  <2>1. m = Applying(FALSE, l.b)
    BY <1>5 DEF ApplyInput
  <2>2. ~m.ok /\ m \in ApplyStates
    BY <1>1, <2>1 DEF Applying, ApplyStates
  <2>3. QED
    BY <1>5, <2>2
<1>6. CASE l.ok /\ s \notin TypeVars
  <2>1. \A v \in TypeVars : v # s
    BY <1>6
  <2>2. <<s, t>> \in {<<"array", "array!">>, <<"str", "str!">>}
          <=> (s = "array" /\ t = "array!") \/ (s = "str" /\ t = "str!")
    OBVIOUS
  <2>3. CASE Accepts(s, t)
    <3>1. m = l
      BY <1>6, <2>2, <2>3 DEF ApplyInput, Accepts
    <3>2. QED
      BY <1>1, <1>6, <2>1, <2>3, <3>1
  <2>4. CASE ~Accepts(s, t)
    <3>1. m = Applying(FALSE, l.b)
      BY <1>6, <2>2, <2>4 DEF ApplyInput, Accepts
    <3>2. ~m.ok /\ m \in ApplyStates
      BY <1>1, <3>1 DEF Applying, ApplyStates
    <3>3. QED
      BY <2>4, <3>2
  <2>5. QED
    BY <2>3, <2>4
<1>7. QED
  BY <1>1, <1>3, <1>4, <1>5, <1>6

(* The first k inputs that are met can be popped. *)
Fits(ins, args, k) ==
  /\ \A j \in 1..k : Accepts(ins[j], args[j])
  /\ \A i, j \in 1..k :
       i < j /\ ins[i] \in TypeVars /\ ins[i] = ins[j] /\ args[i] # UNKNOWN => args[i] = args[j]

LEMMA FitsGrows ==
  ASSUME NEW ins, NEW args, NEW i \in Nat \ {0}
  PROVE  Fits(ins, args, i) <=>
           /\ Fits(ins, args, i - 1)
           /\ Accepts(ins[i], args[i])
           /\ \A j \in 1..i - 1 :
                ins[j] \in TypeVars /\ ins[j] = ins[i] /\ args[j] # UNKNOWN => args[j] = args[i]
<1>1. 1..i = (1..i - 1) \cup {i} /\ \A j \in 1..i - 1 : j < i /\ ~(i < j)
  OBVIOUS
<1>2. ~(i < i)
  OBVIOUS
<1>3. ASSUME Fits(ins, args, i)
      PROVE  /\ Fits(ins, args, i - 1)
             /\ Accepts(ins[i], args[i])
             /\ \A j \in 1..i - 1 :
                  ins[j] \in TypeVars /\ ins[j] = ins[i] /\ args[j] # UNKNOWN => args[j] = args[i]
  BY <1>1, <1>3 DEF Fits
<1>4. ASSUME Fits(ins, args, i - 1), Accepts(ins[i], args[i]),
             \A j \in 1..i - 1 :
                ins[j] \in TypeVars /\ ins[j] = ins[i] /\ args[j] # UNKNOWN => args[j] = args[i]
      PROVE  Fits(ins, args, i)
  BY <1>1, <1>2, <1>4 DEF Fits
<1>5. QED
  BY <1>3, <1>4

(* What the loop has computed after k inputs. *)
Applied(ins, args, k, l) ==
  /\ l.ok => Fits(ins, args, k) /\ Bound(ins, args, k, l.b)
  /\ Fits(ins, args, k) => l.ok

LEMMA ApplyStep ==
  ASSUME NEW ins, NEW args, NEW i \in Nat \ {0}, NEW s \in Types, NEW t \in Types,
         s = ins[i], t = args[i],
         NEW l \in ApplyStates, Applied(ins, args, i - 1, l),
         NEW m, m = ApplyInput(s, t, l)
  PROVE  m \in ApplyStates /\ Applied(ins, args, i, m)
<1>1. /\ m \in ApplyStates
      /\ m.ok <=> l.ok /\ Accepts(s, t) /\ (s \in TypeVars => l.b[s] \in {UNKNOWN, t})
      /\ m.ok => \A v \in TypeVars : m.b[v] = IF v = s THEN t ELSE l.b[v]
  BY ApplyInputIs
<1>2. Fits(ins, args, i) <=>
        /\ Fits(ins, args, i - 1)
        /\ Accepts(s, t)
        /\ \A j \in 1..i - 1 :
             ins[j] \in TypeVars /\ ins[j] = s /\ args[j] # UNKNOWN => args[j] = t
  BY FitsGrows
<1>3. 1..i = (1..i - 1) \cup {i}
  OBVIOUS
<1>4. ASSUME m.ok PROVE Fits(ins, args, i)
  <2>1. l.ok /\ Fits(ins, args, i - 1) /\ Bound(ins, args, i - 1, l.b)
    BY <1>1, <1>4 DEF Applied
  <2>2. ASSUME NEW j \in 1..i - 1, ins[j] \in TypeVars, ins[j] = s, args[j] # UNKNOWN
        PROVE  args[j] = t
    <3>1. args[j] = l.b[s]
      BY <2>1, <2>2 DEF Bound
    <3>2. l.b[s] \in {UNKNOWN, t}
      BY <1>1, <1>4, <2>2
    <3>3. QED
      BY <2>2, <3>1, <3>2
  <2>3. QED
    BY <1>1, <1>2, <1>4, <2>1, <2>2
<1>5. ASSUME m.ok PROVE Bound(ins, args, i, m.b)
  <2>1. l.ok /\ Bound(ins, args, i - 1, l.b)
    BY <1>1, <1>5 DEF Applied
  <2>2. SUFFICES ASSUME NEW v \in TypeVars
                 PROVE  /\ \A j \in 1..i : ins[j] = v /\ args[j] # UNKNOWN => args[j] = m.b[v]
                        /\ m.b[v] # UNKNOWN => \E j \in 1..i : ins[j] = v /\ args[j] = m.b[v]
    BY DEF Bound
  <2>3. /\ \A j \in 1..i - 1 : ins[j] = v /\ args[j] # UNKNOWN => args[j] = l.b[v]
        /\ l.b[v] # UNKNOWN => \E j \in 1..i - 1 : ins[j] = v /\ args[j] = l.b[v]
    BY <2>1 DEF Bound
  <2>4. m.b[v] = IF v = s THEN t ELSE l.b[v]
    BY <1>1, <1>5
  <2>5. CASE v = s
    <3>1. l.b[v] \in {UNKNOWN, t} /\ m.b[v] = t
      BY <1>1, <1>5, <2>4, <2>5
    <3>2. ins[i] = v /\ args[i] = m.b[v]
      BY <2>5, <3>1
    <3>3. QED
      BY <1>3, <2>3, <3>1, <3>2
  <2>6. CASE v # s
    <3>1. m.b[v] = l.b[v] /\ ins[i] # v
      BY <2>4, <2>6
    <3>2. QED
      BY <1>3, <2>3, <3>1
  <2>7. QED
    BY <2>5, <2>6
<1>6. ASSUME Fits(ins, args, i) PROVE m.ok
  <2>1. l.ok /\ Bound(ins, args, i - 1, l.b)
    BY <1>2, <1>6 DEF Applied
  <2>2. CASE s \in TypeVars
    <3>1. ASSUME l.b[s] # UNKNOWN PROVE l.b[s] = t
      <4>1. PICK j \in 1..i - 1 : ins[j] = s /\ args[j] = l.b[s]
        BY <2>1, <2>2, <3>1 DEF Bound
      <4>2. QED
        BY <1>2, <1>6, <2>2, <3>1, <4>1
    <3>2. QED
      BY <1>1, <1>2, <1>6, <2>1, <3>1
  <2>3. CASE s \notin TypeVars
    BY <1>1, <1>2, <1>6, <2>1, <2>3
  <2>4. QED
    BY <2>2, <2>3
<1>7. QED
  BY <1>1, <1>4, <1>5, <1>6 DEF Applied

LEMMA ApplyRunIs ==
  ASSUME NEW ins \in Seq(Types), NEW ts \in Seq(Types), Len(ins) <= Len(ts), NEW rins, NEW rargs,
         \A k \in 1..Len(ins) : rins[k] = ins[Len(ins) + 1 - k] /\ rargs[k] = ts[Len(ts) + 1 - k]
  PROVE  \A k \in 0..Len(ins) :
           ApplyRun(ins, ts)[k] \in ApplyStates /\ Applied(rins, rargs, k, ApplyRun(ins, ts)[k])
<1> DEFINE n == Len(ins)
           S == ApplyStates
           G == [q \in (1..n) \X S |-> ApplyInput(ins[n + 1 - q[1]], ts[Len(ts) + 1 - q[1]], q[2])]
           K == {q \in (0..n) \X S : Applied(rins, rargs, q[1], q[2])}
           a == Applying(TRUE, Unbound)
<1>1. n \in Nat /\ Len(ts) \in Nat /\ n <= Len(ts)
  BY LenProperties
<1>2. \A i \in 1..n : rargs[i] \in Types /\ rins[i] \in Types
  <2>1. \A i \in 1..n : Len(ts) + 1 - i \in 1..Len(ts) /\ n + 1 - i \in 1..n
    BY <1>1
  <2>2. QED
    BY <2>1, ElementOfSeq
<1>3. \A i \in 1..n : \A x \in S : G[<<i, x>>] = ApplyInput(rins[i], rargs[i], x)
  OBVIOUS
<1>4. a \in S /\ Applied(rins, rargs, 0, a)
  <2>1. a \in S /\ a.ok /\ a.b = Unbound
    BY UnboundIs DEF Applying, ApplyStates
  <2>2. Fits(rins, rargs, 0)
    BY DEF Fits
  <2>3. QED
    BY <2>1, <2>2, UnboundIs DEF Applied
<1>5. \A i \in 1..n : \A x \in S : G[<<i, x>>] \in S
  <2> TAKE i \in 1..n
  <2> TAKE x \in S
  <2>1. G[<<i, x>>] = ApplyInput(rins[i], rargs[i], x)
    BY <1>3
  <2>2. QED
    BY <1>2, <2>1, ApplyInputIs
<1>6. \A i \in 1..n : \A x \in S : <<i - 1, x>> \in K => <<i, G[<<i, x>>]>> \in K
  <2> TAKE i \in 1..n
  <2> TAKE x \in S
  <2>1. HAVE <<i - 1, x>> \in K
  <2>2. G[<<i, x>>] = ApplyInput(rins[i], rargs[i], x) /\ i \in 0..n /\ i \in Nat \ {0}
    BY <1>1, <1>3
  <2>3. Applied(rins, rargs, i - 1, x)
    BY <2>1
  <2>4. PICK s, t, m : s = rins[i] /\ t = rargs[i] /\ m = ApplyInput(s, t, x)
    OBVIOUS
  <2>5. s \in Types /\ t \in Types
    BY <1>2, <2>4
  <2>6. m \in S /\ Applied(rins, rargs, i, m)
    BY <2>2, <2>3, <2>4, <2>5, ApplyStep
  <2>7. QED
    BY <2>2, <2>4, <2>6
<1>7. <<0, a>> \in K
  <2> HIDE DEF a
  <2>1. 0 \in 0..n
    BY <1>1
  <2>2. QED
    BY <1>4, <2>1
<1>8. LoopTable(n, S, a, G)
  BY <1>1, <1>4, <1>5 DEF LoopTable
<1> DEFINE run == ApplyRun(ins, ts)
<1>9. PICK g : Looped(n, a, G, g)
  BY <1>8, LoopRuns
<1>10. Kept(n, S, a, G, K)
  BY <1>6, <1>7 DEF Kept
<1>11. g = [i \in 0..n |-> IF i = 0 THEN a
                           ELSE ApplyInput(ins[n + 1 - i], ts[Len(ts) + 1 - i], g[i - 1])]
  <2>1. \A i \in 0..n : g[i] \in S
    <3> HIDE DEF n, S, a, G, K
    <3>1. Iterates(n, S, a, G, g)
      BY <1>1, <1>9, LoopedIterates
    <3>2. Throughout(n, S, g, K)
      BY <1>8, <1>10, <3>1, LoopKeeps
    <3>3. QED
      BY <3>2 DEF Throughout
  <2>2. g = [i \in 0..n |-> IF i = 0 THEN a ELSE G[<<i, g[i - 1]>>]]
    BY <1>9 DEF Looped
  <2>3. ASSUME NEW i \in 0..n, i # 0
        PROVE  G[<<i, g[i - 1]>>] = ApplyInput(ins[n + 1 - i], ts[Len(ts) + 1 - i], g[i - 1])
    <3>1. i \in 1..n /\ i - 1 \in 0..n
      BY <1>1, <2>3
    <3>2. g[i - 1] \in S
      BY <2>1, <3>1
    <3>3. QED
      BY <3>1, <3>2
  <2> HIDE DEF a, G
  <2>4. QED
    BY <2>2, <2>3
<1>12. run = [i \in 0..n |-> IF i = 0 THEN a
                             ELSE ApplyInput(ins[n + 1 - i], ts[Len(ts) + 1 - i], run[i - 1])]
  BY <1>11 DEF ApplyRun
<1> HIDE DEF run
<1>13. Iterates(n, S, a, G, run)
  <2>1. run[0] = a
    BY <1>1, <1>12
  <2>2. ASSUME NEW i \in 1..n, run[i - 1] \in S
        PROVE  run[i] = G[<<i, run[i - 1]>>]
    <3>1. i \in 0..n /\ i # 0
      BY <1>1
    <3>2. run[i] = ApplyInput(ins[n + 1 - i], ts[Len(ts) + 1 - i], run[i - 1])
      BY <1>12, <3>1
    <3>3. QED
      BY <2>2, <3>2
  <2>3. QED
    BY <2>1, <2>2 DEF Iterates
<1>14. Throughout(n, S, run, K)
  <2> HIDE DEF n, S, a, G, K
  <2>1. QED
    BY <1>8, <1>10, <1>13, LoopKeeps
<1>15. QED
  BY <1>14 DEF run, Throughout

(* A set of positions that is not empty has a last one. *)
LEMMA LastOf ==
  ASSUME NEW n \in Nat, NEW B, B \subseteq 1..n, B # {}
  PROVE  (CHOOSE i \in B : \A j \in B : j <= i) \in B
<1> DEFINE T == {m \in Nat : m <= n /\ n - m \in B}
<1>1. T # {}
  <2>1. PICK i \in B : TRUE
    OBVIOUS
  <2>2. n - i \in Nat /\ n - i <= n /\ n - (n - i) = i
    BY <2>1
  <2>3. n - i \in T
    BY <2>1, <2>2
  <2>4. QED
    BY <2>3
<1>2. PICK x \in T : \A y \in T : x <= y
  <2> HIDE DEF T
  <2>1. T \subseteq Nat
    BY DEF T
  <2>2. QED
    BY <1>1, <2>1, Least
<1>3. n - x \in B
  OBVIOUS
<1>4. ASSUME NEW j \in B PROVE j <= n - x
  <2>1. j \in Nat /\ j <= n /\ n - j \in Nat /\ n - j <= n /\ n - (n - j) = j
    OBVIOUS
  <2>2. n - j \in T
    BY <2>1
  <2>3. x <= n - j
    BY <1>2, <2>2
  <2>4. QED
    BY <2>1, <2>3
<1>5. \E i \in B : \A j \in B : j <= i
  BY <1>3, <1>4
<1>6. QED
  BY <1>5

(* The topmost known value is any known value, when they agree. *)
Settles(ins, args, n, b, v) ==
  v \in TypeVars =>
    /\ \A j \in 1..n : ins[j] = v /\ args[j] # UNKNOWN => args[j] = b[v]
    /\ b[v] # UNKNOWN => \E j \in 1..n : ins[j] = v /\ args[j] = b[v]
Resolve(b, v) == IF v \in TypeVars /\ b[v] # UNKNOWN THEN b[v] ELSE v

LEMMA BindingIs ==
  ASSUME NEW sig, NEW ts, NEW ins, ins = sig.ins, NEW n \in Nat, n = Len(ins),
         NEW args, args = TopOf(ts, n), NEW b, NEW v, Settles(ins, args, n, b, v)
  PROVE  Binding(sig, ts, v) = Resolve(b, v)
<1> DEFINE B == {i \in 1..n : ins[i] = v /\ args[i] # UNKNOWN}
<1>0. v \in TypeVars =>
        /\ \A j \in 1..n : ins[j] = v /\ args[j] # UNKNOWN => args[j] = b[v]
        /\ b[v] # UNKNOWN => \E j \in 1..n : ins[j] = v /\ args[j] = b[v]
  BY DEF Settles
<1>1. Binding(sig, ts, v) = IF v \in TypeVars /\ B # {}
                            THEN args[CHOOSE i \in B : \A j \in B : j <= i] ELSE v
  BY DEF Binding
<1>2. CASE v \in TypeVars /\ B # {}
  <2> DEFINE i == CHOOSE k \in B : \A j \in B : j <= k
  <2>1. i \in B
    <3> HIDE DEF B
    <3>1. B \subseteq 1..n
      BY DEF B
    <3>2. QED
      BY <1>2, <3>1, LastOf
  <2> HIDE DEF i
  <2>2. args[i] = b[v] /\ args[i] # UNKNOWN
    BY <1>0, <1>2, <2>1
  <2>3. QED
    BY <1>1, <1>2, <2>2 DEF i, Resolve
<1>3. CASE v \in TypeVars /\ B = {}
  <2>1. b[v] = UNKNOWN
    BY <1>0, <1>3
  <2>2. QED
    BY <1>1, <1>3, <2>1 DEF Resolve
<1>4. CASE v \notin TypeVars
  BY <1>1, <1>4 DEF Resolve
<1>5. QED
  BY <1>2, <1>3, <1>4

(* What the inputs must be like, read from the first or from the last one. *)
Mirrored(n, ins, args, rins, rargs) ==
  \A k \in 1..n : rins[k] = ins[n + 1 - k] /\ rargs[k] = args[n + 1 - k]

LEMMA SignatureAppliesIs ==
  ASSUME NEW sig, NEW ts, NEW ins, ins = sig.ins, NEW n \in Nat, n = Len(ins), Len(ts) \in Nat,
         Len(ts) >= n, NEW args, args = TopOf(ts, n), NEW rins, NEW rargs,
         Mirrored(n, ins, args, rins, rargs)
  PROVE  SignatureApplies(sig, ts) <=> Fits(rins, rargs, n)
<1>0. \A k \in 1..n : rins[k] = ins[n + 1 - k] /\ rargs[k] = args[n + 1 - k]
  BY DEF Mirrored
<1>1. SignatureApplies(sig, ts) <=>
        /\ \A i \in 1..n : Accepts(ins[i], args[i])
        /\ \A i, j \in 1..n : j < i /\ ins[i] \in TypeVars /\ ins[i] = ins[j] /\ args[i] # UNKNOWN
                              => args[i] = args[j]
  BY DEF SignatureApplies
<1>2. \A i \in 1..n : /\ n + 1 - i \in 1..n /\ n + 1 - (n + 1 - i) = i
                      /\ rins[n + 1 - i] = ins[i] /\ rargs[n + 1 - i] = args[i]
  <2> TAKE i \in 1..n
  <2>1. n + 1 - i \in 1..n /\ n + 1 - (n + 1 - i) = i
    OBVIOUS
  <2>2. QED
    BY <1>0, <2>1
<1>3. \A i, j \in 1..n : j < i <=> n + 1 - i < n + 1 - j
  OBVIOUS
<1>4. ASSUME SignatureApplies(sig, ts) PROVE Fits(rins, rargs, n)
  <2>1. ASSUME NEW j \in 1..n PROVE Accepts(rins[j], rargs[j])
    BY <1>1, <1>2, <1>4
  <2>2. ASSUME NEW i \in 1..n, NEW j \in 1..n, i < j, rins[i] \in TypeVars, rins[i] = rins[j],
               rargs[i] # UNKNOWN
        PROVE  rargs[i] = rargs[j]
    <3>1. PICK x, y : x = n + 1 - i /\ y = n + 1 - j
      OBVIOUS
    <3>2. x \in 1..n /\ y \in 1..n /\ y < x
      BY <1>2, <2>2, <3>1
    <3>3. ins[x] = rins[i] /\ ins[y] = rins[j] /\ args[x] = rargs[i] /\ args[y] = rargs[j]
      BY <1>0, <3>1
    <3>4. QED
      BY <1>1, <1>4, <2>2, <3>2, <3>3
  <2>3. QED
    BY <2>1, <2>2 DEF Fits
<1>5. ASSUME Fits(rins, rargs, n) PROVE SignatureApplies(sig, ts)
  <2>1. ASSUME NEW j \in 1..n PROVE Accepts(ins[j], args[j])
    BY <1>2, <1>5 DEF Fits
  <2>2. ASSUME NEW i \in 1..n, NEW j \in 1..n, j < i, ins[i] \in TypeVars, ins[i] = ins[j],
               args[i] # UNKNOWN
        PROVE  args[i] = args[j]
    <3>1. PICK x, y : x = n + 1 - i /\ y = n + 1 - j
      OBVIOUS
    <3>2. x \in 1..n /\ y \in 1..n /\ x < y
      BY <1>2, <2>2, <3>1
    <3>3. rins[x] = ins[i] /\ rins[y] = ins[j] /\ rargs[x] = args[i] /\ rargs[y] = args[j]
      BY <1>2, <3>1
    <3>4. QED
      BY <1>5, <2>2, <3>2, <3>3 DEF Fits
  <2>3. QED
    BY <1>1, <2>1, <2>2
<1>6. QED
  BY <1>4, <1>5

(* apply_signature accepts the inputs, and pushes the outputs, as the      *)
(* operators say.                                                          *)
THEOREM ApplyIsLoop ==
  ASSUME NEW sig, sig.ins \in Seq(Types), NEW ts \in Seq(Types)
  PROVE  /\ SignatureApplies(sig, ts) <=> ApplyLoop(sig, ts).ok
         /\ ApplyLoop(sig, ts).ok => Outputs(sig, ts) = ApplyLoop(sig, ts).outs
<1>1. PICK ins, n, args, run, b : /\ ins = sig.ins /\ n = Len(ins) /\ args = TopOf(ts, n)
                                  /\ run = ApplyRun(ins, ts) /\ b = run[n].b
  OBVIOUS
<1>2. n \in Nat /\ Len(ts) \in Nat /\ ins \in Seq(Types)
  BY <1>1, LenProperties
<1> DEFINE Pushed(s) == IF s \in TypeVars /\ b[s] # UNKNOWN THEN b[s] ELSE s
<1>3. ApplyLoop(sig, ts) =
        IF Len(ts) < n \/ ~run[n].ok THEN [ok |-> FALSE, outs |-> <<>>]
        ELSE [ok |-> TRUE, outs |-> [i \in 1..Len(sig.outs) |-> Pushed(sig.outs[i])]]
  BY <1>1 DEF ApplyLoop
<1>4. CASE Len(ts) < n
  <2>1. ~ApplyLoop(sig, ts).ok
    BY <1>3, <1>4
  <2>2. ~(Len(ts) >= n)
    BY <1>2, <1>4
  <2>3. ~SignatureApplies(sig, ts)
    BY <1>1, <2>2 DEF SignatureApplies
  <2>4. QED
    BY <2>1, <2>3
<1>5. CASE ~(Len(ts) < n)
  <2>1. n \in 0..Len(ts) /\ n <= Len(ts) /\ Len(ts) >= n /\ n \in 0..n
    BY <1>2, <1>5
  <2> DEFINE rins  == [k \in 1..n |-> ins[n + 1 - k]]
             rargs == [k \in 1..n |-> ts[Len(ts) + 1 - k]]
  <2>2. \A i \in 1..n : args[i] = ts[Len(ts) - n + i]
    BY <1>1, <2>1, TopOfTyped
  <2>3. \A k \in 1..n : rins[k] = ins[n + 1 - k] /\ rargs[k] = args[n + 1 - k]
    <3> TAKE k \in 1..n
    <3>1. n + 1 - k \in 1..n /\ Len(ts) - n + (n + 1 - k) = Len(ts) + 1 - k
      BY <1>2
    <3>2. QED
      BY <2>2, <3>1
  <2>4. \A k \in 1..n : rins[k] = ins[n + 1 - k] /\ rargs[k] = ts[Len(ts) + 1 - k]
    OBVIOUS
  <2> HIDE DEF rins, rargs
  <2>5. \A k \in 0..n : run[k] \in ApplyStates /\ Applied(rins, rargs, k, run[k])
    <3>1. Len(ins) <= Len(ts) /\ \A k \in 1..Len(ins) :
            rins[k] = ins[Len(ins) + 1 - k] /\ rargs[k] = ts[Len(ts) + 1 - k]
      BY <1>1, <2>1, <2>4
    <3>2. \A k \in 0..Len(ins) :
           ApplyRun(ins, ts)[k] \in ApplyStates /\ Applied(rins, rargs, k, ApplyRun(ins, ts)[k])
      BY <1>2, <3>1, ApplyRunIs
    <3>3. QED
      BY <1>1, <3>2
  <2>6. run[n] \in ApplyStates /\ Applied(rins, rargs, n, run[n])
    BY <2>1, <2>5
  <2>7. /\ run[n].ok <=> Fits(rins, rargs, n)
        /\ run[n].ok => Bound(rins, rargs, n, b)
    BY <1>1, <2>6 DEF Applied
  <2>8. SignatureApplies(sig, ts) <=> Fits(rins, rargs, n)
    <3>1. Mirrored(n, ins, args, rins, rargs)
      BY <2>3 DEF Mirrored
    <3>2. QED
      BY <1>1, <1>2, <2>1, <3>1, SignatureAppliesIs
  <2>9. ApplyLoop(sig, ts).ok <=> run[n].ok
    BY <1>3, <1>5
  <2>10. ASSUME run[n].ok PROVE Outputs(sig, ts) = ApplyLoop(sig, ts).outs
    <3>1. ASSUME NEW v, v \in TypeVars
          PROVE  /\ \A j \in 1..n : ins[j] = v /\ args[j] # UNKNOWN => args[j] = b[v]
                 /\ b[v] # UNKNOWN => \E j \in 1..n : ins[j] = v /\ args[j] = b[v]
      <4>1. /\ \A j \in 1..n : rins[j] = v /\ rargs[j] # UNKNOWN => rargs[j] = b[v]
            /\ b[v] # UNKNOWN => \E j \in 1..n : rins[j] = v /\ rargs[j] = b[v]
        BY <2>7, <2>10, <3>1 DEF Bound
      <4>2. \A j \in 1..n : n + 1 - j \in 1..n /\ n + 1 - (n + 1 - j) = j
        BY <1>2
      <4>3. \A j \in 1..n : ins[j] = rins[n + 1 - j] /\ args[j] = rargs[n + 1 - j]
        BY <2>3, <4>2
      <4>4. QED
        BY <2>3, <4>1, <4>2, <4>3
    <3>2. \A v : Binding(sig, ts, v) = Pushed(v)
      <4> TAKE v
      <4>1. Settles(ins, args, n, b, v)
        BY <3>1 DEF Settles
      <4>2. ins = sig.ins /\ n = Len(ins) /\ args = TopOf(ts, n)
        BY <1>1
      <4>3. Binding(sig, ts, v) = Resolve(b, v)
        BY ONLY <1>2, <4>1, <4>2, BindingIs
      <4>4. QED
        BY <4>3 DEF Resolve
    <3>3. ApplyLoop(sig, ts).outs = [i \in 1..Len(sig.outs) |-> Pushed(sig.outs[i])]
      BY <1>3, <1>5, <2>10
    <3> HIDE DEF Pushed
    <3>4. QED
      BY <3>2, <3>3 DEF Outputs
  <2>11. QED
    BY <2>7, <2>8, <2>9, <2>10
<1>6. QED
  BY <1>4, <1>5

-----------------------------------------------------------------------------
(* What is registered at start-up: no name twice. *)

StackGroups == {[names |-> {n}, sig |-> StackSig[n]] : n \in StackWords}

LEMMA IdentityIsNew ==
  Identity \notin
    {">r", "execute", "r>", "r@", "rdrop", "branch", "2>r", "2r>", "0branch", "free",
     "march.map.free", "i0", "march.map.new", "drop", "dup", "swap", "over", "rot",
     "+", "-", "*", "/", "mod", "and", "or", "xor", "<<", ">>", ">>>", "march.map.get",
     "march.map.remove", "=", "<>", "<", ">", "<=", ">=", "not", "march.map.size",
     "0=", "0>", "0<", "land", "lor", "lnot", "@", "c@", "!", "c!", "alloc", "memcpy",
     "march.array.length", "str-length", "mut", "march.array.at", "march.array.mut.set",
     "march.array.mut.fill", "march.array.mut.reverse", "march.array.concat", "march.map.set"}
BY Zenon DEF Identity

LEMMA NamesDisjoint ==
  /\ \A g \in ArithmeticGroups : \A h \in ReturnStackGroups : \A n \in g.names : n \notin h.names
  /\ \A g \in ArithmeticGroups : \A h \in MemoryGroups : \A n \in g.names : n \notin h.names
  /\ \A g \in ReturnStackGroups : \A h \in MemoryGroups : \A n \in g.names : n \notin h.names
  /\ \A g \in StackGroups : \A h \in ArithmeticGroups \cup ReturnStackGroups \cup MemoryGroups :
       \A n \in g.names : n \notin h.names
<1>1. ASSUME NEW g \in ArithmeticGroups, NEW h \in ReturnStackGroups, NEW n \in g.names,
             n \in h.names
      PROVE  FALSE
  <2>1. Identity \notin g.names
    BY IdentityIsNew DEF ArithmeticGroups
  <2>2. QED
    BY <1>1, <2>1 DEF ArithmeticGroups, ReturnStackGroups
<1>2. ASSUME NEW g \in ArithmeticGroups, NEW h \in MemoryGroups, NEW n \in g.names, n \in h.names
      PROVE  FALSE
  BY <1>2 DEF ArithmeticGroups, MemoryGroups
<1>3. ASSUME NEW g \in ReturnStackGroups, NEW h \in MemoryGroups, NEW n \in g.names, n \in h.names
      PROVE  FALSE
  <2>1. Identity \notin h.names
    BY IdentityIsNew DEF MemoryGroups
  <2>2. QED
    BY <1>3, <2>1 DEF ReturnStackGroups, MemoryGroups
<1>4. ASSUME NEW n \in StackWords, NEW h \in ArithmeticGroups PROVE n \notin h.names
  BY DEF StackWords, ArithmeticGroups
<1>5. ASSUME NEW n \in StackWords, NEW h \in MemoryGroups PROVE n \notin h.names
  BY DEF StackWords, MemoryGroups
<1>6. ASSUME NEW n \in StackWords, NEW h \in ReturnStackGroups PROVE n \notin h.names
  <2>1. Identity \notin StackWords
    BY IdentityIsNew DEF StackWords
  <2>2. QED
    BY <2>1 DEF StackWords, ReturnStackGroups
<1>7. \A g \in StackGroups : \A n \in g.names : n \in StackWords
  BY DEF StackGroups
<1>8. QED
  BY <1>1, <1>2, <1>3, <1>4, <1>5, <1>6, <1>7

LEMMA OneSignature ==
  ASSUME NEW g \in PrimGroups, NEW h \in PrimGroups, NEW n \in g.names, n \in h.names
  PROVE  g.sig = h.sig
<1>1. CASE g \in ArithmeticGroups /\ h \in ArithmeticGroups
  BY <1>1 DEF ArithmeticGroups
<1>2. CASE g \in MemoryGroups /\ h \in MemoryGroups
  BY <1>2 DEF MemoryGroups
<1>3. CASE g \in ReturnStackGroups /\ h \in ReturnStackGroups
  <2>1. Identity \notin {">r", "execute", "r>", "r@", "rdrop", "branch", "2>r", "2r>", "0branch",
                         "free", "march.map.free", "i0", "march.map.new"}
    BY IdentityIsNew
  <2>2. QED
    BY <1>3, <2>1 DEF ReturnStackGroups
<1>4. CASE g \in StackGroups /\ h \in StackGroups
  BY <1>4 DEF StackGroups
<1>5. /\ g \in StackGroups \/ g \in ArithmeticGroups \/ g \in ReturnStackGroups \/ g \in MemoryGroups
      /\ h \in StackGroups \/ h \in ArithmeticGroups \/ h \in ReturnStackGroups \/ h \in MemoryGroups
  BY DEF PrimGroups, StackGroups
<1>6. QED
  BY <1>1, <1>2, <1>3, <1>4, <1>5, NamesDisjoint

LEMMA OneEntry ==
  /\ \A d, e \in RegisterPrimitives : d.name = e.name => d = e
  /\ \A d, e \in ImmediateEntries : d.name = e.name => d = e
<1>1. ASSUME NEW d \in RegisterPrimitives, NEW e \in RegisterPrimitives, d.name = e.name
      PROVE  d = e
  <2>1. PICK g, m : g \in PrimGroups /\ m \in g.names /\ d = Entry(m, g.sig, "prim", m, m, 0)
    BY DEF RegisterPrimitives
  <2>2. PICK h, n : h \in PrimGroups /\ n \in h.names /\ e = Entry(n, h.sig, "prim", n, n, 0)
    BY DEF RegisterPrimitives
  <2>3. m = d.name /\ n = e.name
    BY <2>1, <2>2 DEF Entry
  <2>4. m = n
    BY <1>1, <2>3
  <2>5. g.sig = h.sig
    BY <2>1, <2>2, <2>4, OneSignature
  <2>6. QED
    BY <2>1, <2>2, <2>4, <2>5
<1>2. \A d, e \in ImmediateEntries : d.name = e.name => d = e
  BY DEF ImmediateEntries, Entry, StackWords
<1>3. QED
  BY <1>1, <1>2

-----------------------------------------------------------------------------
(* dict_lookup_typed. *)

(* No entry is the NULL that the lookup returns when there is none. *)
Proper(es) == es \in Seq(Entries) /\ \A i \in 1..Len(es) : es[i] # NoEntry

LEMMA BuiltinsAreProper == \A b \in BuiltinChains : b[1] # NoEntry
<1>1. NoEntry.kind = "none"
  BY DEF NoEntry, Entry
<1>2. QED
  BY <1>1, BuiltinsTyped

(* The candidates are the entries of the buckets, one for each place.      *)
LEMMA BucketIs ==
  ASSUME NEW es, Proper(es), NEW name, NEW i \in 1..Len(es) + 2
  PROVE  /\ \A e \in Bucket(es, name, i) :
              e \in Entries /\ e # NoEntry /\ <<e, i>> \in Candidates(es, name)
         /\ \A d, e \in Bucket(es, name, i) : d = e
<1>1. Len(es) \in Nat /\ es \in Seq(Entries) /\ \A j \in 1..Len(es) : es[j] # NoEntry
  BY LenProperties DEF Proper
<1>2. CASE i <= Len(es)
  <2>1. Bucket(es, name, i) = {e \in {es[i]} : e.name = name} /\ i \in 1..Len(es)
    BY <1>1, <1>2 DEF Bucket
  <2>2. es[i] \in Entries
    BY <1>1, <2>1, ElementOfSeq
  <2>3. es[i].name = name => <<es[i], i>> \in Candidates(es, name)
    BY <2>1 DEF Candidates
  <2>4. QED
    BY <1>1, <2>1, <2>2, <2>3
<1>3. CASE i = Len(es) + 1
  <2>1. Bucket(es, name, i) = {e \in ImmediateEntries : e.name = name}
    BY <1>1, <1>3 DEF Bucket
  <2>2. ASSUME NEW e \in ImmediateEntries, e.name = name
        PROVE  e \in Entries /\ e # NoEntry /\ <<e, i>> \in Candidates(es, name)
    <3>1. PICK b : b = <<e, 1>>
      OBVIOUS
    <3>2. b \in BuiltinChains /\ b[1] = e /\ b[2] = 1
      BY <3>1 DEF BuiltinChains
    <3>3. <<b[1], Len(es) + b[2]>> \in Candidates(es, name)
      BY <2>2, <3>2 DEF Candidates
    <3>4. QED
      BY <1>3, <3>2, <3>3, BuiltinsTyped, BuiltinsAreProper
  <2>3. QED
    BY <2>1, <2>2, OneEntry
<1>4. CASE i = Len(es) + 2
  <2>1. Bucket(es, name, i) = {e \in RegisterPrimitives : e.name = name}
    BY <1>1, <1>4 DEF Bucket
  <2>2. ASSUME NEW e \in RegisterPrimitives, e.name = name
        PROVE  e \in Entries /\ e # NoEntry /\ <<e, i>> \in Candidates(es, name)
    <3>1. PICK b : b = <<e, 2>>
      OBVIOUS
    <3>2. b \in BuiltinChains /\ b[1] = e /\ b[2] = 2
      BY <3>1 DEF BuiltinChains
    <3>3. <<b[1], Len(es) + b[2]>> \in Candidates(es, name)
      BY <2>2, <3>2 DEF Candidates
    <3>4. QED
      BY <1>4, <3>2, <3>3, BuiltinsTyped, BuiltinsAreProper
  <2>3. QED
    BY <2>1, <2>2, OneEntry
<1>5. QED
  BY <1>1, <1>2, <1>3, <1>4

LEMMA CandidateIs ==
  ASSUME NEW es, Proper(es), NEW name, NEW c \in Candidates(es, name)
  PROVE  /\ c[2] \in 1..Len(es) + 2 /\ c[1] \in Bucket(es, name, c[2]) /\ c = <<c[1], c[2]>>
         /\ c[1] \in Entries
<1>1. Len(es) \in Nat /\ es \in Seq(Entries)
  BY LenProperties DEF Proper
<1>2. CASE \E i \in {j \in 1..Len(es) : es[j].name = name} : c = <<es[i], i>>
  <2>1. PICK i \in 1..Len(es) : es[i].name = name /\ c = <<es[i], i>>
    BY <1>2
  <2>2. Bucket(es, name, i) = {e \in {es[i]} : e.name = name}
    BY <1>1 DEF Bucket
  <2>3. QED
    BY <1>1, <2>1, <2>2, CandidatesTyped
<1>3. CASE \E b \in {x \in BuiltinChains : x[1].name = name} : c = <<b[1], Len(es) + b[2]>>
  <2>1. PICK b \in BuiltinChains : b[1].name = name /\ c = <<b[1], Len(es) + b[2]>>
    BY <1>3
  <2>2. CASE \E e \in ImmediateEntries : b = <<e, 1>>
    <3>1. PICK e \in ImmediateEntries : b = <<e, 1>>
      BY <2>2
    <3>2. Bucket(es, name, Len(es) + 1) = {x \in ImmediateEntries : x.name = name}
      BY <1>1 DEF Bucket
    <3>3. c = <<e, Len(es) + 1>> /\ e.name = name
      BY <2>1, <3>1
    <3>4. QED
      BY <1>1, <3>2, <3>3, CandidatesTyped
  <2>3. CASE \E e \in RegisterPrimitives : b = <<e, 2>>
    <3>1. PICK e \in RegisterPrimitives : b = <<e, 2>>
      BY <2>3
    <3>2. Bucket(es, name, Len(es) + 2) = {x \in RegisterPrimitives : x.name = name}
      BY <1>1 DEF Bucket
    <3>3. c = <<e, Len(es) + 2>> /\ e.name = name
      BY <2>1, <3>1
    <3>4. QED
      BY <1>1, <3>2, <3>3, CandidatesTyped
  <2>4. QED
    BY <2>1, <2>2, <2>3 DEF BuiltinChains
<1>4. QED
  BY <1>2, <1>3 DEF Candidates

LEMMA ScoreRange ==
  ASSUME NEW e \in Entries, NEW ts
  PROVE  MatchScore(e, ts) \in Int /\ MatchScore(e, ts) >= -1
<1> DEFINE n    == Len(e.ins)
           args == TopOf(ts, n)
           var  == {i \in 1..n : e.ins[i] \in TypeVars}
           any  == {i \in 1..n : e.ins[i] = "any"}
           same == {i \in (1..n) \ (var \cup any) : args[i] = e.ins[i]}
           unk  == {i \in (1..n) \ (var \cup any \cup same) : args[i] = UNKNOWN}
           sum  == 80 * Cardinality(var) + 10 * Cardinality(any)
                     + 100 * Cardinality(same) + 50 * Cardinality(unk)
<1>1. n \in Nat
  BY LenProperties DEF Entries
<1>2. /\ Cardinality(var) \in Nat /\ Cardinality(any) \in Nat
      /\ Cardinality(same) \in Nat /\ Cardinality(unk) \in Nat
  BY <1>1, CountsTyped
<1>3. sum \in Nat
  BY <1>2
<1>4. MatchScore(e, ts) = -1 \/ MatchScore(e, ts) = sum
  BY DEF MatchScore
<1> HIDE DEF sum
<1>5. QED
  BY <1>3, <1>4

(* The best entry among those at the first i places, if one matches.       *)
Leads(es, name, ts, i, best) ==
  \/ /\ best.entry = NoEntry /\ best.score = -1
     /\ \A c \in Candidates(es, name) : c[2] <= i => ~(MatchScore(c[1], ts) >= 0)
  \/ \E p \in 1..i :
       /\ <<best.entry, p>> \in Candidates(es, name) /\ best.entry # NoEntry
       /\ best.score = MatchScore(best.entry, ts) /\ best.score >= 0
       /\ \A d \in Candidates(es, name) :
            d[2] <= i /\ MatchScore(d[1], ts) >= 0 => Beats(<<best.entry, p>>, d, ts)

LookupStates == [entry : Entries, score : Int]

LEMMA LookupStep ==
  ASSUME NEW es, Proper(es), NEW name, NEW ts, NEW i \in 1..Len(es) + 2,
         NEW best \in LookupStates, Leads(es, name, ts, i - 1, best),
         NEW m, m = IF Bucket(es, name, i) = {} THEN best
                    ELSE TryEntry(CHOOSE e \in Bucket(es, name, i) : TRUE, ts, best)
  PROVE  m \in LookupStates /\ Leads(es, name, ts, i, m)
<1> DEFINE C == Candidates(es, name)
<1>1. Len(es) \in Nat
  BY LenProperties DEF Proper
<1>2. \A c \in C : c[2] \in 1..Len(es) + 2 /\ c[1] \in Bucket(es, name, c[2]) /\ c = <<c[1], c[2]>>
                   /\ c[1] \in Entries
  BY CandidateIs
<1>3. \A c \in C : c[2] <= i <=> c[2] <= i - 1 \/ c[2] = i
  BY <1>1, <1>2
<1>4. \A p \in 1..i - 1 : p \in 1..i /\ p <= i /\ p \in Int
  OBVIOUS
<1>5. CASE Bucket(es, name, i) = {}
  <2>1. \A c \in C : c[2] <= i <=> c[2] <= i - 1
    BY <1>2, <1>3, <1>5
  <2>2. m = best
    BY <1>5
  <2> HIDE DEF C
  <2>3. Leads(es, name, ts, i, best)
    BY <1>4, <2>1 DEF Leads, C
  <2>4. QED
    BY <2>2, <2>3
<1>6. CASE Bucket(es, name, i) # {}
  <2>1. PICK e : e = CHOOSE x \in Bucket(es, name, i) : TRUE
    OBVIOUS
  <2>2. e \in Bucket(es, name, i)
    BY <1>6, <2>1
  <2>3. e \in Entries /\ e # NoEntry /\ <<e, i>> \in C
    BY <2>2, BucketIs
  <2>4. \A c \in C : c[2] = i => c = <<e, i>>
    BY <1>2, <2>2, BucketIs
  <2>5. PICK score, pr : score = MatchScore(e, ts) /\ pr = Priority(e)
    OBVIOUS
  <2>6. score \in Int /\ score >= -1 /\ pr \in Int
    BY <2>3, <2>5, ScoreRange, ScoreTyped
  <2>7. m = IF \/ score > best.score
               \/ score = best.score /\ best.entry # NoEntry /\ pr > Priority(best.entry)
            THEN Best(e, score) ELSE best
    BY <1>6, <2>1, <2>5 DEF TryEntry
  <2>8. best.score \in Int /\ best.entry \in Entries
    BY DEF LookupStates
  <2>9. \A c \in C : MatchScore(c[1], ts) \in Int /\ Priority(c[1]) \in Int
    BY <1>2, ScoreTyped
  <2>10. CASE /\ best.entry = NoEntry /\ best.score = -1
              /\ \A c \in C : c[2] <= i - 1 => ~(MatchScore(c[1], ts) >= 0)
    <3>1. CASE score > -1
      <4>1. m = Best(e, score) /\ score >= 0
        BY <2>6, <2>7, <2>10, <3>1
      <4>2. m.entry = e /\ m.score = score /\ m \in LookupStates
        BY <2>3, <2>6, <4>1 DEF Best, LookupStates
      <4>3. ASSUME NEW d \in C, d[2] <= i, MatchScore(d[1], ts) >= 0
            PROVE  Beats(<<e, i>>, d, ts)
        <5>1. d = <<e, i>>
          BY <1>3, <2>4, <2>10, <4>3
        <5>2. QED
          BY <5>1 DEF Beats
      <4>4. i \in 1..i
        OBVIOUS
      <4> HIDE DEF C
      <4>5. QED
        BY <2>3, <2>5, <4>1, <4>2, <4>3, <4>4 DEF Leads, C
    <3>2. CASE ~(score > -1)
      <4>1. m = best
        BY <2>6, <2>7, <2>10, <3>2
      <4>2. ASSUME NEW c \in C, c[2] <= i PROVE ~(MatchScore(c[1], ts) >= 0)
        <5>1. CASE c[2] <= i - 1
          BY <2>10, <5>1
        <5>2. CASE c[2] = i
          <6>1. c[1] = e
            BY <2>4, <5>2
          <6>2. QED
            BY <2>5, <2>6, <3>2, <6>1
        <5>3. QED
          BY <1>3, <4>2, <5>1, <5>2
      <4> HIDE DEF C
      <4>3. QED
        BY <2>10, <4>1, <4>2 DEF Leads, C
    <3>3. QED
      BY <3>1, <3>2
  <2>11. CASE \E p \in 1..i - 1 :
                /\ <<best.entry, p>> \in C /\ best.entry # NoEntry
                /\ best.score = MatchScore(best.entry, ts) /\ best.score >= 0
                /\ \A d \in C : d[2] <= i - 1 /\ MatchScore(d[1], ts) >= 0
                                  => Beats(<<best.entry, p>>, d, ts)
    <3>1. PICK p \in 1..i - 1 :
            /\ <<best.entry, p>> \in C /\ best.entry # NoEntry
            /\ best.score = MatchScore(best.entry, ts) /\ best.score >= 0
            /\ \A d \in C : d[2] <= i - 1 /\ MatchScore(d[1], ts) >= 0
                              => Beats(<<best.entry, p>>, d, ts)
      BY <2>11
    <3>2. PICK sb, pb : sb = best.score /\ pb = Priority(best.entry)
      OBVIOUS
    <3>3. sb \in Int /\ pb \in Int /\ sb >= 0 /\ sb = MatchScore(best.entry, ts)
      BY <2>8, <3>1, <3>2, ScoreTyped
    <3>4. p \in Int /\ p < i /\ p \in 1..i /\ i \in Int
      BY <1>4
    <3>5. CASE score > sb \/ (score = sb /\ pr > pb)
      <4>1. m = Best(e, score) /\ score >= 0
        BY <2>6, <2>7, <3>1, <3>2, <3>3, <3>5
      <4>2. m.entry = e /\ m.score = score /\ m \in LookupStates
        BY <2>3, <2>6, <4>1 DEF Best, LookupStates
      <4>3. ASSUME NEW d \in C, d[2] <= i, MatchScore(d[1], ts) >= 0
            PROVE  Beats(<<e, i>>, d, ts)
        <5>1. CASE d[2] = i
          <6>1. d = <<e, i>>
            BY <2>4, <5>1
          <6>2. QED
            BY <6>1 DEF Beats
        <5>2. CASE d[2] <= i - 1
          <6>1. Beats(<<best.entry, p>>, d, ts)
            BY <3>1, <4>3, <5>2
          <6>2. PICK sd, pd : sd = MatchScore(d[1], ts) /\ pd = Priority(d[1])
            OBVIOUS
          <6>3. sd \in Int /\ pd \in Int
            BY <2>9, <6>2
          <6>4. sb > sd \/ (sb = sd /\ pb >= pd)
            BY <3>2, <3>3, <6>1, <6>2, <6>3 DEF Beats
          <6>5. score > sd \/ (score = sd /\ pr > pd)
            BY <2>6, <3>3, <3>5, <6>3, <6>4
          <6>6. QED
            BY <2>5, <6>2, <6>5 DEF Beats
        <5>3. QED
          BY <1>3, <4>3, <5>1, <5>2
      <4>4. i \in 1..i
        OBVIOUS
      <4> HIDE DEF C
      <4>5. QED
        BY <2>3, <2>5, <4>1, <4>2, <4>3, <4>4 DEF Leads, C
    <3>6. CASE ~(score > sb \/ (score = sb /\ pr > pb))
      <4>1. m = best
        BY <2>7, <3>2, <3>6
      <4>2. ASSUME NEW d \in C, d[2] <= i, MatchScore(d[1], ts) >= 0
            PROVE  Beats(<<best.entry, p>>, d, ts)
        <5>1. CASE d[2] = i
          <6>1. d = <<e, i>>
            BY <2>4, <5>1
          <6>2. sb > score \/ (sb = score /\ pb > pr) \/ (sb = score /\ pb = pr /\ p <= i)
            BY <2>6, <3>3, <3>4, <3>6
          <6>3. QED
            BY <2>5, <3>2, <3>3, <6>1, <6>2 DEF Beats
        <5>2. CASE d[2] <= i - 1
          BY <3>1, <4>2, <5>2
        <5>3. QED
          BY <1>3, <4>2, <5>1, <5>2
      <4> HIDE DEF C
      <4>3. QED
        BY <3>1, <3>4, <4>1, <4>2 DEF Leads, C
    <3>7. QED
      BY <3>5, <3>6
  <2>12. QED
    BY <2>10, <2>11 DEF Leads
<1>7. QED
  BY <1>5, <1>6

TryPlace(es, name, ts, i, x) ==
  IF Bucket(es, name, i) = {} THEN x
  ELSE TryEntry(CHOOSE e \in Bucket(es, name, i) : TRUE, ts, x)

LEMMA LookupRunIs ==
  ASSUME NEW es, Proper(es), NEW name, NEW ts
  PROVE  \A i \in 0..Len(es) + 2 : /\ LookupRun(es, name, ts)[i] \in LookupStates
                                   /\ Leads(es, name, ts, i, LookupRun(es, name, ts)[i])
<1> DEFINE n == Len(es) + 2
           S == LookupStates
           G == [q \in (1..n) \X S |-> TryPlace(es, name, ts, q[1], q[2])]
           K == {q \in (0..n) \X S : Leads(es, name, ts, q[1], q[2])}
           a == Best(NoEntry, -1)
<1>1. n \in Nat
  BY LenProperties DEF Proper
<1>2. \A i \in 1..n : \A x \in S : G[<<i, x>>] = TryPlace(es, name, ts, i, x)
  OBVIOUS
<1>3. ASSUME NEW i \in 1..n, NEW x \in S, Leads(es, name, ts, i - 1, x)
      PROVE  /\ TryPlace(es, name, ts, i, x) \in S
             /\ Leads(es, name, ts, i, TryPlace(es, name, ts, i, x))
  <2>1. PICK m : m = TryPlace(es, name, ts, i, x)
    OBVIOUS
  <2>2. m = IF Bucket(es, name, i) = {} THEN x
            ELSE TryEntry(CHOOSE e \in Bucket(es, name, i) : TRUE, ts, x)
    BY <2>1 DEF TryPlace
  <2>3. m \in LookupStates /\ Leads(es, name, ts, i, m)
    BY <1>3, <2>2, LookupStep
  <2>4. QED
    BY <2>1, <2>3
<1>4. a \in S /\ Leads(es, name, ts, 0, a)
  <2>1. a \in S /\ a.entry = NoEntry /\ a.score = -1
    BY NoEntryTyped DEF Best, LookupStates
  <2>2. ASSUME NEW c \in Candidates(es, name) PROVE ~(c[2] <= 0)
    <3>1. c[2] \in 1..n
      BY CandidateIs
    <3>2. QED
      BY <1>1, <3>1
  <2>3. QED
    BY <2>1, <2>2 DEF Leads
<1>5. \A i \in 1..n : \A x \in S : G[<<i, x>>] \in S
  <2> TAKE i \in 1..n
  <2> TAKE x \in S
  <2>1. G[<<i, x>>] = TryPlace(es, name, ts, i, x)
    BY <1>2
  <2>2. CASE Bucket(es, name, i) = {}
    BY <2>1, <2>2 DEF TryPlace
  <2>3. CASE Bucket(es, name, i) # {}
    <3>1. PICK e : e = CHOOSE y \in Bucket(es, name, i) : TRUE
      OBVIOUS
    <3>2. e \in Entries
      BY <2>3, <3>1, BucketIs
    <3>3. TryEntry(e, ts, x) \in S
      BY <3>2, ScoreRange DEF TryEntry, Best, LookupStates
    <3>4. QED
      BY <2>1, <2>3, <3>1, <3>3 DEF TryPlace
  <2>4. QED
    BY <2>2, <2>3
<1>6. \A i \in 1..n : \A x \in S : <<i - 1, x>> \in K => <<i, G[<<i, x>>]>> \in K
  <2> TAKE i \in 1..n
  <2> TAKE x \in S
  <2>1. HAVE <<i - 1, x>> \in K
  <2>2. G[<<i, x>>] = TryPlace(es, name, ts, i, x) /\ i \in 0..n
    BY <1>1, <1>2
  <2>3. Leads(es, name, ts, i - 1, x)
    BY <2>1
  <2>4. PICK m : m = TryPlace(es, name, ts, i, x)
    OBVIOUS
  <2>5. m \in S /\ Leads(es, name, ts, i, m)
    BY <1>3, <2>3, <2>4
  <2>6. QED
    BY <2>2, <2>4, <2>5
<1>7. <<0, a>> \in K
  <2> HIDE DEF a
  <2>1. 0 \in 0..n
    BY <1>1
  <2>2. QED
    BY <1>4, <2>1
<1>8. LoopTable(n, S, a, G)
  BY <1>1, <1>4, <1>5 DEF LoopTable
<1> DEFINE run == LookupRun(es, name, ts)
<1>9. PICK g : Looped(n, a, G, g)
  BY <1>8, LoopRuns
<1>10. Kept(n, S, a, G, K)
  BY <1>6, <1>7 DEF Kept
<1>11. g = [i \in 0..n |-> IF i = 0 THEN a ELSE TryPlace(es, name, ts, i, g[i - 1])]
  <2>1. \A i \in 0..n : g[i] \in S
    <3> HIDE DEF n, S, a, G, K
    <3>1. Iterates(n, S, a, G, g)
      BY <1>1, <1>9, LoopedIterates
    <3>2. Throughout(n, S, g, K)
      BY <1>8, <1>10, <3>1, LoopKeeps
    <3>3. QED
      BY <3>2 DEF Throughout
  <2>2. g = [i \in 0..n |-> IF i = 0 THEN a ELSE G[<<i, g[i - 1]>>]]
    BY <1>9 DEF Looped
  <2>3. ASSUME NEW i \in 0..n, i # 0
        PROVE  G[<<i, g[i - 1]>>] = TryPlace(es, name, ts, i, g[i - 1])
    <3>1. i \in 1..n /\ i - 1 \in 0..n
      BY <1>1, <2>3
    <3>2. g[i - 1] \in S
      BY <2>1, <3>1
    <3>3. QED
      BY <3>1, <3>2
  <2> HIDE DEF a, G
  <2>4. QED
    BY <2>2, <2>3
<1>12. run = [i \in 0..n |-> IF i = 0 THEN a ELSE TryPlace(es, name, ts, i, run[i - 1])]
  BY <1>11 DEF LookupRun, TryPlace
<1> HIDE DEF run
<1>13. Iterates(n, S, a, G, run)
  <2>1. run[0] = a
    BY <1>1, <1>12
  <2>2. ASSUME NEW i \in 1..n, run[i - 1] \in S
        PROVE  run[i] = G[<<i, run[i - 1]>>]
    <3>1. i \in 0..n /\ i # 0
      BY <1>1
    <3>2. run[i] = TryPlace(es, name, ts, i, run[i - 1])
      BY <1>12, <3>1
    <3>3. QED
      BY <2>2, <3>2
  <2>3. QED
    BY <2>1, <2>2 DEF Iterates
<1>14. Throughout(n, S, run, K)
  <2> HIDE DEF n, S, a, G, K
  <2>1. QED
    BY <1>8, <1>10, <1>13, LoopKeeps
<1>15. QED
  BY <1>14 DEF run, Throughout

(* dict_lookup_typed keeps the entry that beats all others, or none.       *)
THEOREM LookupIsLoop ==
  ASSUME NEW es, Proper(es), NEW name, NEW ts
  PROVE  DictLookupTyped(es, name, ts) = LookupLoop(es, name, ts)
<1>1. PICK n, best : n = Len(es) + 2 /\ best = LookupRun(es, name, ts)[n]
  OBVIOUS
<1>2. n \in Nat /\ n \in 0..Len(es) + 2 /\ es \in Seq(Entries)
  BY <1>1, LenProperties DEF Proper
<1>3. Leads(es, name, ts, n, best)
  BY <1>1, <1>2, LookupRunIs
<1>4. LookupLoop(es, name, ts) = best.entry
  BY <1>1 DEF LookupLoop
<1>5. \A c \in Candidates(es, name) : c[2] <= n
  <2> TAKE c \in Candidates(es, name)
  <2>1. c[2] \in 1..n
    BY <1>1, CandidateIs
  <2>2. QED
    BY <1>2, <2>1
<1>6. CASE /\ best.entry = NoEntry
           /\ \A c \in Candidates(es, name) : ~(MatchScore(c[1], ts) >= 0)
  <2>1. \A c : ~Wins(es, name, ts, c)
    BY <1>6 DEF Wins
  <2>2. DictLookupTyped(es, name, ts) = NoEntry
    BY <2>1, LookupTypedWins
  <2>3. QED
    BY <1>4, <1>6, <2>2
<1>7. CASE \E p \in 1..n :
             /\ <<best.entry, p>> \in Candidates(es, name)
             /\ best.score = MatchScore(best.entry, ts) /\ best.score >= 0
             /\ \A d \in Candidates(es, name) :
                  MatchScore(d[1], ts) >= 0 => Beats(<<best.entry, p>>, d, ts)
  <2>1. PICK p \in 1..n :
             /\ <<best.entry, p>> \in Candidates(es, name)
             /\ best.score = MatchScore(best.entry, ts) /\ best.score >= 0
             /\ \A d \in Candidates(es, name) :
                  MatchScore(d[1], ts) >= 0 => Beats(<<best.entry, p>>, d, ts)
    BY <1>7
  <2>2. PICK b : b = <<best.entry, p>>
    OBVIOUS
  <2>3. b[1] = best.entry /\ b[2] = p
    BY <2>2
  <2>4. Wins(es, name, ts, b)
    BY <2>1, <2>2, <2>3 DEF Wins
  <2>5. PICK c : Wins(es, name, ts, c) /\ DictLookupTyped(es, name, ts) = c[1]
    BY <2>4, LookupTypedWins
  <2>6. /\ b \in Candidates(es, name) /\ c \in Candidates(es, name)
        /\ Beats(b, c, ts) /\ Beats(c, b, ts)
    BY <2>4, <2>5 DEF Wins
  <2>7. /\ b[1] \in Bucket(es, name, b[2]) /\ c[1] \in Bucket(es, name, c[2])
        /\ b[2] \in 1..Len(es) + 2 /\ c[2] \in 1..Len(es) + 2 /\ b[1] \in Entries /\ c[1] \in Entries
    BY <2>6, CandidateIs
  <2>8. /\ MatchScore(b[1], ts) \in Int /\ MatchScore(c[1], ts) \in Int
        /\ Priority(b[1]) \in Int /\ Priority(c[1]) \in Int
    BY <2>7, ScoreTyped
  <2>9. b[2] = c[2]
    BY <1>1, <1>2, <2>6, <2>7, <2>8 DEF Beats
  <2>10. b[1] = c[1]
    BY <2>7, <2>9, BucketIs
  <2>11. QED
    BY <1>4, <2>3, <2>5, <2>10
<1>8. QED
  BY <1>3, <1>5, <1>6, <1>7 DEF Leads

(* match_score and apply_signature walk the inputs from opposite ends: one *)
(* binds a variable to the lowest of its values, the other to the topmost. *)
(* Where all types are known the second accepts whatever the first has     *)
(* scored, so its error behind a typed lookup is for UNKNOWN values.       *)
THEOREM ScoredCanBeApplied ==
  ASSUME NEW sig, sig.ins \in Seq(Types), NEW ts \in Seq(Types),
         \A i \in 1..Len(ts) : ts[i] # UNKNOWN,
         MatchScore(sig, ts) >= 0
  PROVE  SignatureApplies(sig, ts)
<1> DEFINE n    == Len(sig.ins)
           args == TopOf(ts, n)
           var  == {i \in 1..n : sig.ins[i] \in TypeVars}
           any  == {i \in 1..n : sig.ins[i] = "any"}
           same == {i \in (1..n) \ (var \cup any) : args[i] = sig.ins[i]}
           unk  == {i \in (1..n) \ (var \cup any \cup same) : args[i] = UNKNOWN}
<1>1. /\ Len(ts) >= n
      /\ var \cup any \cup same \cup unk = 1..n
      /\ \A i, j \in var : ~(/\ i < j /\ sig.ins[i] = sig.ins[j]
                            /\ args[i] # UNKNOWN /\ args[i] # args[j])
  <2>1. n \in Nat /\ Len(ts) \in Nat
    BY LenProperties
  <2>2. ~(-1 >= 0)
    OBVIOUS
  <2>3. QED
    BY <2>1, <2>2 DEF MatchScore
<1>2. n \in 0..Len(ts) /\ Len(ts) \in Nat
  BY <1>1, LenProperties
<1>3. \A i \in 1..n : args[i] = ts[Len(ts) - n + i] /\ args[i] # UNKNOWN
  <2>1. \A i \in 1..n : args[i] = ts[Len(ts) - n + i]
    BY <1>2, TopOfTyped
  <2>2. \A i \in 1..n : Len(ts) - n + i \in 1..Len(ts)
    BY <1>2
  <2>3. QED
    BY <2>1, <2>2
<1>4. unk = {}
  BY <1>3
<1>5. ASSUME NEW i \in 1..n PROVE Accepts(sig.ins[i], args[i])
  <2>1. i \in var \/ i \in any \/ i \in same
    BY <1>1, <1>4
  <2>2. QED
    BY <2>1 DEF Accepts
<1>6. ASSUME NEW i \in 1..n, NEW j \in 1..n, j < i, sig.ins[i] \in TypeVars,
             sig.ins[i] = sig.ins[j], args[i] # UNKNOWN
      PROVE  args[i] = args[j]
  <2>1. i \in var /\ j \in var
    BY <1>6
  <2>2. args[j] # UNKNOWN
    BY <1>3
  <2>3. QED
    BY <1>1, <1>6, <2>1, <2>2
<1>7. QED
  BY <1>1, <1>5, <1>6 DEF SignatureApplies

-----------------------------------------------------------------------------
(* The four properties, of every reachable input: they are what the        *)
(* theorems above say once the signatures and the stack are known to       *)
(* consist of types.                                                       *)

InputsTyped == newer \in Sigs /\ older \in Sigs /\ below \in Seq(Types)

LEMMA GrownSig ==
  ASSUME NEW sig \in Sigs, NEW t \in Types
  PROVE  Sig(Append(sig.ins, t), sig.outs) \in Sigs
BY AppendProperties DEF Sigs, Sig

LEMMA InputsKeepTypes == Inputs => []InputsTyped
<1>1. StartInputs => InputsTyped
  <2>1. Sig(<<>>, <<"a", "b">>) \in Sigs /\ Sig(<<>>, <<>>) \in Sigs
    BY DEF Sig, Sigs, Types, TypeVars
  <2>2. QED
    BY <2>1 DEF StartInputs, InputsTyped
<1>2. InputsTyped /\ [GrowInputs]_inputs => InputsTyped'
  <2> SUFFICES ASSUME InputsTyped, [GrowInputs]_inputs PROVE InputsTyped'
    OBVIOUS
  <2>1. newer \in Sigs /\ older \in Sigs /\ below \in Seq(Types)
    BY DEF InputsTyped
  <2>2. SigTypes \subseteq Types /\ StackTypes \subseteq Types
    BY InputsAssumption
  <2>3. CASE GrowNewer
    BY <2>1, <2>2, <2>3, GrownSig DEF GrowNewer, InputsTyped
  <2>4. CASE GrowOlder
    BY <2>1, <2>2, <2>4, GrownSig DEF GrowOlder, InputsTyped
  <2>5. CASE GrowStack
    <3>1. PICK t \in StackTypes : below' = Append(below, t)
      BY <2>5 DEF GrowStack
    <3>2. below' \in Seq(Types)
      BY <2>1, <2>2, <3>1, AppendProperties
    <3>3. QED
      BY <2>1, <2>5, <3>2 DEF GrowStack, InputsTyped
  <2>6. CASE UNCHANGED inputs
    BY <2>1, <2>6 DEF inputs, InputsTyped
  <2>7. QED
    BY <2>3, <2>4, <2>5, <2>6 DEF GrowInputs
<1>3. QED
  BY <1>1, <1>2, PTL DEF Inputs

(* match_score gives the score, or the refusal, of the declarative form.   *)
THEOREM ScoresAgree == Inputs => []ScoreMatchesLoop
<1>1. InputsTyped => ScoreMatchesLoop
  BY ScoreIsLoop DEF InputsTyped, ScoreMatchesLoop, Sigs
<1>2. QED
  BY <1>1, InputsKeepTypes, PTL

(* apply_signature accepts and returns what the declarative form does.     *)
THEOREM ApplicationsAgree == Inputs => []ApplyMatchesLoop
<1>1. InputsTyped => ApplyMatchesLoop
  BY ApplyIsLoop DEF InputsTyped, ApplyMatchesLoop, Sigs
<1>2. QED
  BY <1>1, InputsKeepTypes, PTL

(* Overload resolution keeps the entry the loop keeps, also among those    *)
(* that are registered at start-up.                                        *)
THEOREM LookupsAgree == Inputs => []LookupMatchesLoop
<1>1. InputsTyped => LookupMatchesLoop
  <2> SUFFICES ASSUME InputsTyped, NEW name \in WordNames
               PROVE  LET es == <<Entry(name, newer, "word", NoName, NoName, 2),
                                  Entry(name, older, "word", NoName, NoName, 1)>>
                      IN  DictLookupTyped(es, name, below) = LookupLoop(es, name, below)
    BY DEF LookupMatchesLoop
  <2>1. PICK d, e : /\ d = Entry(name, newer, "word", NoName, NoName, 2)
                    /\ e = Entry(name, older, "word", NoName, NoName, 1)
    OBVIOUS
  <2>2. d \in Entries /\ e \in Entries
    <3>1. name \in STRING /\ NoName \in STRING /\ newer \in Sigs /\ older \in Sigs
      BY InputsAssumption, SpellingAssumption DEF InputsTyped
    <3>2. QED
      BY <2>1, <3>1, EntryTyped
  <2>3. d # NoEntry /\ e # NoEntry
    <3>1. d.kind = "word" /\ e.kind = "word" /\ NoEntry.kind = "none"
      BY <2>1 DEF Entry, NoEntry
    <3>2. QED
      BY <3>1
  <2>4. Proper(<<d, e>>)
    BY <2>2, <2>3 DEF Proper
  <2>5. DictLookupTyped(<<d, e>>, name, below) = LookupLoop(<<d, e>>, name, below)
    BY <2>4, LookupIsLoop
  <2>6. QED
    BY <2>1, <2>5
<1>2. QED
  BY <1>1, InputsKeepTypes, PTL

(* An overload that is selected for known types can be applied to them:    *)
(* the two walks, in opposite directions, agree about them.                *)
THEOREM SelectionsApply == Inputs => []SelectedApplies
<1>1. InputsTyped => SelectedApplies
  BY ScoredCanBeApplied DEF InputsTyped, SelectedApplies, Known, Sigs
<1>2. QED
  BY <1>1, InputsKeepTypes, PTL
=============================================================================
