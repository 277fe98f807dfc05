---------------------------- MODULE CompilerProofs ----------------------------
(***************************************************************************)
(* Theorems about module Compiler, for every source file and every limit:  *)
(* first what the operators of modules Code and Dictionary return, for     *)
(* every table, dictionary and type stack; then the types of the variables *)
(* and the invariant behind them; last that the fixed-size arrays of the   *)
(* compiler are never overrun.                                             *)
(***************************************************************************)
EXTENDS Compiler, FiniteSetTheorems, SequenceTheorems, WellFoundedInduction, TLAPS

LEMMA CellsTyped ==
  ASSUME NoName \in STRING
  PROVE  /\ \A s \in STRING : Xt(s) \in Cells
         /\ \A n \in Int : Lit(n) \in Cells
         /\ Exit \in Cells
<1>1. ASSUME NEW s \in STRING PROVE Xt(s) \in Cells
  BY DEF Xt, Cells
<1>2. ASSUME NEW n \in Int PROVE Lit(n) \in Cells
  BY DEF Lit, Cells
<1>3. Exit \in Cells
  BY DEF Exit, Cells
<1>4. QED
  BY <1>1, <1>2, <1>3

LEMMA ItemsTyped ==
  ASSUME NoName \in STRING
  PROVE  /\ \A s \in STRING : Prim(s) \in Items
         /\ \A n \in Int : InlineLit(n) \in Items
         /\ \A k \in Kinds : \A n \in Nat : Ref(k, n) \in Items
<1>1. ASSUME NEW s \in STRING PROVE Prim(s) \in Items
  BY DEF Prim, Items
<1>2. ASSUME NEW n \in Int PROVE InlineLit(n) \in Items
  BY DEF InlineLit, Items
<1>3. ASSUME NEW k \in Kinds, NEW n \in Nat PROVE Ref(k, n) \in Items
  BY DEF Ref, Items, Kinds, BLOB_WORD, BLOB_QUOTATION, BLOB_DATA
<1>4. QED
  BY <1>1, <1>2, <1>3

LEMMA KindsTyped ==
  /\ BLOB_WORD \in Kinds /\ BLOB_QUOTATION \in Kinds
  /\ BLOB_STRING \in Kinds /\ BLOB_DATA \in Kinds
BY DEF Kinds, BLOB_WORD, BLOB_QUOTATION, BLOB_STRING, BLOB_DATA

LEMMA DataTyped ==
  ASSUME NoName \in STRING
  PROVE  /\ \A n \in Int : LitData(n) \in Data
         /\ \A s \in STRING : StrData(s) \in Data
         /\ \A c \in Seq(Items) : CodeData(c) \in Data
<1>1. <<>> \in Seq(Items)
  BY EmptySeq
<1>2. ASSUME NEW n \in Int PROVE LitData(n) \in Data
  BY <1>1 DEF LitData, Data
<1>3. ASSUME NEW s \in STRING PROVE StrData(s) \in Data
  BY <1>1 DEF StrData, Data
<1>4. ASSUME NEW c \in Seq(Items) PROVE CodeData(c) \in Data
  BY DEF CodeData, Data
<1>5. QED
  BY <1>2, <1>3, <1>4

-----------------------------------------------------------------------------
(* After db_store_blob the row the returned CID names exists and holds the *)
(* bytes; every row that was there is still there, unchanged.              *)
LEMMA StoreBlobTyped ==
  ASSUME NEW rows \in Seq(Rows), NEW kind \in Kinds, NEW data \in Data
  PROVE  /\ StoreBlob(rows, kind, data) \in Seq(Rows)
         /\ Len(StoreBlob(rows, kind, data)) >= Len(rows)
         /\ \A i \in 1..Len(rows) : StoreBlob(rows, kind, data)[i] = rows[i]
         /\ CidOf(rows, data) \in 1..Len(StoreBlob(rows, kind, data))
         /\ SameBytes(StoreBlob(rows, kind, data)[CidOf(rows, data)].data, data)
<1> DEFINE row == [kind |-> kind, data |-> data]
<1>1. row \in Rows /\ SameBytes(row.data, data)
  BY DEF Rows, SameBytes
<1> HIDE DEF row
<1>2. CASE HoldersOf(rows, data) # {}
  <2>1. CidOf(rows, data) \in HoldersOf(rows, data)
    BY <1>2 DEF CidOf
  <2>2. QED
    BY <1>2, <2>1 DEF StoreBlob, HoldersOf
<1>3. CASE HoldersOf(rows, data) = {}
  <2>1. StoreBlob(rows, kind, data) = Append(rows, row) /\ CidOf(rows, data) = Len(rows) + 1
    BY <1>3 DEF StoreBlob, CidOf, row
  <2>2. /\ Append(rows, row) \in Seq(Rows)
        /\ Len(Append(rows, row)) = Len(rows) + 1
        /\ \A i \in 1..Len(rows) : Append(rows, row)[i] = rows[i]
        /\ Append(rows, row)[Len(rows) + 1] = row
    BY <1>1, AppendProperties
  <2>3. Len(rows) \in Nat
    BY LenProperties
  <2>4. QED
    BY <1>1, <2>1, <2>2, <2>3
<1>4. QED
  BY <1>2, <1>3

-----------------------------------------------------------------------------
(* A table that grows keeps the references into it valid.                  *)
LEMMA RefsBelowGrows ==
  ASSUME NEW code, NEW m \in Nat, NEW n \in Nat, m <= n, RefsBelow(code, m)
  PROVE  RefsBelow(code, n)
BY DEF RefsBelow

LEMMA RefsBelowConcat ==
  ASSUME NEW c \in Seq(Items), NEW d \in Seq(Items), NEW n \in Nat,
         RefsBelow(c, n), RefsBelow(d, n)
  PROVE  RefsBelow(c \o d, n)
BY ConcatProperties DEF RefsBelow

LEMMA RefsBelowItem ==
  ASSUME NEW n \in Nat
  PROVE  /\ RefsBelow(<<>>, n)
         /\ \A s : RefsBelow(<<Prim(s)>>, n)
         /\ \A v : RefsBelow(<<InlineLit(v)>>, n)
         /\ \A k : \A i \in 1..n : RefsBelow(<<Ref(k, i)>>, n)
<1>1. RefsBelow(<<>>, n)
  BY DEF RefsBelow
<1>2. ASSUME NEW s PROVE RefsBelow(<<Prim(s)>>, n)
  BY DEF RefsBelow, Prim
<1>3. ASSUME NEW v PROVE RefsBelow(<<InlineLit(v)>>, n)
  BY DEF RefsBelow, InlineLit
<1>4. ASSUME NEW k, NEW i \in 1..n PROVE RefsBelow(<<Ref(k, i)>>, n)
  BY DEF RefsBelow, Ref
<1>5. QED
  BY <1>1, <1>2, <1>3, <1>4

-----------------------------------------------------------------------------
(* A candidate of the dictionary proper, and one registered at start-up. *)
UserEntry(es, e) == \E i \in 1..Len(es) : e = es[i]
BuiltinEntry(e)    == \E b \in BuiltinChains : e = b[1]

-----------------------------------------------------------------------------
(* A nonempty set of numbers has a least element.                          *)
LEMMA SmallestElement ==
  ASSUME NEW S, S \subseteq Nat, S # {}
  PROVE  \E m \in S : \A k \in S : m <= k
<1>1. PICK m \in S : \A k \in S : <<k, m>> \notin OpToRel(<, Nat)
  BY NatLessThanWellFounded, WFMin
<1>2. \A k \in S : ~(k < m)
  BY <1>1 DEF OpToRel
<1>3. QED
  BY <1>2

(* A signature made of known types, and the entry made from it.            *)
LEMMA EntryTyped ==
  ASSUME NEW name \in STRING, NEW sig \in Sigs,
         NEW kind \in {"none", "prim", "imm", "word"},
         NEW addr \in STRING, NEW prim \in STRING, NEW def \in Nat
  PROVE  Entry(name, sig, kind, addr, prim, def) \in Entries
BY DEF Entry, Entries, Sigs

LEMMA NoEntryTyped == NoEntry \in Entries
<1>1. Sig(<<>>, <<>>) \in Sigs
  BY DEF Sig, Sigs
<1>2. QED
  BY <1>1, EntryTyped, SpellingAssumption DEF NoEntry

LEMMA PlaceholderTyped == PlaceholderSig \in Sigs
BY DEF PlaceholderSig, Sig, Sigs, Types, UNKNOWN

(* The stack words take one, two or three values.                          *)
LEMMA StackSigTyped ==
  /\ StackSig \in [StackWords -> Sigs]
  /\ \A n \in {"drop", "dup"}  : Len(StackSig[n].ins) = 1
  /\ \A n \in {"swap", "over"} : Len(StackSig[n].ins) = 2
  /\ Len(StackSig["rot"].ins) = 3
<1>1. {"a", "b", "c"} \subseteq Types
  BY DEF Types, TypeVars
<1>2. \A t, u, v \in Types : /\ <<>> \in Seq(Types) /\ <<t>> \in Seq(Types)
                             /\ <<t, u>> \in Seq(Types) /\ <<t, u, v>> \in Seq(Types)
  OBVIOUS
<1>3. ASSUME NEW n \in StackWords PROVE StackSig[n] \in Sigs
  BY <1>1, <1>2 DEF StackSig, StackWords, Sig, Sigs
<1>4. QED
  BY <1>3 DEF StackSig, StackWords, Sig

(* Every primitive has a name and a signature made of known types.         *)
LEMMA PrimGroupsTyped ==
  \A g \in PrimGroups : g.names \subseteq STRING /\ g.sig \in Sigs
<1>1. {"i64", "bool", "ptr", "a", "b", "array", "array!", "str"} \subseteq Types
  BY DEF Types, TypeVars, ConcreteTypes
<1>3. Sig(<<>>, <<>>) \in Sigs
  BY DEF Sig, Sigs
<1>2. ASSUME NEW t \in Types
      PROVE  /\ Sig(<<>>, <<t>>) \in Sigs
             /\ Sig(<<t>>, <<>>) \in Sigs      
             /\ \A u \in Types : 
                /\ Sig(<<t>>, <<u>>) \in Sigs
                /\ Sig(<<t, u>>, <<>>) \in Sigs   /\ Sig(<<>>, <<t, u>>) \in Sigs
                /\ \A v \in Types : Sig(<<t, u>>, <<v>>) \in Sigs /\ \A w \in Types : Sig(<<t, u, v>>, <<w>>) \in Sigs
  BY DEF Sig, Sigs
<1>6. /\ Sig(I64x2, <<"i64">>) \in Sigs /\ Sig(I64x2, <<"bool">>) \in Sigs
      /\ Sig(<<"i64">>, <<"i64">>) \in Sigs /\ Sig(<<"i64">>, <<"bool">>) \in Sigs
      /\ Sig(<<"bool", "bool">>, <<"bool">>) \in Sigs /\ Sig(<<"bool">>, <<"bool">>) \in Sigs
      /\ Sig(<<"ptr">>, <<"i64">>) \in Sigs /\ Sig(<<"i64", "ptr">>, <<>>) \in Sigs
      /\ Sig(<<"a">>, <<>>) \in Sigs /\ Sig(<<"a">>, <<"a">>) \in Sigs
      /\ Sig(<<>>, <<"a">>) \in Sigs
      /\ Sig(<<"a", "b">>, <<>>) \in Sigs /\ Sig(<<>>, <<"a", "b">>) \in Sigs
      /\ Sig(<<"i64">>, <<>>) \in Sigs /\ Sig(<<>>, <<"i64">>) \in Sigs
      /\ Sig(<<"i64">>, <<"ptr">>) \in Sigs
  BY <1>1, <1>2 DEF I64x2
<1>7.      /\ Sig(<<"ptr", "ptr", "i64">>, <<"ptr">>) \in Sigs
      /\ Sig(<<"array">>, <<"i64">>) \in Sigs /\ Sig(<<"str">>, <<"i64">>) \in Sigs
      /\ Sig(<<"array">>, <<"array!">>) \in Sigs
      /\ Sig(<<"array", "i64">>, <<"i64">>) \in Sigs
      /\ Sig(<<"array!", "i64", "i64">>, <<"array!">>) \in Sigs
      /\ Sig(<<"array!", "i64">>, <<"array!">>) \in Sigs
      /\ Sig(<<"array!">>, <<"array!">>) \in Sigs
      /\ Sig(<<"array", "array">>, <<"array">>) \in Sigs
      /\ Sig(<<"i64", "i64", "i64">>, <<"i64">>) \in Sigs
  BY <1>1, <1>2 DEF I64x2
<1>8. \A g \in ArithmeticGroups : g.sig \in Sigs
  BY <1>3, <1>6, <1>7 DEF ArithmeticGroups
<1>9. \A g \in MemoryGroups : g.sig \in Sigs
  BY <1>3, <1>6, <1>7 DEF MemoryGroups
<1>10. \A g \in ReturnStackGroups : g.sig \in Sigs
  BY <1>3, <1>6, <1>7 DEF ReturnStackGroups
<1>11. \A g \in {[names |-> {n}, sig |-> StackSig[n]] : n \in StackWords} : g.sig \in Sigs
  BY StackSigTyped
<1>12. QED
  BY <1>8, <1>9, <1>10, <1>11, SpellingAssumption DEF PrimGroups

LEMMA PrimitivesTyped ==
  \A e \in RegisterPrimitives : e \in Entries /\ e.kind = "prim"
<1>1. ASSUME NEW g \in PrimGroups, NEW n \in g.names
      PROVE  LET e == Entry(n, g.sig, "prim", n, n, 0) IN e \in Entries /\ e.kind = "prim"
  <2>1. n \in STRING /\ g.sig \in Sigs
    BY PrimGroupsTyped
  <2>2. QED
    BY <2>1, EntryTyped DEF Entry
<1>2. QED
  BY <1>1 DEF RegisterPrimitives

LEMMA ImmediatesTyped ==
  \A e \in ImmediateEntries :
    /\ e \in Entries /\ e.kind = "imm"
    /\ e.name \in StackWords => e.ins = StackSig[e.name].ins
<1>1. /\ Sig(<<>>, <<>>) \in Sigs /\ Sig(<<>>, <<"i64">>) \in Sigs
      /\ Sig(<<"i64">>, <<>>) \in Sigs
  BY DEF Sig, Sigs, Types, ConcreteTypes
<1>2. ASSUME NEW n, NEW sig \in Sigs, NEW prim \in STRING,
             Entry(n, sig, "imm", NoName, prim, 0) \in ImmediateEntries
      PROVE  LET e == Entry(n, sig, "imm", NoName, prim, 0) IN
             e \in Entries /\ e.kind = "imm" /\ e.name = n /\ e.ins = sig.ins
  <2>1. n \in STRING
    BY <1>2, SpellingAssumption DEF Entry
  <2>2. QED
    BY <2>1, EntryTyped, SpellingAssumption DEF Entry
<1>3. ASSUME NEW n \in StackWords, Entry(n, StackSig[n], "imm", NoName, n, 0) \in ImmediateEntries
      PROVE  LET e == Entry(n, StackSig[n], "imm", NoName, n, 0) IN
             e \in Entries /\ e.kind = "imm" /\ e.name = n /\ e.ins = StackSig[n].ins
  <2>1. n \in STRING
    BY <1>3, SpellingAssumption DEF Entry
  <2>2. StackSig[n] \in Sigs
    BY StackSigTyped
  <2>3. QED
    BY <2>1, <2>2, <1>2, <1>3
<1>4. {"if", "true", "false", "times"} \cap StackWords = {}
  BY DEF StackWords
<1>5. TAKE e \in ImmediateEntries
<1>6. CASE \E n \in StackWords : e = Entry(n, StackSig[n], "imm", NoName, n, 0)
  <2>1. PICK n \in StackWords : e = Entry(n, StackSig[n], "imm", NoName, n, 0)
    BY <1>6
  <2>2. e \in Entries /\ e.kind = "imm" /\ e.name = n /\ e.ins = StackSig[n].ins
    BY <1>3, <2>1
  <2>3. QED
    BY <2>2
<1>7. CASE \E n \in {"if", "true", "false", "times"}, sig \in Sigs :
             e = Entry(n, sig, "imm", NoName, NoName, 0)
  <2>1. PICK n \in {"if", "true", "false", "times"}, sig \in Sigs :
          e = Entry(n, sig, "imm", NoName, NoName, 0)
    BY <1>7
  <2>2. e \in Entries /\ e.kind = "imm" /\ e.name = n
    BY <1>2, <2>1, SpellingAssumption
  <2>3. QED
    BY <1>4, <2>2
<1>8. QED
  BY <1>1, <1>6, <1>7 DEF ImmediateEntries

LEMMA BuiltinsTyped ==
  \A b \in BuiltinChains :
    /\ b[1] \in Entries
    /\ b[1].kind \in {"imm", "prim"}
    /\ b[1].kind = "imm" /\ b[1].name \in StackWords => b[1].ins = StackSig[b[1].name].ins
BY PrimitivesTyped, ImmediatesTyped DEF BuiltinChains

-----------------------------------------------------------------------------
LEMMA CandidatesTyped ==
  ASSUME NEW es \in Seq(Entries), NEW name, NEW c \in Candidates(es, name)
  PROVE  /\ c[1] \in Entries
         /\ c[1].name = name
         /\ UserEntry(es, c[1]) \/ BuiltinEntry(c[1])
<1>1. CASE \E i \in {j \in 1..Len(es) : es[j].name = name} : c = <<es[i], i>>
  BY <1>1, ElementOfSeq DEF UserEntry
<1>2. CASE \E b \in {x \in BuiltinChains : x[1].name = name} : c = <<b[1], Len(es) + b[2]>>
  BY <1>2, BuiltinsTyped DEF BuiltinEntry
<1>3. QED
  BY <1>1, <1>2 DEF Candidates

(* dict_lookup returns NULL or an entry of that name.                      *)
LEMMA LookupTyped ==
  ASSUME NEW es \in Seq(Entries), NEW name
  PROVE  DictLookup(es, name) \in Entries
<1> DEFINE C    == Candidates(es, name)
           best == {c \in C : \A d \in C : c[2] <= d[2]}
<1>1. CASE best = {}
  BY <1>1, NoEntryTyped DEF DictLookup, EntryOf
<1>2. CASE best # {}
  <2>1. PICK c \in C : DictLookup(es, name) = c[1]
    BY <1>2 DEF DictLookup, EntryOf
  <2>2. QED
    BY <2>1, CandidatesTyped
<1>3. QED
  BY <1>1, <1>2

(* match_score refuses a stack that is too short.                          *)
LEMMA ScoreNeedsDepth ==
  ASSUME NEW sig, NEW ts, MatchScore(sig, ts) >= 0,
         Len(sig.ins) \in Nat, Len(ts) \in Nat
  PROVE  Len(ts) >= Len(sig.ins)
BY DEF MatchScore

(* dict_lookup_typed returns NULL or an entry of that name whose inputs    *)
(* are on the stack.                                                       *)
LEMMA LookupTypedTyped ==
  ASSUME NEW es \in Seq(Entries), NEW name, NEW ts \in Seq(Types)
  PROVE  LET e == DictLookupTyped(es, name, ts) IN
         /\ e \in Entries
         /\ \/ e = NoEntry
            \/ /\ e.name = name
               /\ UserEntry(es, e) \/ BuiltinEntry(e)
               /\ Len(ts) >= Len(e.ins)
<1> DEFINE C    == {c \in Candidates(es, name) : MatchScore(c[1], ts) >= 0}
           best == {c \in C : \A d \in C : Beats(c, d, ts)}
<1>1. CASE best = {}
  BY <1>1, NoEntryTyped DEF DictLookupTyped, EntryOf
<1>2. CASE best # {}
  <2>1. PICK c \in C : DictLookupTyped(es, name, ts) = c[1]
    BY <1>2 DEF DictLookupTyped, EntryOf
  <2>2. /\ c[1] \in Entries /\ c[1].name = name
        /\ UserEntry(es, c[1]) \/ BuiltinEntry(c[1])
    BY CandidatesTyped
  <2>3. Len(c[1].ins) \in Nat /\ Len(ts) \in Nat
    BY <2>2 DEF Entries
  <2>4. Len(ts) >= Len(c[1].ins)
    BY <2>3, ScoreNeedsDepth
  <2>5. QED
    BY <2>1, <2>2, <2>4
<1>3. QED
  BY <1>1, <1>2

-----------------------------------------------------------------------------
(* The top and the rest of a stack.                                        *)
LEMMA TopOfTyped ==
  ASSUME NEW ts \in Seq(Types), NEW n \in 0..Len(ts)
  PROVE  /\ TopOf(ts, n) \in Seq(Types)
         /\ Len(TopOf(ts, n)) = n
         /\ \A i \in 1..n : TopOf(ts, n)[i] = ts[Len(ts) - n + i]
<1>1. \A i \in Len(ts) - n + 1..Len(ts) : ts[i] \in Types
  BY ElementOfSeq
<1>2. Len(ts) - n + 1 \in Int /\ Len(ts) \in Int
  OBVIOUS
<1>3. /\ TopOf(ts, n) \in Seq(Types)
      /\ Len(TopOf(ts, n)) = IF Len(ts) - n + 1 <= Len(ts)
                             THEN Len(ts) - (Len(ts) - n + 1) + 1 ELSE 0
      /\ \A i \in 1..Len(ts) - (Len(ts) - n + 1) + 1 :
           TopOf(ts, n)[i] = ts[(Len(ts) - n + 1) + i - 1]
  BY <1>1, <1>2, SubSeqProperties DEF TopOf
<1>4. QED
  BY <1>3

LEMMA BelowTyped ==
  ASSUME NEW ts \in Seq(Types), NEW n \in Nat
  PROVE  Below(ts, n) \in Seq(Types)
<1>1. \A i \in 1..Len(ts) - n : ts[i] \in Types
  BY ElementOfSeq
<1>2. Len(ts) - n \in Int
  OBVIOUS
<1>3. QED
  BY <1>1, <1>2, SubSeqProperties DEF Below

(* The types an applied signature pushes are known types.                  *)
LEMMA OutputsTyped ==
  ASSUME NEW sig, sig.ins \in Seq(Types), sig.outs \in Seq(Types),
         NEW ts \in Seq(Types), Len(ts) >= Len(sig.ins)
  PROVE  Outputs(sig, ts) \in Seq(Types) /\ Len(Outputs(sig, ts)) = Len(sig.outs)
<1>1. ASSUME NEW v \in Types PROVE Binding(sig, ts, v) \in Types
  <2> DEFINE n    == Len(sig.ins)
             args == TopOf(ts, n)
             B    == {i \in 1..n : sig.ins[i] = v /\ args[i] # UNKNOWN}
  <2>1. n \in 0..Len(ts)
    OBVIOUS
  <2>2. \A i \in B : args[i] \in Types
    BY <2>1, TopOfTyped, ElementOfSeq
  <2>3. CASE v \in TypeVars /\ B # {}
    <3> DEFINE i0 == CHOOSE i \in B : \A j \in B : j <= i
    <3>1. \E i \in B : \A j \in B : j <= i
      <4> DEFINE M == {n - i : i \in B}
      <4>1. M \subseteq Nat /\ M # {}
        BY <2>3
      <4>2. PICK m \in M : \A k \in M : m <= k
        BY <4>1, SmallestElement
      <4>3. n - m \in B /\ \A j \in B : n - j \in M
        BY <4>2
      <4>4. ASSUME NEW j \in B PROVE j <= n - m
        <5>1. m <= n - j
          BY <4>2, <4>3
        <5>2. m \in Nat /\ n \in Nat /\ j \in Nat
          BY <4>1
        <5>3. QED
          BY <5>1, <5>2
      <4>5. QED
        BY <4>3, <4>4
    <3>2. i0 \in B
      BY <3>1
    <3>3. QED
      BY <2>2, <2>3, <3>2 DEF Binding
  <2>4. CASE ~(v \in TypeVars /\ B # {})
    BY <2>4 DEF Binding
  <2>5. QED
    BY <2>3, <2>4
<1>2. \A i \in 1..Len(sig.outs) : Binding(sig, ts, sig.outs[i]) \in Types
  BY <1>1, ElementOfSeq
<1>3. QED
  BY <1>2 DEF Outputs

-----------------------------------------------------------------------------
(* Which candidate overload resolution selects.  Scores and priorities are *)
(* numbers, so that the comparison is a total order on places in the chain.*)

LEMMA CountsTyped ==
  ASSUME NEW n \in Nat, NEW S, S \subseteq 1..n
  PROVE  Cardinality(S) \in Nat
<1>1. IsFiniteSet(1..n)
  BY FS_Interval
<1>2. IsFiniteSet(S)
  BY <1>1, FS_Subset
<1>3. QED
  BY <1>2, FS_CardinalityType

LEMMA ScoreTyped ==
  ASSUME NEW e \in Entries, NEW ts
  PROVE  MatchScore(e, ts) \in Int /\ Priority(e) \in Int
<1> DEFINE n    == Len(e.ins)
           args == TopOf(ts, n)
           var  == {i \in 1..n : e.ins[i] \in TypeVars}
           any  == {i \in 1..n : e.ins[i] = "any"}
           same == {i \in (1..n) \ (var \cup any) : args[i] = e.ins[i]}
           unk  == {i \in (1..n) \ (var \cup any \cup same) : args[i] = UNKNOWN}
           ids  == {i \in 1..n : e.ins[i] \in {"i64", "u64"}}
<1>1. n \in Nat
  BY LenProperties DEF Entries
<1>2. /\ Cardinality(var) \in Nat /\ Cardinality(any) \in Nat
      /\ Cardinality(same) \in Nat /\ Cardinality(unk) \in Nat
      /\ Cardinality(ids) \in Nat
  BY <1>1, CountsTyped
<1>3. Priority(e) \in Int
  BY <1>2 DEF Priority
<1>4. 80 * Cardinality(var) + 10 * Cardinality(any) + 100 * Cardinality(same)
        + 50 * Cardinality(unk) \in Int
  BY <1>2
<1>5. MatchScore(e, ts) \in Int
  BY <1>4 DEF MatchScore
<1>6. QED
  BY <1>3, <1>5

(* Both are computed from the input types alone.                           *)
LEMMA ScoreOfInputs ==
  ASSUME NEW d, NEW e, d.ins = e.ins, NEW ts
  PROVE  MatchScore(d, ts) = MatchScore(e, ts) /\ Priority(d) = Priority(e)
BY DEF MatchScore, Priority

(* Two candidates in the same place have the same definition.              *)
LEMMA BuiltinDef == \A b \in BuiltinChains : b[1].def = 0 /\ b[2] \in {1, 2}
<1>1. \A e \in RegisterPrimitives : e.def = 0
  BY DEF RegisterPrimitives, Entry
<1>2. \A e \in ImmediateEntries : e.def = 0
  BY DEF ImmediateEntries, Entry
<1>3. QED
  BY <1>1, <1>2 DEF BuiltinChains

LEMMA PlaceIsInt ==
  ASSUME NEW es \in Seq(Entries), NEW name, NEW c \in Candidates(es, name)
  PROVE  c[2] \in Int
<1>1. Len(es) \in Nat
  BY LenProperties
<1>2. CASE \E i \in 1..Len(es) : c = <<es[i], i>>
  <2>1. PICK i \in 1..Len(es) : c = <<es[i], i>>
    BY <1>2
  <2>2. i \in Int /\ c[2] = i
    BY <1>1, <2>1
  <2>3. QED
    BY ONLY <2>2
<1>3. CASE \E b \in BuiltinChains : c = <<b[1], Len(es) + b[2]>>
  <2>1. PICK b \in BuiltinChains : c = <<b[1], Len(es) + b[2]>>
    BY <1>3
  <2>2. b[2] \in Int
    BY <2>1, BuiltinDef
  <2>3. c[2] = Len(es) + b[2]
    BY <2>1
  <2>4. QED
    BY <1>1, <2>2, <2>3
<1>4. QED
  BY <1>2, <1>3 DEF Candidates

LEMMA PlaceDeterminesDef ==
  ASSUME NEW es \in Seq(Entries), NEW name,
         NEW c \in Candidates(es, name), NEW d \in Candidates(es, name),
         c[2] = d[2]
  PROVE  c[1].def = d[1].def
<1>1. Len(es) \in Nat
  BY LenProperties
<1>2. ASSUME NEW x \in Candidates(es, name)
      PROVE  \/ x[2] \in 1..Len(es) /\ x[1] = es[x[2]]
             \/ x[2] > Len(es) /\ x[1].def = 0
  BY <1>1, BuiltinDef DEF Candidates
<1>3. c[2] \in Int
  BY PlaceIsInt
<1>4. QED
  BY <1>1, <1>2, <1>3

(* A candidate that beats all others. *)
Wins(es, name, ts, c) ==
  /\ c \in Candidates(es, name)
  /\ MatchScore(c[1], ts) >= 0
  /\ \A d \in Candidates(es, name) : MatchScore(d[1], ts) >= 0 => Beats(c, d, ts)

LEMMA OneWinner ==
  ASSUME NEW es \in Seq(Entries), NEW name, NEW ts,
         NEW c, Wins(es, name, ts, c), NEW d, Wins(es, name, ts, d)
  PROVE  c[1].def = d[1].def
<1>1. c \in Candidates(es, name) /\ d \in Candidates(es, name)
  BY DEF Wins
<1>2. /\ MatchScore(c[1], ts) \in Int /\ MatchScore(d[1], ts) \in Int
      /\ Priority(c[1]) \in Int /\ Priority(d[1]) \in Int
      /\ c[2] \in Int /\ d[2] \in Int
  <2>1. c[1] \in Entries /\ d[1] \in Entries
    BY <1>1, CandidatesTyped
  <2>3. c[2] \in Int /\ d[2] \in Int
    BY <1>1, PlaceIsInt
  <2>4. QED
    BY <2>1, <2>3, ScoreTyped
<1>3. Beats(c, d, ts) /\ Beats(d, c, ts)
  BY <1>1 DEF Wins
<1>4. c[2] = d[2]
  BY <1>2, <1>3 DEF Beats
<1>5. QED
  BY <1>1, <1>4, PlaceDeterminesDef

LEMMA LookupTypedWins ==
  ASSUME NEW es, NEW name, NEW ts
  PROVE  \/ /\ DictLookupTyped(es, name, ts) = NoEntry
            /\ \A c : ~Wins(es, name, ts, c)
         \/ \E c : Wins(es, name, ts, c) /\ DictLookupTyped(es, name, ts) = c[1]
<1> DEFINE C    == {c \in Candidates(es, name) : MatchScore(c[1], ts) >= 0}
           best == {c \in C : \A d \in C : Beats(c, d, ts)}
<1>1. \A c : c \in best <=> Wins(es, name, ts, c)
  BY DEF Wins
<1>2. DictLookupTyped(es, name, ts) = EntryOf(best)
  BY DEF DictLookupTyped
<1> HIDE DEF best
<1>3. CASE best = {}
  BY <1>1, <1>2, <1>3 DEF EntryOf
<1>4. CASE best # {}
  <2>1. (CHOOSE c \in best : TRUE) \in best
    BY <1>4
  <2>2. QED
    BY <1>1, <1>2, <1>4, <2>1 DEF EntryOf
<1>5. QED
  BY <1>3, <1>4

(* The definition overload resolution selects: that of any winner.         *)
LEMMA LookupTypedDef ==
  ASSUME NEW es \in Seq(Entries), NEW name, NEW ts,
         NEW c, Wins(es, name, ts, c)
  PROVE  DictLookupTyped(es, name, ts).def = c[1].def
BY LookupTypedWins, OneWinner

-----------------------------------------------------------------------------
(* The values under the inputs of the selected entry have no say in the    *)
(* selection: with the inputs alone on the stack the same definition is    *)
(* selected.  (This is what makes a cache keyed by those inputs possible.) *)
LEMMA TopOfTop ==
  ASSUME NEW ts \in Seq(Types), NEW k \in 0..Len(ts), NEW n \in 0..k
  PROVE  TopOf(TopOf(ts, k), n) = TopOf(ts, n)
<1> DEFINE us == TopOf(ts, k)
<1>1. Len(ts) \in Nat /\ k \in Nat /\ n \in Nat /\ n \in 0..Len(ts)
  BY LenProperties
<1>2. us \in Seq(Types) /\ Len(us) = k /\ \A i \in 1..k : us[i] = ts[Len(ts) - k + i]
  BY TopOfTyped
<1>3. /\ TopOf(ts, n) \in Seq(Types) /\ Len(TopOf(ts, n)) = n
      /\ \A i \in 1..n : TopOf(ts, n)[i] = ts[Len(ts) - n + i]
  BY <1>1, TopOfTyped
<1> HIDE DEF us
<1>4. /\ TopOf(us, n) \in Seq(Types) /\ Len(TopOf(us, n)) = n
      /\ \A i \in 1..n : TopOf(us, n)[i] = us[k - n + i]
  BY <1>2, TopOfTyped
<1>5. ASSUME NEW i \in 1..n PROVE TopOf(us, n)[i] = TopOf(ts, n)[i]
  <2>1. k - n + i \in 1..k /\ Len(ts) - k + (k - n + i) = Len(ts) - n + i
    BY <1>1
  <2>2. QED
    BY <1>2, <1>3, <1>4, <2>1
<1>6. TopOf(us, n) = TopOf(ts, n)
  BY <1>3, <1>4, <1>5, SeqEqual
<1>7. QED
  BY <1>6 DEF us

LEMMA ScoreOfTop ==
  ASSUME NEW e \in Entries, NEW ts \in Seq(Types), NEW k \in 0..Len(ts)
  PROVE  MatchScore(e, TopOf(ts, k)) = IF Len(e.ins) <= k THEN MatchScore(e, ts) ELSE -1
<1>1. Len(e.ins) \in Nat /\ Len(ts) \in Nat /\ k \in Nat
  BY LenProperties DEF Entries
<1>2. Len(TopOf(ts, k)) = k
  BY TopOfTyped
<1>3. CASE Len(e.ins) <= k
  <2>1. TopOf(TopOf(ts, k), Len(e.ins)) = TopOf(ts, Len(e.ins))
    BY <1>1, <1>3, TopOfTop
  <2>2. ~(k < Len(e.ins)) /\ ~(Len(ts) < Len(e.ins))
    BY <1>1, <1>3
  <2> DEFINE us == TopOf(ts, k)
  <2>3. Len(us) = k /\ TopOf(us, Len(e.ins)) = TopOf(ts, Len(e.ins))
    BY <1>2, <2>1
  <2> HIDE DEF us
  <2>4. MatchScore(e, us) = MatchScore(e, ts)
    BY <2>2, <2>3 DEF MatchScore
  <2>5. QED
    BY <1>3, <2>4 DEF us
<1>4. CASE ~(Len(e.ins) <= k)
  <2>1. Len(TopOf(ts, k)) < Len(e.ins)
    BY <1>1, <1>2, <1>4
  <2>2. QED
    BY <1>4, <2>1 DEF MatchScore
<1>5. QED
  BY <1>3, <1>4

LEMMA LookupOfInputs ==
  ASSUME NEW es \in Seq(Entries), NEW name, NEW ts \in Seq(Types),
         DictLookupTyped(es, name, ts) # NoEntry
  PROVE  LET e == DictLookupTyped(es, name, ts) IN
         DictLookupTyped(es, name, TopOf(ts, Len(e.ins))).def = e.def
<1> DEFINE e  == DictLookupTyped(es, name, ts)
           us == TopOf(ts, Len(e.ins))
<1>1. PICK c : Wins(es, name, ts, c) /\ e = c[1]
  BY LookupTypedWins
<1>2. e \in Entries /\ Len(ts) >= Len(e.ins)
  BY LookupTypedTyped
<1>3. Len(e.ins) \in Nat /\ Len(ts) \in Nat
  BY <1>2, LenProperties DEF Entries
<1>4. Len(e.ins) \in 0..Len(ts)
  BY <1>2, <1>3
<1> HIDE DEF e
<1>5. MatchScore(c[1], us) = MatchScore(c[1], ts)
  BY <1>1, <1>2, <1>3, <1>4, ScoreOfTop
<1>6. ASSUME NEW d \in Candidates(es, name), MatchScore(d[1], us) >= 0
      PROVE  Beats(c, d, us)
  <2>1. d[1] \in Entries
    BY CandidatesTyped
  <2>2. MatchScore(d[1], us) = MatchScore(d[1], ts)
    BY <1>4, <1>6, <2>1, ScoreOfTop
  <2>3. Beats(c, d, ts)
    BY <1>1, <1>6, <2>2 DEF Wins
  <2>4. QED
    BY <1>5, <2>2, <2>3 DEF Beats
<1>7. Wins(es, name, us, c)
  BY <1>1, <1>5, <1>6 DEF Wins
<1>8. QED
  BY <1>1, <1>7, LookupTypedDef DEF e

(* Nor has anything but names, inputs and definitions: a word that has     *)
(* been compiled is found where it was found before.                       *)
Alike(d, e) == d.name = e.name /\ d.ins = e.ins /\ d.def = e.def

LEMMA WinnerElsewhere ==
  ASSUME NEW es1 \in Seq(Entries), NEW es2 \in Seq(Entries),
         Len(es1) = Len(es2), \A i \in 1..Len(es1) : Alike(es1[i], es2[i]),
         NEW name, NEW ts, NEW c, Wins(es1, name, ts, c)
  PROVE  \E d : Wins(es2, name, ts, d) /\ d[1].def = c[1].def
<1>1. ASSUME NEW da \in Seq(Entries), NEW db \in Seq(Entries),
             Len(da) = Len(db), \A i \in 1..Len(da) : Alike(da[i], db[i]),
             NEW x \in Candidates(da, name)
      PROVE  \E y \in Candidates(db, name) :
               x[2] = y[2] /\ x[1].ins = y[1].ins /\ x[1].def = y[1].def
  <2>1. CASE \E i \in {j \in 1..Len(da) : da[j].name = name} : x = <<da[i], i>>
    <3>1. PICK i \in 1..Len(da) : da[i].name = name /\ x = <<da[i], i>>
      BY <2>1
    <3>2. i \in 1..Len(db) /\ db[i].name = name /\ Alike(da[i], db[i])
      BY <1>1, <3>1 DEF Alike
    <3>3. <<db[i], i>> \in Candidates(db, name)
      BY <3>2 DEF Candidates
    <3>4. QED
      BY <3>1, <3>2, <3>3 DEF Alike
  <2>2. CASE \E b \in {z \in BuiltinChains : z[1].name = name} : x = <<b[1], Len(da) + b[2]>>
    <3>1. x \in Candidates(db, name)
      BY <1>1, <2>2 DEF Candidates
    <3>2. QED
      BY <3>1
  <2>3. QED
    BY <1>1, <2>1, <2>2 DEF Candidates
<1>2. c \in Candidates(es1, name)
  BY DEF Wins
<1>3. PICK d \in Candidates(es2, name) :
        c[2] = d[2] /\ c[1].ins = d[1].ins /\ c[1].def = d[1].def
  BY <1>1, <1>2
<1>4. MatchScore(d[1], ts) = MatchScore(c[1], ts) /\ Priority(d[1]) = Priority(c[1])
  BY <1>3, ScoreOfInputs
<1>5. ASSUME NEW y \in Candidates(es2, name), MatchScore(y[1], ts) >= 0
      PROVE  Beats(d, y, ts)
  <2>1. \A i \in 1..Len(es2) : Alike(es2[i], es1[i])
    BY DEF Alike
  <2>2. PICK x \in Candidates(es1, name) :
          y[2] = x[2] /\ y[1].ins = x[1].ins /\ y[1].def = x[1].def
    BY <1>1, <2>1
  <2>3. MatchScore(y[1], ts) = MatchScore(x[1], ts) /\ Priority(y[1]) = Priority(x[1])
    BY <2>2, ScoreOfInputs
  <2>4. Beats(c, x, ts)
    BY <1>5, <2>3 DEF Wins
  <2>5. QED
    BY <1>3, <1>4, <2>2, <2>3, <2>4 DEF Beats
<1>6. Wins(es2, name, ts, d)
  BY <1>3, <1>4, <1>5 DEF Wins
<1>7. QED
  BY <1>3, <1>6

LEMMA LookupElsewhere ==
  ASSUME NEW es1 \in Seq(Entries), NEW es2 \in Seq(Entries),
         Len(es1) = Len(es2), \A i \in 1..Len(es1) : Alike(es1[i], es2[i]),
         NEW name, NEW ts
  PROVE  DictLookupTyped(es1, name, ts).def = DictLookupTyped(es2, name, ts).def
<1>1. \A i \in 1..Len(es2) : Alike(es2[i], es1[i])
  BY DEF Alike
<1>2. CASE \E c : Wins(es1, name, ts, c)
  <2>1. PICK c : Wins(es1, name, ts, c)
    BY <1>2
  <2>2. PICK d : Wins(es2, name, ts, d) /\ d[1].def = c[1].def
    BY <2>1, WinnerElsewhere
  <2>3. QED
    BY <2>1, <2>2, LookupTypedDef
<1>3. CASE \A c : ~Wins(es1, name, ts, c)
  <2>1. \A d : ~Wins(es2, name, ts, d)
    BY <1>1, <1>3, WinnerElsewhere
  <2>2. QED
    BY <1>3, <2>1, LookupTypedWins
<1>4. QED
  BY <1>2, <1>3

-----------------------------------------------------------------------------
(* The invariant.  Types alone are not inductive: that a frame waiting for *)
(* quotations has the token that asked for them, or that the definition an *)
(* entry points to exists, takes the shape of the frame stack and of the   *)
(* dictionary.                                                             *)

QuotsTaken(op) ==
  CASE op \in {"none", "call"} -> 0
    [] op \in {"mat", "times"} -> 1
    [] op \in {"if", "until"}  -> 2

FrameOK(f) ==
  /\ f \in Frames
  /\ Len(f.quots) = QuotsTaken(f.op)
  /\ Len(f.done) <= Len(f.quots)
  /\ f.op \in {"call", "if", "times", "until"} => f.toks # <<>>

(* Frame f waits for a compilation of definition def (0 for a quotation).  *)
Awaits(f, def) ==
  /\ f.op # "none"
  /\ def # 0 <=> f.op = "call"
  /\ f.op # "call" => Len(f.done) < Len(f.quots)

FramesOK(fs) ==
  /\ fs \in Seq(Frames)
  /\ \A i \in 1..Len(fs) : FrameOK(fs[i])
  /\ \A i \in 1..Len(fs) - 1 : Awaits(fs[i], fs[i + 1].def)
  /\ fs # <<>> => fs[1].def # 0

DictOK == \A i \in 1..Len(dict) : dict[i].kind = "word" /\ dict[i].def \in 1..Len(defs)

TypeInv == TypeOK /\ DictOK /\ FramesOK(frames)

-----------------------------------------------------------------------------
(* The stack of frames under its three operations.                         *)

LEMMA TopTyped ==
  ASSUME FramesOK(frames), frames # <<>>
  PROVE  /\ Len(frames) \in Nat \ {0}
         /\ Top = frames[Len(frames)]
         /\ Top \in Frames /\ FrameOK(Top)
BY EmptySeq, LenProperties DEF FramesOK, Top

LEMMA SetTopFrames ==
  ASSUME frames \in Seq(Frames), frames # <<>>, NEW g \in Frames
  PROVE  /\ SetTop(g) \in Seq(Frames)
         /\ Len(SetTop(g)) = Len(frames)
         /\ \A i \in 1..Len(frames) :
              SetTop(g)[i] = IF i = Len(frames) THEN g ELSE frames[i]
<1>1. Len(frames) \in 1..Len(frames)
  BY EmptySeq, LenProperties
<1>2. QED
  BY <1>1, ExceptSeq DEF SetTop

LEMMA SetTopOK ==
  ASSUME FramesOK(frames), frames # <<>>, NEW g, FrameOK(g), g.def = Top.def
  PROVE  FramesOK(SetTop(g))
<1>1. g \in Frames /\ frames \in Seq(Frames) /\ Len(frames) \in Nat \ {0}
  BY TopTyped DEF FrameOK, FramesOK
<1>2. /\ SetTop(g) \in Seq(Frames) /\ Len(SetTop(g)) = Len(frames)
      /\ \A i \in 1..Len(frames) : SetTop(g)[i] = IF i = Len(frames) THEN g ELSE frames[i]
  BY <1>1, SetTopFrames
<1>3. SetTop(g)[1].def = frames[1].def
  BY <1>1, <1>2 DEF Top
<1>4. ASSUME NEW i \in 1..Len(frames) - 1
      PROVE  /\ SetTop(g)[i] = frames[i]
             /\ SetTop(g)[i + 1].def = frames[i + 1].def
  BY <1>1, <1>2 DEF Top
<1>5. QED
  BY <1>1, <1>2, <1>3, <1>4 DEF FramesOK

LEMMA EnterFrames ==
  ASSUME frames \in Seq(Frames), frames # <<>>, NEW g \in Frames, NEW h \in Frames
  PROVE  /\ Append(SetTop(g), h) \in Seq(Frames)
         /\ Len(Append(SetTop(g), h)) = Len(frames) + 1
         /\ \A i \in 1..Len(frames) + 1 :
              Append(SetTop(g), h)[i] = IF i = Len(frames) + 1 THEN h
                                        ELSE IF i = Len(frames) THEN g ELSE frames[i]
<1>1. /\ SetTop(g) \in Seq(Frames) /\ Len(SetTop(g)) = Len(frames)
      /\ \A i \in 1..Len(frames) : SetTop(g)[i] = IF i = Len(frames) THEN g ELSE frames[i]
  BY SetTopFrames
<1>2. Len(frames) \in Nat
  BY LenProperties
<1>3. QED
  BY <1>1, <1>2, AppendProperties

LEMMA EnterOK ==
  ASSUME FramesOK(frames), frames # <<>>,
         NEW g, FrameOK(g), g.def = Top.def,
         NEW h, FrameOK(h), Awaits(g, h.def)
  PROVE  FramesOK(Append(SetTop(g), h))
<1> DEFINE fs == Append(SetTop(g), h)
           n  == Len(frames)
<1>1. g \in Frames /\ h \in Frames /\ frames \in Seq(Frames) /\ n \in Nat \ {0}
  BY TopTyped DEF FrameOK, FramesOK
<1>2. /\ fs \in Seq(Frames) /\ Len(fs) = n + 1
      /\ \A i \in 1..n + 1 :
           fs[i] = IF i = n + 1 THEN h ELSE IF i = n THEN g ELSE frames[i]
  BY <1>1, EnterFrames
<1>3. fs[1].def = frames[1].def
  BY <1>1, <1>2 DEF Top
<1>4. ASSUME NEW i \in 1..n - 1
      PROVE  fs[i] = frames[i] /\ fs[i + 1].def = frames[i + 1].def
  BY <1>1, <1>2 DEF Top
<1>5. Awaits(fs[n], fs[n + 1].def)
  BY <1>1, <1>2
<1>6. \A i \in 1..n + 1 : FrameOK(fs[i])
  BY <1>1, <1>2 DEF FramesOK
<1>7. ASSUME NEW i \in 1..n
      PROVE  Awaits(fs[i], fs[i + 1].def)
  <2>1. CASE i = n
    BY <1>5, <2>1
  <2>2. CASE i # n
    <3>1. i \in 1..n - 1
      BY <1>1, <2>2
    <3>2. Awaits(frames[i], frames[i + 1].def)
      BY <3>1 DEF FramesOK
    <3>3. QED
      BY <1>4, <3>1, <3>2
  <2>3. QED
    BY <2>1, <2>2
<1>8. QED
  BY <1>1, <1>2, <1>3, <1>6, <1>7 DEF FramesOK

LEMMA PopFrames ==
  ASSUME frames \in Seq(Frames), Len(frames) > 1, NEW g \in Frames
  PROVE  /\ [PopFrame EXCEPT ![Len(frames) - 1] = g] \in Seq(Frames)
         /\ Len([PopFrame EXCEPT ![Len(frames) - 1] = g]) = Len(frames) - 1
         /\ \A i \in 1..Len(frames) - 1 :
              [PopFrame EXCEPT ![Len(frames) - 1] = g][i] =
                IF i = Len(frames) - 1 THEN g ELSE frames[i]
<1> Len(frames) \in Nat
  BY LenProperties
<1>1. Len(frames) - 1 \in Nat /\ Len(frames) - 1 \in 1..Len(frames) - 1
  OBVIOUS
<1>2. \A i \in 1..Len(frames) - 1 : frames[i] \in Frames
  BY <1>1, ElementOfSeq
<1>3. /\ PopFrame \in Seq(Frames) /\ Len(PopFrame) = Len(frames) - 1
      /\ \A i \in 1..Len(frames) - 1 : PopFrame[i] = frames[i]
  BY <1>1, <1>2, SubSeqProperties DEF PopFrame
<1>4. QED
  BY <1>1, <1>3, ExceptSeq

LEMMA PopOK ==
  ASSUME FramesOK(frames), Len(frames) > 1,
         NEW g, FrameOK(g), g.def = frames[Len(frames) - 1].def
  PROVE  FramesOK([PopFrame EXCEPT ![Len(frames) - 1] = g])
<1> DEFINE fs == [PopFrame EXCEPT ![Len(frames) - 1] = g]
           n  == Len(frames)
<1>1. g \in Frames /\ frames \in Seq(Frames) /\ n \in Nat /\ n > 1
  BY LenProperties DEF FrameOK, FramesOK
<1>2. /\ fs \in Seq(Frames) /\ Len(fs) = n - 1
      /\ \A i \in 1..n - 1 : fs[i] = IF i = n - 1 THEN g ELSE frames[i]
  BY <1>1, PopFrames
<1>3. fs[1].def = frames[1].def
  BY <1>1, <1>2
<1>4. ASSUME NEW i \in 1..n - 2
      PROVE  fs[i] = frames[i] /\ fs[i + 1].def = frames[i + 1].def
  BY <1>1, <1>2
<1>5. \A i \in 1..n - 1 : FrameOK(fs[i])
  BY <1>1, <1>2 DEF FramesOK
<1>6. ASSUME NEW i \in 1..Len(fs) - 1
      PROVE  Awaits(fs[i], fs[i + 1].def)
  <2>1. i \in 1..n - 2 /\ i \in 1..n - 1
    BY <1>1, <1>2
  <2>2. Awaits(frames[i], frames[i + 1].def)
    BY <2>1 DEF FramesOK
  <2>3. QED
    BY <1>4, <2>1, <2>2
<1>7. frames # <<>> /\ frames[1].def # 0
  BY <1>1, EmptySeq DEF FramesOK
<1>8. QED
  BY <1>1, <1>2, <1>3, <1>5, <1>6, <1>7 DEF FramesOK

-----------------------------------------------------------------------------
(* What the helpers of the compiler return.                                *)

(* The same whatever is put there: what the other frames are does not      *)
(* depend on it.                                                           *)
LEMMA SetTopAny ==
  ASSUME frames \in Seq(Frames), frames # <<>>, NEW g
  PROVE  /\ Len(SetTop(g)) = Len(frames)
         /\ \A i \in 1..Len(frames) :
              SetTop(g)[i] = IF i = Len(frames) THEN g ELSE frames[i]
<1> DEFINE T == Frames \cup {g}
<1>1. frames \in Seq(T) /\ g \in T
  OBVIOUS
<1>2. Len(frames) \in 1..Len(frames)
  BY EmptySeq, LenProperties
<1> HIDE DEF T
<1>3. QED
  BY <1>1, <1>2, ExceptSeq DEF SetTop

LEMMA EnterAny ==
  ASSUME frames \in Seq(Frames), frames # <<>>, NEW g, NEW h
  PROVE  /\ Len(Append(SetTop(g), h)) = Len(frames) + 1
         /\ \A i \in 1..Len(frames) + 1 :
              Append(SetTop(g), h)[i] = IF i = Len(frames) + 1 THEN h
                                        ELSE IF i = Len(frames) THEN g ELSE frames[i]
<1> DEFINE T == Frames \cup {g, h}
<1>1. frames \in Seq(T) /\ g \in T /\ h \in T
  OBVIOUS
<1>2. Len(frames) \in 1..Len(frames) /\ Len(frames) \in Nat
  BY EmptySeq, LenProperties
<1> HIDE DEF T
<1>3. /\ SetTop(g) \in Seq(T) /\ Len(SetTop(g)) = Len(frames)
      /\ \A i \in 1..Len(frames) : SetTop(g)[i] = IF i = Len(frames) THEN g ELSE frames[i]
  BY <1>1, <1>2, ExceptSeq DEF SetTop
<1>4. QED
  BY <1>1, <1>2, <1>3, AppendProperties

LEMMA EnteredFrames ==
  ASSUME frames \in Seq(Frames), frames # <<>>, NEW g, NEW h, frames' = Append(SetTop(g), h)
  PROVE  /\ Len(frames') = Len(frames) + 1
         /\ \A i \in 1..Len(frames) + 1 :
              frames'[i] = IF i = Len(frames) + 1 THEN h
                           ELSE IF i = Len(frames) THEN g ELSE frames[i]
BY EnterAny

LEMMA PopAny ==
  ASSUME frames \in Seq(Frames), Len(frames) > 1, NEW g
  PROVE  /\ Len([PopFrame EXCEPT ![Len(frames) - 1] = g]) = Len(frames) - 1
         /\ \A i \in 1..Len(frames) - 1 :
              [PopFrame EXCEPT ![Len(frames) - 1] = g][i] =
                IF i = Len(frames) - 1 THEN g ELSE frames[i]
<1> DEFINE T == Frames \cup {g}
           n == Len(frames) - 1
<1>1. frames \in Seq(T) /\ g \in T
  OBVIOUS
<1>2. n \in Nat /\ n \in 1..n /\ n \in Int /\ Len(frames) \in Nat
  BY LenProperties
<1>3. \A i \in 1..n : frames[i] \in T
  BY <1>1, <1>2, ElementOfSeq
<1> HIDE DEF T
<1>4. /\ PopFrame \in Seq(T) /\ Len(PopFrame) = n
      /\ \A i \in 1..n : PopFrame[i] = frames[i]
  BY <1>2, <1>3, SubSeqProperties DEF PopFrame
<1>5. QED
  BY <1>1, <1>2, <1>4, ExceptSeq


LEMMA PushTypesTyped ==
  ASSUME NEW types \in Seq(Types), NEW ts \in Seq(Types)
  PROVE  PushTypes(types, ts) \in Seq(Types)
<1> DEFINE all == types \o ts
<1>1. all \in Seq(Types)
  BY ConcatProperties
<1>2. MaxTypeStack \in Nat
  BY ConstantsAssumption
<1>3. CASE Len(all) <= MaxTypeStack
  BY <1>1, <1>3 DEF PushTypes
<1>4. CASE ~(Len(all) <= MaxTypeStack)
  <2>1. Len(all) \in Nat /\ \A i \in 1..MaxTypeStack : all[i] \in Types
    BY <1>1, <1>2, <1>4, ElementOfSeq, LenProperties
  <2>2. 1 \in Int /\ MaxTypeStack \in Int
    BY <1>2
  <2> HIDE DEF all
  <2>3. SubSeq(all, 1, MaxTypeStack) \in Seq(Types)
    BY <2>1, <2>2, SubSeqProperties
  <2>4. QED
    BY <1>4, <2>3 DEF PushTypes, all
<1>5. QED
  BY <1>3, <1>4

LEMMA NewFrameOK ==
  ASSUME NEW def \in Nat, NEW ins \in Seq(Types), NEW types \in Seq(Types),
         NEW toks \in Seq(TokenSet)
  PROVE  FrameOK(NewFrame(def, ins, types, toks)) /\ NewFrame(def, ins, types, toks).def = def
<1> DEFINE f == NewFrame(def, ins, types, toks)
<1>1. /\ <<>> \in Seq(Cells) /\ <<>> \in Seq(Items) /\ <<>> \in Seq(Quotations)
      /\ <<>> \in Seq(Compiled)
  BY EmptySeq
<1>2. f \in Frames
  BY <1>1 DEF NewFrame, Frames, Ops
<1>3. f.quots = <<>> /\ f.done = <<>> /\ f.op = "none" /\ f.def = def
  BY DEF NewFrame
<1>4. QED
  BY <1>2, <1>3, EmptySeq DEF FrameOK, QuotsTaken

LEMMA EmitOK ==
  ASSUME NEW f \in Frames, f.toks # <<>>,
         NEW cells \in Seq(Cells), NEW items \in Seq(Items), NEW types \in Seq(Types)
  PROVE  /\ FrameOK(Emit(f, cells, items, types))
         /\ Emit(f, cells, items, types).def = f.def
<1> DEFINE g == Emit(f, cells, items, types)
<1>1. f.toks \in Seq(TokenSet) /\ f.cells \in Seq(Cells) /\ f.blob \in Seq(Items)
  BY DEF Frames
<1>2. /\ Tail(f.toks) \in Seq(TokenSet)
      /\ f.cells \o cells \in Seq(Cells) /\ f.blob \o items \in Seq(Items)
  BY <1>1, HeadTailProperties, ConcatProperties
<1>3. <<>> \in Seq(Quotations) /\ <<>> \in Seq(Compiled)
  BY EmptySeq
<1>4. g \in Frames
  BY <1>2, <1>3 DEF Emit, Frames, Ops
<1>5. g.quots = <<>> /\ g.done = <<>> /\ g.op = "none" /\ g.def = f.def
  BY DEF Emit, Frames
<1>6. QED
  BY <1>4, <1>5, EmptySeq DEF FrameOK, QuotsTaken

(* A primitive that is looked up by name.                                  *)
LEMMA LookupEmitsTyped ==
  ASSUME dict \in Seq(Entries), NEW name
  PROVE  XtOf(name) \in Cells /\ PrimOf(name) \in Items
<1>1. DictLookup(dict, name) \in Entries
  BY LookupTyped
<1>2. DictLookup(dict, name).addr \in STRING /\ DictLookup(dict, name).prim \in STRING
  BY <1>1 DEF Entries
<1>3. QED
  BY <1>2, CellsTyped, ItemsTyped, SpellingAssumption DEF XtOf, PrimOf

LEMMA BodyTyped ==
  ASSUME NEW q \in Compiled
  PROVE  Body(q) \in Seq(Cells) /\ Len(Body(q)) \in Nat
<1>1. q.cells \in Seq(Cells)
  BY DEF Compiled
<1>2. Len(q.cells) - 1 \in Int /\ 1 \in Int /\ \A i \in 1..Len(q.cells) - 1 : q.cells[i] \in Cells
  BY <1>1, ElementOfSeq, LenProperties
<1>3. Body(q) \in Seq(Cells)
  BY <1>2, SubSeqProperties DEF Body
<1>4. QED
  BY <1>3, LenProperties

(* The code of the control structures is made of cells and of items.       *)
LEMMA IfTyped ==
  ASSUME dict \in Seq(Entries), NEW pos \in Nat, NEW t \in Compiled, NEW f \in Compiled
  PROVE  IfCells(pos, t, f) \in Seq(Cells) /\ IfItems(t, f) \in Seq(Items)
<1>1. /\ Body(t) \in Seq(Cells) /\ Body(f) \in Seq(Cells)
      /\ Len(Body(t)) \in Nat /\ Len(Body(f)) \in Nat
  BY BodyTyped
<1>2. /\ t.blob \in Seq(Items) /\ f.blob \in Seq(Items)
      /\ Len(t.cells) \in Nat /\ Len(f.cells) \in Nat
  BY LenProperties DEF Compiled
<1>3. /\ XtOf("0branch") \in Cells /\ XtOf("branch") \in Cells
      /\ PrimOf("0branch") \in Items /\ PrimOf("branch") \in Items
  BY LookupEmitsTyped
<1>4. \A n \in Int : Lit(n) \in Cells /\ InlineLit(n) \in Items
  BY CellsTyped, ItemsTyped, SpellingAssumption
<1>5. IfCells(pos, t, f) \in Seq(Cells)
  <2> DEFINE zbranchPos == pos + 1
             branchPos  == zbranchPos + 1 + Len(Body(t)) + 1
             elsePos    == branchPos + 1
             endPos     == elsePos + Len(Body(f))
  <2>1. elsePos - zbranchPos - 1 \in Int /\ endPos - branchPos - 1 \in Int
    BY <1>1
  <2>2. /\ <<XtOf("0branch"), Lit(elsePos - zbranchPos - 1)>> \in Seq(Cells)
        /\ <<XtOf("branch"), Lit(endPos - branchPos - 1)>> \in Seq(Cells)
    BY <1>3, <1>4, <2>1
  <2>3. QED
    BY <1>1, <2>2, ConcatProperties DEF IfCells
<1>6. IfItems(t, f) \in Seq(Items)
  <2>1. Len(t.cells) - 1 + 2 \in Int /\ Len(f.cells) - 1 \in Int
    BY <1>2
  <2>2. /\ <<PrimOf("0branch"), InlineLit(Len(t.cells) - 1 + 2)>> \in Seq(Items)
        /\ <<PrimOf("branch"), InlineLit(Len(f.cells) - 1)>> \in Seq(Items)
    BY <1>3, <1>4, <2>1
  <2>3. QED
    BY <1>2, <2>2, ConcatProperties DEF IfItems
<1>7. QED
  BY <1>5, <1>6

LEMMA TimesTyped ==
  ASSUME dict \in Seq(Entries), NEW pos \in Nat, NEW b \in Compiled
  PROVE  TimesCells(pos, b) \in Seq(Cells) /\ TimesItems(b) \in Seq(Items)
<1>1. Body(b) \in Seq(Cells) /\ Len(Body(b)) \in Nat
  BY BodyTyped
<1>2. b.blob \in Seq(Items) /\ Len(b.cells) \in Nat
  BY LenProperties DEF Compiled
<1>3. \A name : XtOf(name) \in Cells /\ PrimOf(name) \in Items
  BY LookupEmitsTyped
<1>4. \A n \in Int : Lit(n) \in Cells /\ InlineLit(n) \in Items
  BY CellsTyped, ItemsTyped, SpellingAssumption
<1>5. TimesCells(pos, b) \in Seq(Cells)
  <2> DEFINE startPos == pos + 1
             exitPos  == startPos + 2
             backPos  == exitPos + 1 + 4 + Len(Body(b)) + 1
  <2>1. backPos + 1 - exitPos - 1 \in Int /\ startPos - backPos - 1 \in Int
    BY <1>1
  <2>2. /\ <<XtOf(">r"), XtOf("r@"), XtOf("0branch"), Lit(backPos + 1 - exitPos - 1),
             XtOf("r>"), Lit(1), XtOf("-"), XtOf(">r")>> \in Seq(Cells)
        /\ <<XtOf("branch"), Lit(startPos - backPos - 1), XtOf("rdrop")>> \in Seq(Cells)
    BY <1>3, <1>4, <2>1
  <2>3. QED
    BY <1>1, <2>2, ConcatProperties DEF TimesCells
<1>6. TimesItems(b) \in Seq(Items)
  <2> DEFINE out  == Len(b.cells) - 1 + 6
             back == -(7 + (Len(b.cells) - 1) + 2)
  <2>1. out \in Int /\ back \in Int
    BY <1>2
  <2> HIDE DEF out, back
  <2>2. /\ <<PrimOf(">r"), PrimOf("r@"), PrimOf("0branch"), InlineLit(out),
             PrimOf("r>"), InlineLit(1), PrimOf("-"), PrimOf(">r")>> \in Seq(Items)
        /\ <<PrimOf("branch"), InlineLit(back), PrimOf("rdrop")>> \in Seq(Items)
    BY <1>3, <1>4, <2>1
  <2> USE DEF out, back
  <2>3. QED
    BY <1>2, <2>2, ConcatProperties DEF TimesItems
<1>7. QED
  BY <1>5, <1>6

LEMMA UntilTyped ==
  ASSUME dict \in Seq(Entries), NEW pos \in Nat, NEW c \in Compiled, NEW b \in Compiled
  PROVE  UntilCells(pos, c, b) \in Seq(Cells) /\ UntilItems(c, b) \in Seq(Items)
<1>1. /\ Body(c) \in Seq(Cells) /\ Body(b) \in Seq(Cells)
      /\ Len(Body(c)) \in Nat /\ Len(Body(b)) \in Nat
  BY BodyTyped
<1>2. /\ c.blob \in Seq(Items) /\ b.blob \in Seq(Items)
      /\ Len(c.cells) \in Nat /\ Len(b.cells) \in Nat
  BY LenProperties DEF Compiled
<1>3. XtOf("0branch") \in Cells /\ PrimOf("0branch") \in Items
  BY LookupEmitsTyped
<1>4. \A n \in Int : Lit(n) \in Cells /\ InlineLit(n) \in Items
  BY CellsTyped, ItemsTyped, SpellingAssumption
<1>5. UntilCells(pos, c, b) \in Seq(Cells)
  <2> DEFINE backPos == pos + Len(Body(b)) + Len(Body(c)) + 1
  <2>1. pos - backPos - 1 \in Int
    BY <1>1
  <2>2. <<XtOf("0branch"), Lit(pos - backPos - 1)>> \in Seq(Cells)
    BY <1>3, <1>4, <2>1
  <2>3. QED
    BY <1>1, <2>2, ConcatProperties DEF UntilCells
<1>6. UntilItems(c, b) \in Seq(Items)
  <2> DEFINE back == -((Len(b.cells) - 1) + (Len(c.cells) - 1) + 1 + 1)
  <2>1. back \in Int
    BY <1>2
  <2> HIDE DEF back
  <2>2. <<PrimOf("0branch"), InlineLit(back)>> \in Seq(Items)
    BY <1>3, <1>4, <2>1
  <2> USE DEF back
  <2>3. QED
    BY <1>2, <2>2, ConcatProperties DEF UntilItems
<1>7. QED
  BY <1>5, <1>6

-----------------------------------------------------------------------------
(* The invariant is preserved: reading the source.                         *)

(* A step of the compiler proper leaves the source, the dictionary and the *)
(* word being run alone.                                                   *)
LEMMA BracketKeeps ==
  ASSUME TypeInv, UNCHANGED <<sourceVars, target, restarts>>,
         phase' \in Phases, FramesOK(frames'), quotStack' \in Seq(Quotations),
         blobs' \in Seq(Rows), specs' \in Seq(Specs), quotRefs' \in Nat,
         markers' \in Seq(Nat)
  PROVE  TypeInv'
BY DEF TypeInv, TypeOK, DictOK, FramesOK, sourceVars

LEMMA CompileKeeps ==
  ASSUME TypeInv, UNCHANGED <<sourceVars, markers, target, restarts>>,
         phase' \in Phases, FramesOK(frames'), quotStack' \in Seq(Quotations),
         blobs' \in Seq(Rows), specs' \in Seq(Specs), quotRefs' \in Nat
  PROVE  TypeInv'
<1>1. markers' \in Seq(Nat)
  BY DEF TypeInv, TypeOK
<1>2. QED
  BY <1>1, BracketKeeps

LEMMA SourceKeeps ==
  ASSUME TypeInv, UNCHANGED <<compileVars, restarts, dict, defs>>,
         phase' \in Phases, quotStack' \in Seq(Quotations), bufDepth' \in Nat,
         pendingSig' \in Sigs, current' \in Currents, src' \in Seq(TokenSet)
  PROVE  TypeInv'
BY DEF TypeInv, TypeOK, DictOK, FramesOK, compileVars

LEMMA FailTyped ==
  ASSUME TypeInv, Fail
  PROVE  TypeInv'
<1>1. phase' \in Phases
  BY DEF Fail, Phases
<1>2. QED
  BY <1>1 DEF Fail, TypeInv, TypeOK, DictOK, FramesOK, sourceVars, compileVars

LEMMA HeadOfSource ==
  ASSUME TypeInv, src # <<>>
  PROVE  Head(src) \in TokenSet /\ Tail(src) \in Seq(TokenSet)
BY HeadTailProperties DEF TypeInv, TypeOK

LEMMA ReadSourceTyped ==
  ASSUME TypeInv, ReadSource
  PROVE  TypeInv'
<1> USE DEF TypeInv
<1>0. TypeOK
  OBVIOUS
<1>1. CASE CompileTypeSigDecl
  <2>1. Head(src).sig \in Sigs /\ Tail(src) \in Seq(TokenSet)
    BY <1>1, HeadOfSource DEF CompileTypeSigDecl, At, TokenSet
  <2>2. QED
    BY <1>0, <1>1, <2>1, SourceKeeps DEF CompileTypeSigDecl, TypeOK
<1>2. CASE SkipToken
  <2>1. Tail(src) \in Seq(TokenSet)
    BY <1>2, HeadOfSource DEF SkipToken, At
  <2>2. QED
    BY <1>0, <1>2, <2>1, SourceKeeps DEF SkipToken, TypeOK
<1>3. CASE SourceError \/ ParenError \/ TooManyDefinitions
  BY <1>3, FailTyped DEF SourceError, ParenError, TooManyDefinitions
<1>4. CASE BeginDefinition
  <2>1. src \in Seq(TokenSet) /\ Len(src) >= 2
    BY <1>0, <1>4 DEF BeginDefinition, HasName, TypeOK
  <2>2. src[2] \in TokenSet /\ Tail(src) \in Seq(TokenSet) /\ Len(Tail(src)) = Len(src) - 1
    BY <2>1, ElementOfSeq, HeadTailProperties, LenProperties, EmptySeq
  <2>3. Tail(Tail(src)) \in Seq(TokenSet)
    <3> DEFINE rest == Tail(src)
    <3>1. rest \in Seq(TokenSet) /\ Len(rest) # 0
      BY <2>1, <2>2, LenProperties
    <3> HIDE DEF rest
    <3>2. rest # <<>>
      BY <3>1, EmptySeq
    <3>3. Tail(rest) \in Seq(TokenSet)
      BY <3>1, <3>2, HeadTailProperties
    <3>4. QED
      BY <3>3 DEF rest
  <2>4. src[2].s \in STRING
    BY <2>2 DEF TokenSet
  <2>5. current' \in Currents
    <3>1. <<>> \in Seq(TokenSet)
      BY EmptySeq
    <3>2. QED
      BY <1>0, <1>4, <2>4, <3>1 DEF BeginDefinition, Currents, TypeOK, Sigs
  <2>6. phase' \in Phases /\ pendingSig' \in Sigs
    BY <1>4, PlaceholderTyped DEF BeginDefinition, Phases
  <2>7. QED
    BY <1>0, <1>4, <2>3, <2>5, <2>6, SourceKeeps DEF BeginDefinition, TypeOK
<1>5. CASE CompileLparen
  <2>1. Tail(src) \in Seq(TokenSet)
    BY <1>5, HeadOfSource DEF CompileLparen, At
  <2>2. Len(defs) + 1 \in Nat /\ <<>> \in Seq(TokenSet)
    BY <1>0, LenProperties DEF TypeOK
  <2>3. [toks |-> <<>>, home |-> Len(defs) + 1] \in Quotations
    BY <2>2 DEF Quotations
  <2>4. quotStack' \in Seq(Quotations)
    BY <1>0, <1>5, <2>3, AppendProperties DEF CompileLparen, TypeOK
  <2>5. QED
    BY <1>0, <1>5, <2>1, <2>4, SourceKeeps DEF CompileLparen, TypeOK
<1>6. CASE CompileRparen
  <2>1. Tail(src) \in Seq(TokenSet)
    BY <1>6, HeadOfSource DEF CompileRparen, At
  <2>2. bufDepth' \in Nat
    BY <1>0, <1>6 DEF CompileRparen, TypeOK
  <2>3. QED
    BY <1>0, <1>6, <2>1, <2>2, SourceKeeps DEF CompileRparen, TypeOK
<1>7. CASE CaptureToken
  <2>1. Head(src) \in TokenSet /\ RestOfDefinition \in Seq(TokenSet)
    <3>1. Head(src) \in TokenSet /\ Tail(src) \in Seq(TokenSet)
      BY <1>7, HeadOfSource DEF CaptureToken, At
    <3>2. Mark(";") \in TokenSet
      BY PlaceholderTyped, SpellingAssumption DEF Mark, Token, TokenSet
    <3>3. \A m \in TokenSet : <<m>> \in Seq(TokenSet)
      OBVIOUS
    <3>4. <<Mark(";")>> \o Tail(src) \in Seq(TokenSet)
      BY <3>1, <3>2, <3>3, ConcatProperties
    <3>5. QED
      BY <3>1, <3>4 DEF RestOfDefinition
  <2>2. CASE bufDepth > 0
    <3> DEFINE n == Len(quotStack)
               q == [quotStack[n] EXCEPT !.toks = Append(@, Head(src))]
    <3>1. quotStack' = [quotStack EXCEPT ![n].toks = Append(@, Head(src))]
          /\ UNCHANGED current
      BY <1>7, <2>2 DEF CaptureToken
    <3>2. CASE n \in 1..Len(quotStack)
      <4>1. quotStack[n] \in Quotations
        BY <1>0, <3>2, ElementOfSeq DEF TypeOK
      <4>2. q \in Quotations
        BY <2>1, <4>1, AppendProperties DEF Quotations
      <4>3. quotStack' \in Seq(Quotations)
        BY <1>0, <3>1, <3>2, <4>2, ExceptSeq DEF TypeOK
      <4>4. QED
        BY <1>0, <1>7, <2>1, <3>1, <4>3, SourceKeeps DEF CaptureToken, TypeOK
    <3>3. CASE n \notin 1..Len(quotStack)
      <4>1. quotStack' = quotStack
        BY <1>0, <3>1, <3>3, LenProperties DEF TypeOK
      <4>2. QED
        BY <1>0, <1>7, <2>1, <3>1, <4>1, SourceKeeps DEF CaptureToken, TypeOK
    <3>4. QED
      BY <3>2, <3>3
  <2>3. CASE ~(bufDepth > 0)
    <3>1. current' = [current EXCEPT !.toks = Append(@, Head(src))]
          /\ UNCHANGED quotStack
      BY <1>7, <2>3 DEF CaptureToken
    <3>2. current' \in Currents
      BY <1>0, <2>1, <3>1, AppendProperties DEF Currents, TypeOK
    <3>3. QED
      BY <1>0, <1>7, <2>1, <3>1, <3>2, SourceKeeps DEF CaptureToken, TypeOK
  <2>4. QED
    BY <2>2, <2>3
<1>8. CASE EndDefinition
  <2> DEFINE n == Len(defs)
             d == [name |-> current.name, toks |-> current.toks]
             e == Entry(current.name, Sig(current.ins, current.outs), "word",
                        NoName, NoName, n + 1)
  <2>1. n \in Nat /\ current \in Currents
    BY <1>0, LenProperties DEF TypeOK
  <2>2. d \in Defs
    BY <2>1 DEF Currents, Defs
  <2>3. /\ defs' \in Seq(Defs) /\ Len(defs') = n + 1
    BY <1>0, <1>8, <2>2, AppendProperties DEF EndDefinition, TypeOK
  <2>4. Sig(current.ins, current.outs) \in Sigs /\ current.name \in STRING
    BY <2>1 DEF Currents, Sig, Sigs
  <2>5. e \in Entries
    <3>1. n + 1 \in Nat
      BY <2>1
    <3>2. QED
      BY <2>4, <3>1, EntryTyped, SpellingAssumption
  <2>6. e.kind = "word" /\ e.def = n + 1
    BY DEF Entry
  <2> HIDE DEF e, d
  <2>7. /\ <<e>> \in Seq(Entries) /\ Len(<<e>>) = 1 /\ <<e>>[1] = e
    BY <2>5
  <2>8. dict' = <<e>> \o dict /\ dict \in Seq(Entries)
    BY <1>0, <1>8 DEF EndDefinition, TypeOK, e
  <2>9. /\ dict' \in Seq(Entries) /\ Len(dict') = Len(dict) + 1
        /\ \A i \in 1..Len(dict') : dict'[i] = IF i = 1 THEN e ELSE dict[i - 1]
    BY <2>7, <2>8, ConcatProperties, LenProperties
  <2>10. DictOK'
    <3>1. Len(dict) \in Nat
      BY <2>8, LenProperties
    <3>2. ASSUME NEW i \in 1..Len(dict')
          PROVE  dict'[i].kind = "word" /\ dict'[i].def \in 1..Len(defs')
      <4>1. CASE i = 1
        BY <2>1, <2>3, <2>6, <2>9, <4>1
      <4>2. CASE i # 1
        <5>1. i - 1 \in 1..Len(dict)
          BY <2>9, <3>1, <4>2
        <5>2. dict[i - 1].kind = "word" /\ dict[i - 1].def \in 1..n
          BY <5>1 DEF DictOK
        <5>3. QED
          BY <2>1, <2>3, <2>9, <4>2, <5>2
      <4>3. QED
        BY <4>1, <4>2
    <3>3. QED
      BY <3>2 DEF DictOK
  <2>11. src' \in Seq(TokenSet)
    BY <1>0, <1>8, HeadOfSource DEF EndDefinition, TypeOK
  <2>12. NoCurrent \in Currents /\ "file" \in Phases
    <3>1. <<>> \in Seq(TokenSet) /\ <<>> \in Seq(Types)
      OBVIOUS
    <3>2. QED
      BY <3>1, SpellingAssumption DEF NoCurrent, Currents, Phases
  <2>13. TypeOK'
    BY <1>0, <1>8, <2>3, <2>9, <2>11, <2>12 DEF EndDefinition, TypeOK, compileVars
  <2>14. FramesOK(frames)'
    BY <1>8 DEF EndDefinition, FramesOK, compileVars
  <2>15. QED
    BY <2>10, <2>13, <2>14
<1>9. CASE EndOfFile
  <2>1. phase' \in Phases
    BY <1>9 DEF EndOfFile, Phases
  <2>2. QED
    BY <1>0, <1>9, <2>1, SourceKeeps DEF EndOfFile, TypeOK, sourceVars
<1>10. QED
  BY <1>1, <1>2, <1>3, <1>4, <1>5, <1>6, <1>7, <1>8, <1>9 DEF ReadSource

-----------------------------------------------------------------------------
(* The invariant is preserved: one token of a definition or quotation.     *)

LEMMA IdleFacts ==
  ASSUME TypeInv, Idle
  PROVE  /\ frames # <<>> /\ FramesOK(frames)
         /\ Top \in Frames /\ FrameOK(Top) /\ Top.op = "none"
         /\ Top.toks \in Seq(TokenSet) /\ Top.types \in Seq(Types)
         /\ Top.cells \in Seq(Cells) /\ Top.blob \in Seq(Items)
         /\ Len(Top.types) \in Nat /\ Len(Top.cells) \in Nat
         /\ phase = "compile"
<1>1. frames # <<>> /\ FramesOK(frames) /\ Top.op = "none" /\ phase = "compile"
  BY DEF TypeInv, Idle, Compiling
<1>2. Top \in Frames /\ FrameOK(Top)
  BY <1>1, TopTyped
<1>3. /\ Top.toks \in Seq(TokenSet) /\ Top.types \in Seq(Types)
      /\ Top.cells \in Seq(Cells) /\ Top.blob \in Seq(Items)
  BY <1>2 DEF Frames
<1>4. QED
  BY <1>1, <1>2, <1>3, LenProperties

LEMMA AtTokenFacts ==
  ASSUME TypeInv, AtToken
  PROVE  /\ Idle /\ Top.toks # <<>>
         /\ Tok \in TokenSet /\ Tok.s \in STRING /\ Tok.n \in Int
<1>1. Idle /\ Top.toks # <<>>
  BY DEF AtToken
<1>2. Tok \in TokenSet
  BY <1>1, IdleFacts, HeadTailProperties DEF Tok
<1>3. QED
  BY <1>1, <1>2 DEF TokenSet

(* What overload resolution returns.                                       *)
LEMMA ResolvedFacts ==
  ASSUME TypeInv, AtToken
  PROVE  /\ Resolved \in Entries
         /\ Len(Resolved.ins) \in Nat
         /\ Resolved.kind # "none" => Len(Top.types) >= Len(Resolved.ins)
         /\ Resolved.kind = "word" => Resolved.def \in 1..Len(defs)
         /\ Resolved.kind = "imm" /\ Tok.s \in StackWords
              => Resolved.ins = StackSig[Tok.s].ins
<1>1. dict \in Seq(Entries) /\ Top.types \in Seq(Types) /\ DictOK
  BY AtTokenFacts, IdleFacts DEF TypeInv, TypeOK
<1>2. /\ Resolved \in Entries
      /\ \/ Resolved = NoEntry
         \/ /\ Resolved.name = Tok.s
            /\ UserEntry(dict, Resolved) \/ BuiltinEntry(Resolved)
            /\ Len(Top.types) >= Len(Resolved.ins)
  BY <1>1, LookupTypedTyped DEF Resolved
<1>3. Len(Resolved.ins) \in Nat
  BY <1>2, LenProperties DEF Entries
<1>4. NoEntry.kind = "none"
  BY DEF NoEntry, Entry
<1>5. UserEntry(dict, Resolved) => Resolved.kind = "word" /\ Resolved.def \in 1..Len(defs)
  BY <1>1 DEF UserEntry, DictOK
<1>6. BuiltinEntry(Resolved) =>
        /\ Resolved.kind \in {"imm", "prim"}
        /\ Resolved.kind = "imm" /\ Resolved.name \in StackWords
             => Resolved.ins = StackSig[Resolved.name].ins
  BY BuiltinsTyped DEF BuiltinEntry
<1>7. QED
  BY <1>2, <1>3, <1>4, <1>5, <1>6

(* A step that only compiles the token at the head of the top frame.       *)
LEMMA EmitKeeps ==
  ASSUME TypeInv, AtToken,
         NEW cells \in Seq(Cells), NEW items \in Seq(Items), NEW types \in Seq(Types),
         frames' = SetTop(Emit(Top, cells, items, types)),
         UNCHANGED <<phase, sourceVars, quotStack, specs, quotRefs, markers, target, restarts>>,
         blobs' \in Seq(Rows)
  PROVE  TypeInv'
<1>1. FrameOK(Emit(Top, cells, items, types)) /\ Emit(Top, cells, items, types).def = Top.def
  BY AtTokenFacts, IdleFacts, EmitOK
<1>2. FramesOK(frames')
  BY <1>1, AtTokenFacts, IdleFacts, SetTopOK
<1>3. /\ phase' \in Phases /\ quotStack' \in Seq(Quotations) /\ specs' \in Seq(Specs)
      /\ quotRefs' \in Nat
  BY DEF TypeInv, TypeOK
<1>4. QED
  BY <1>2, <1>3, CompileKeeps

LEMMA EmitLiteralTyped ==
  ASSUME TypeInv, AtToken, NEW n \in Int, NEW types \in Seq(Types), EmitLiteral(n, types)
  PROVE  TypeInv'
<1> DEFINE cid == CidOf(blobs, LitData(n))
<1>1. blobs \in Seq(Rows) /\ LitData(n) \in Data /\ BLOB_DATA \in Kinds
  BY DataTyped, KindsTyped, SpellingAssumption DEF TypeInv, TypeOK
<1>2. blobs' \in Seq(Rows) /\ cid \in Nat
  BY <1>1, StoreBlobTyped, LenProperties DEF EmitLiteral
<1>3. Lit(n) \in Cells /\ Ref(BLOB_DATA, cid) \in Items
  BY <1>1, <1>2, CellsTyped, ItemsTyped, SpellingAssumption
<1>4. <<Lit(n)>> \in Seq(Cells) /\ <<Ref(BLOB_DATA, cid)>> \in Seq(Items)
  BY <1>3
<1>5. QED
  BY <1>2, <1>4, EmitKeeps DEF EmitLiteral

LEMMA PushI64Typed ==
  ASSUME TypeInv, AtToken
  PROVE  PushTypes(Top.types, <<"i64">>) \in Seq(Types)
<1>1. <<"i64">> \in Seq(Types)
  BY DEF Types, ConcreteTypes
<1>2. QED
  BY <1>1, AtTokenFacts, IdleFacts, PushTypesTyped

LEMMA CompileStringTyped ==
  ASSUME TypeInv, CompileString
  PROVE  TypeInv'
<1> DEFINE cid == CidOf(blobs, StrData(Tok.s))
<1>1. AtToken
  BY DEF CompileString
<1>2. blobs \in Seq(Rows) /\ StrData(Tok.s) \in Data /\ BLOB_STRING \in Kinds /\ BLOB_DATA \in Kinds
  BY <1>1, AtTokenFacts, DataTyped, KindsTyped, SpellingAssumption DEF TypeInv, TypeOK
<1>3. blobs' \in Seq(Rows) /\ cid \in Nat
  <2>1. /\ StoreBlob(blobs, BLOB_STRING, StrData(Tok.s)) \in Seq(Rows)
        /\ cid \in 1..Len(StoreBlob(blobs, BLOB_STRING, StrData(Tok.s)))
    BY <1>2, StoreBlobTyped
  <2>2. QED
    BY <2>1, LenProperties DEF CompileString
<1>4. Lit(0) \in Cells /\ Ref(BLOB_DATA, cid) \in Items
  BY <1>2, <1>3, CellsTyped, ItemsTyped, SpellingAssumption
<1>5. <<Lit(0)>> \in Seq(Cells) /\ <<Ref(BLOB_DATA, cid)>> \in Seq(Items)
  BY <1>4
<1>6. <<"str">> \in Seq(Types)
  BY DEF Types, ConcreteTypes
<1>7. PushTypes(Top.types, <<"str">>) \in Seq(Types)
  BY <1>1, <1>6, AtTokenFacts, IdleFacts, PushTypesTyped
<1>8. QED
  BY <1>1, <1>3, <1>5, <1>7, EmitKeeps DEF CompileString

(* Array literals: the code is made of tokens, whatever "]" has found. *)
LEMMA PutTyped ==
  /\ \A n \in Int : PutLit(n) \in TokenSet
  /\ \A s \in STRING : PutPrim(s) \in TokenSet
<1>1. ASSUME NEW n \in Int PROVE PutLit(n) \in TokenSet
  BY PlaceholderTyped, SpellingAssumption DEF PutLit, Token, TokenSet
<1>2. ASSUME NEW s \in STRING PROVE PutPrim(s) \in TokenSet
  BY PlaceholderTyped DEF PutPrim, Token, TokenSet
<1>3. QED
  BY <1>1, <1>2

LEMMA TypeNumberTyped == \A type : TypeNumber(type) \in Int
BY DEF TypeNumber

ArrayWords == {"alloc", "dup", "!", "+", "swap", "c!", ">r", "r@", "r>"}

LEMMA StoreElementsIn ==
  ASSUME NEW S, \A n \in Int : PutLit(n) \in S, \A s \in ArrayWords : PutPrim(s) \in S,
         NEW count \in Int
  PROVE  StoreElements(count) \in Seq(S)
<1>1. ASSUME NEW i \in Int, NEW j \in 1..5
      PROVE  StoreElement(i)[j] \in S
  <2>1. PutLit(32 + i * 8) \in S
    OBVIOUS
  <2>2. /\ PutPrim("r@") \in S /\ PutPrim("+") \in S
        /\ PutPrim("swap") \in S /\ PutPrim("!") \in S
    BY DEF ArrayWords
  <2>3. QED
    BY <2>1, <2>2 DEF StoreElement
<1>2. ASSUME NEW k \in 1..5 * count
      PROVE  StoreElements(count)[k] \in S
  <2> DEFINE i == count - 1 - ((k - 1) \div 5)
             j == ((k - 1) % 5) + 1
  <2>1. i \in Int /\ j \in 1..5
    OBVIOUS
  <2>2. StoreElements(count)[k] = StoreElement(i)[j]
    BY DEF StoreElements
  <2> HIDE DEF i, j
  <2>3. QED
    BY <1>1, <2>1, <2>2
<1>3. DOMAIN StoreElements(count) = 1..5 * count
  BY DEF StoreElements
<1>4. StoreElements(count) \in [1..5 * count -> S]
  BY <1>2, <1>3 DEF StoreElements
<1>5. CASE count >= 0
  <2>1. 5 * count \in Nat
    BY <1>5
  <2>2. QED
    BY <1>4, <2>1
<1>6. CASE ~(count >= 0)
  <2>1. 1..5 * count = 1..0
    BY <1>6
  <2>2. QED
    BY <1>4, <2>1
<1>7. QED
  BY <1>5, <1>6

LEMMA ArrayCodeIn ==
  ASSUME NEW S, \A n \in Int : PutLit(n) \in S, \A s \in ArrayWords : PutPrim(s) \in S,
         NEW count \in Int, NEW type
  PROVE  ArrayCode(count, type) \in Seq(S)
<1>1. EmptyArrayCode \in Seq(S)
  BY DEF EmptyArrayCode, ArrayWords
<1>2. HeaderCode(count, type) \in Seq(S)
  <2>1. /\ PutLit(32 + count * 8) \in S /\ PutLit(count) \in S
        /\ PutLit(32) \in S /\ PutLit(8) \in S /\ PutLit(16) \in S
        /\ PutLit(TypeNumber(type)) \in S
    BY TypeNumberTyped
  <2>2. \A s \in ArrayWords : PutPrim(s) \in S
    OBVIOUS
  <2>3. QED
    BY <2>1, <2>2 DEF HeaderCode, ArrayWords
<1>3. <<PutPrim("r>")>> \in Seq(S)
  BY DEF ArrayWords
<1>4. StoreElements(count) \in Seq(S)
  BY StoreElementsIn
<1>5. QED
  BY <1>1, <1>2, <1>3, <1>4, ConcatProperties DEF ArrayCode

LEMMA ArrayCodeTyped ==
  ASSUME NEW count \in Int, NEW type
  PROVE  ArrayCode(count, type) \in Seq(TokenSet)
BY PutTyped, ArrayWordsAssumption, ArrayCodeIn DEF ArrayWords

LEMMA CompileLbracketTyped ==
  ASSUME TypeInv, CompileLbracket
  PROVE  TypeInv'
<1>1. AtToken
  BY DEF CompileLbracket
<1>2. <<>> \in Seq(Cells) /\ <<>> \in Seq(Items)
  BY EmptySeq
<1>3. /\ FrameOK(Emit(Top, <<>>, <<>>, Top.types))
      /\ Emit(Top, <<>>, <<>>, Top.types).def = Top.def
  BY <1>1, <1>2, AtTokenFacts, IdleFacts, EmitOK
<1>4. FramesOK(frames')
  BY <1>1, <1>3, AtTokenFacts, IdleFacts, SetTopOK DEF CompileLbracket
<1>5. markers' \in Seq(Nat)
  BY <1>1, AtTokenFacts, IdleFacts, AppendProperties DEF CompileLbracket, TypeInv, TypeOK
<1>6. QED
  BY <1>4, <1>5, BracketKeeps DEF CompileLbracket, TypeInv, TypeOK

(* The types that "]" leaves below the array.                              *)
LEMMA MarkerTyped ==
  ASSUME TypeInv, AtToken, markers # <<>>
  PROVE  /\ Marker \in Nat /\ Count \in Int
         /\ \A types \in TypesAtMarker : types \in Seq(Types) /\ Len(types) = Marker
<1>1. markers \in Seq(Nat) /\ Top.types \in Seq(Types) /\ Len(Top.types) \in Nat
  BY AtTokenFacts, IdleFacts DEF TypeInv, TypeOK
<1>2. Marker \in Nat
  BY <1>1, EmptySeq, LenProperties, ElementOfSeq DEF Marker
<1>3. Count \in Int /\ Count = Len(Top.types) - Marker
  BY <1>1, <1>2 DEF Count
<1>4. CASE Count >= 0
  <2>1. TypesAtMarker = {SubSeq(Top.types, 1, Marker)}
    BY <1>4 DEF TypesAtMarker
  <2>2. \A i \in 1..Marker : Top.types[i] \in Types
    BY <1>1, <1>2, <1>3, <1>4, ElementOfSeq
  <2>3. SubSeq(Top.types, 1, Marker) \in Seq(Types) /\ Len(SubSeq(Top.types, 1, Marker)) = Marker
    BY <1>2, <2>2, SubSeqProperties
  <2>4. QED
    BY <1>2, <1>3, <2>1, <2>3
<1>5. CASE ~(Count >= 0)
  <2>1. ASSUME NEW types \in TypesAtMarker
        PROVE  types \in Seq(Types) /\ Len(types) = Marker
    <3>1. PICK ts \in [1..-Count -> GarbageTypes] : types = Top.types \o ts
      BY <1>5, <2>1 DEF TypesAtMarker, Raised
    <3>2. -Count \in Nat
      BY <1>3, <1>5
    <3>3. ts \in Seq(Types) /\ Len(ts) = -Count
      BY <3>1, <3>2, ConstantsAssumption
    <3>4. types \in Seq(Types) /\ Len(types) = Len(Top.types) + Len(ts)
      BY <1>1, <3>1, <3>3, ConcatProperties
    <3>5. QED
      BY <1>1, <1>2, <1>3, <3>3, <3>4
  <2>2. QED
    BY <1>2, <1>3, <2>1
<1>6. QED
  BY <1>4, <1>5

LEMMA CompileRbracketTyped ==
  ASSUME TypeInv, CompileRbracket
  PROVE  TypeInv'
<1>1. AtToken /\ markers # <<>>
  BY DEF CompileRbracket
<1>2. PICK type \in ElementTypes, types \in TypesAtMarker :
        frames' = SetTop([Top EXCEPT !.toks = ArrayCode(Count, type) \o Tail(@),
                                     !.types = PushTypes(types, <<"array">>)])
  BY DEF CompileRbracket
<1> DEFINE toks == ArrayCode(Count, type) \o Tail(Top.toks)
           ts   == PushTypes(types, <<"array">>)
           g    == [Top EXCEPT !.toks = toks, !.types = ts]
<1>3. toks \in Seq(TokenSet)
  <2>1. Tail(Top.toks) \in Seq(TokenSet)
    BY <1>1, AtTokenFacts, IdleFacts, HeadTailProperties
  <2>2. QED
    BY <1>1, <2>1, MarkerTyped, ArrayCodeTyped, ConcatProperties
<1>4. ts \in Seq(Types)
  <2>1. <<"array">> \in Seq(Types)
    BY DEF Types, ConcreteTypes
  <2>2. QED
    BY <1>1, <2>1, MarkerTyped, PushTypesTyped
<1>5. frames' = SetTop(g)
  BY <1>2
<1> HIDE DEF toks, ts
<1>6. Top \in Frames /\ FrameOK(Top) /\ Top.op = "none" /\ frames # <<>> /\ FramesOK(frames)
  BY <1>1, AtTokenFacts, IdleFacts
<1>7. /\ g \in Frames /\ g.op = "none" /\ g.quots = Top.quots /\ g.done = Top.done
      /\ g.def = Top.def
  BY <1>3, <1>4, <1>6 DEF Frames
<1>8. FrameOK(g)
  BY <1>6, <1>7 DEF FrameOK
<1> HIDE DEF g
<1>9. FramesOK(frames')
  BY <1>5, <1>6, <1>7, <1>8, SetTopOK
<1>10. markers' \in Seq(Nat)
  <2>1. markers \in Seq(Nat) /\ Len(markers) - 1 \in Int /\ 1 \in Int
    BY LenProperties DEF TypeInv, TypeOK
  <2>2. \A i \in 1..Len(markers) - 1 : markers[i] \in Nat
    BY <2>1, ElementOfSeq
  <2>3. QED
    BY <2>1, <2>2, SubSeqProperties DEF CompileRbracket
<1>11. QED
  BY <1>9, <1>10, BracketKeeps DEF CompileRbracket, TypeInv, TypeOK

LEMMA EmitArrayTyped ==
  ASSUME TypeInv, EmitLit \/ EmitPrim
  PROVE  TypeInv'
<1>1. AtToken
  BY DEF EmitLit, EmitPrim
<1>2. Top.types \in Seq(Types) /\ Tok.n \in Int /\ dict \in Seq(Entries)
  BY <1>1, AtTokenFacts, IdleFacts DEF TypeInv, TypeOK
<1>3. CASE EmitLit
  BY <1>1, <1>2, <1>3, EmitLiteralTyped DEF EmitLit
<1>4. CASE EmitPrim
  <2>1. <<XtOf(Tok.s)>> \in Seq(Cells) /\ <<PrimOf(Tok.s)>> \in Seq(Items)
    BY <1>2, LookupEmitsTyped
  <2>2. blobs' \in Seq(Rows)
    BY <1>4 DEF EmitPrim, TypeInv, TypeOK
  <2>3. QED
    BY <1>1, <1>2, <1>4, <2>1, <2>2, EmitKeeps DEF EmitPrim
<1>5. QED
  BY <1>3, <1>4

(* What a word leaves on the type stack.                                   *)
LEMMA ApplyTyped ==
  ASSUME NEW e \in Entries, NEW types \in Seq(Types), SignatureApplies(e, types)
  PROVE  PushTypes(Below(types, Len(e.ins)), Outputs(e, types)) \in Seq(Types)
<1>1. e.ins \in Seq(Types) /\ e.outs \in Seq(Types) /\ Len(e.ins) \in Nat
  BY LenProperties DEF Entries
<1>2. Len(types) >= Len(e.ins)
  BY DEF SignatureApplies
<1>3. Below(types, Len(e.ins)) \in Seq(Types) /\ Outputs(e, types) \in Seq(Types)
  BY <1>1, <1>2, BelowTyped, OutputsTyped
<1>4. QED
  BY <1>3, PushTypesTyped

LEMMA CompilePrimitiveTyped ==
  ASSUME TypeInv, CompilePrimitive
  PROVE  TypeInv'
<1>1. AtToken
  BY DEF CompilePrimitive, AtResolved, AtWord
<1>2. CASE ~SignatureApplies(Resolved, Top.types)
  BY <1>2, FailTyped DEF CompilePrimitive
<1>3. CASE SignatureApplies(Resolved, Top.types)
  <2> DEFINE types == PushTypes(Below(Top.types, Len(Resolved.ins)),
                                Outputs(Resolved, Top.types))
  <2>1. /\ frames' = SetTop(Emit(Top, <<Xt(Resolved.addr)>>, <<Prim(Resolved.prim)>>, types))
        /\ UNCHANGED <<phase, sourceVars, quotStack, blobs, specs, quotRefs, markers, target, restarts>>
    BY <1>3 DEF CompilePrimitive
  <2>2. Resolved \in Entries /\ Top.types \in Seq(Types)
    BY <1>1, AtTokenFacts, IdleFacts, ResolvedFacts
  <2>3. types \in Seq(Types)
    BY <1>3, <2>2, ApplyTyped
  <2>4. Resolved.addr \in STRING /\ Resolved.prim \in STRING
    BY <2>2 DEF Entries
  <2>5. Xt(Resolved.addr) \in Cells /\ Prim(Resolved.prim) \in Items
    BY <2>4, CellsTyped, ItemsTyped, SpellingAssumption
  <2>6. <<Xt(Resolved.addr)>> \in Seq(Cells) /\ <<Prim(Resolved.prim)>> \in Seq(Items)
    BY <2>5
  <2>7. blobs' \in Seq(Rows)
    BY <2>1 DEF TypeInv, TypeOK
  <2> HIDE DEF types
  <2>8. QED
    BY <1>1, <2>1, <2>3, <2>6, <2>7, EmitKeeps
<1>4. QED
  BY <1>2, <1>3

-----------------------------------------------------------------------------
(* The invariant is preserved: calls.                                      *)

LEMMA FirstOfTyped ==
  ASSUME NEW S, S \subseteq Nat, S # {}
  PROVE  FirstOf(S) \in S
BY SmallestElement DEF FirstOf

LEMMA EmitCallOK ==
  ASSUME NEW f \in Frames, f.toks # <<>>, NEW e \in Entries, NEW cid \in Nat,
         SignatureApplies(e, f.types)
  PROVE  FrameOK(EmitCall(f, e, cid)) /\ EmitCall(f, e, cid).def = f.def
<1>1. f.types \in Seq(Types)
  BY DEF Frames
<1>2. PushTypes(Below(f.types, Len(e.ins)), Outputs(e, f.types)) \in Seq(Types)
  BY <1>1, ApplyTyped
<1>3. Xt(NoName) \in Cells /\ Ref(BLOB_WORD, cid) \in Items
  BY CellsTyped, ItemsTyped, KindsTyped, SpellingAssumption
<1>4. <<Xt(NoName)>> \in Seq(Cells) /\ <<Ref(BLOB_WORD, cid)>> \in Seq(Items)
  BY <1>3
<1>5. QED
  BY <1>2, <1>4, EmitOK DEF EmitCall

LEMMA CallHitTyped ==
  ASSUME TypeInv, CallHit
  PROVE  TypeInv'
<1>1. AtToken
  BY DEF CallHit, AtResolved, AtWord
<1>2. CASE ~SignatureApplies(Resolved, Top.types)
  BY <1>2, FailTyped DEF CallHit
<1>3. CASE SignatureApplies(Resolved, Top.types)
  <2> DEFINE S   == SpecHits(Tok.s, CallInputs)
             cid == specs[FirstOf(S)].cid
  <2>1. /\ frames' = SetTop(EmitCall(Top, Resolved, cid))
        /\ UNCHANGED <<phase, sourceVars, quotStack, blobs, specs, quotRefs, markers, target, restarts>>
    BY <1>3 DEF CallHit
  <2>2. S \subseteq 1..Len(specs) /\ S # {}
    BY DEF CallHit, SpecHits
  <2>3. FirstOf(S) \in 1..Len(specs)
    BY <2>2, FirstOfTyped
  <2>4. specs[FirstOf(S)] \in Specs
    BY <2>3, ElementOfSeq DEF TypeInv, TypeOK
  <2>5. cid \in Nat
    BY <2>4 DEF Specs
  <2> HIDE DEF cid
  <2>6. FrameOK(EmitCall(Top, Resolved, cid)) /\ EmitCall(Top, Resolved, cid).def = Top.def
    BY <1>1, <1>3, <2>5, AtTokenFacts, IdleFacts, ResolvedFacts, EmitCallOK
  <2>7. FramesOK(frames')
    BY <1>1, <2>1, <2>6, AtTokenFacts, IdleFacts, SetTopOK
  <2>8. QED
    BY <2>1, <2>7, CompileKeeps DEF TypeInv, TypeOK
<1>4. QED
  BY <1>2, <1>3

(* Starting a compilation on top of another one.                           *)
LEMMA EnterKeeps ==
  ASSUME TypeInv, FramesOK(frames), frames # <<>>,
         NEW g, FrameOK(g), g.def = Top.def,
         NEW h, FrameOK(h), Awaits(g, h.def),
         Enter(g, h),
         UNCHANGED <<sourceVars, quotStack, blobs, specs, quotRefs, markers, target, restarts>>
  PROVE  TypeInv'
<1>1. CASE Len(frames) >= MaxFrames
  BY <1>1, CompileKeeps DEF Enter, TypeInv, TypeOK, Phases
<1>2. CASE ~(Len(frames) >= MaxFrames)
  <2>1. frames' = Append(SetTop(g), h) /\ UNCHANGED phase
    BY <1>2 DEF Enter
  <2>2. FramesOK(frames')
    BY <2>1, EnterOK
  <2>3. QED
    BY <2>1, <2>2, CompileKeeps DEF TypeInv, TypeOK
<1>3. QED
  BY <1>1, <1>2

LEMMA CallMissTyped ==
  ASSUME TypeInv, CallMiss
  PROVE  TypeInv'
<1> DEFINE g == [Top EXCEPT !.op = "call"]
           h == NewFrame(Resolved.def, CallInputs, PushTypes(<<>>, CallInputs),
                         defs[Resolved.def].toks)
<1>1. AtToken /\ Resolved.kind = "word"
  BY DEF CallMiss, AtResolved, AtWord
<1>2. /\ frames # <<>> /\ FramesOK(frames) /\ Top \in Frames /\ FrameOK(Top)
      /\ Top.op = "none" /\ Top.toks # <<>> /\ Top.types \in Seq(Types)
      /\ Len(Top.types) \in Nat
  BY <1>1, AtTokenFacts, IdleFacts
<1>3. /\ Len(Resolved.ins) \in 0..Len(Top.types)
      /\ Resolved.def \in 1..Len(defs)
  BY <1>1, <1>2, ResolvedFacts
<1>4. FrameOK(g) /\ g.def = Top.def /\ g.op = "call"
  <2>1. Len(Top.quots) = 0 /\ Len(Top.done) <= Len(Top.quots)
    BY <1>2 DEF FrameOK, QuotsTaken
  <2>2. g \in Frames
    BY <1>2 DEF Frames, Ops
  <2>3. g.quots = Top.quots /\ g.done = Top.done /\ g.toks = Top.toks
        /\ g.op = "call" /\ g.def = Top.def
    BY <1>2 DEF Frames
  <2>4. QED
    BY <1>2, <2>1, <2>2, <2>3 DEF FrameOK, QuotsTaken
<1>5. CallInputs \in Seq(Types) /\ <<>> \in Seq(Types)
  BY <1>2, <1>3, TopOfTyped DEF CallInputs
<1>6. PushTypes(<<>>, CallInputs) \in Seq(Types)
  BY <1>5, PushTypesTyped
<1>7. defs[Resolved.def] \in Defs /\ Resolved.def \in Nat /\ Resolved.def # 0
  BY <1>3, ElementOfSeq DEF TypeInv, TypeOK
<1>8. defs[Resolved.def].toks \in Seq(TokenSet)
  BY <1>7 DEF Defs
<1>9. FrameOK(h) /\ h.def # 0
  BY <1>5, <1>6, <1>7, <1>8, NewFrameOK
<1>10. Awaits(g, h.def)
  BY <1>4, <1>9 DEF Awaits
<1>11. /\ Enter(g, h)
       /\ UNCHANGED <<sourceVars, quotStack, blobs, specs, quotRefs, markers, target, restarts>>
  BY DEF CallMiss
<1> HIDE DEF g, h
<1>12. QED
  BY <1>2, <1>4, <1>9, <1>10, <1>11, EnterKeeps

(* The frame under the top one. *)
LEMMA CallerFacts ==
  ASSUME TypeInv, Idle, Len(frames) > 1
  PROVE  /\ frames[Len(frames) - 1] \in Frames /\ FrameOK(frames[Len(frames) - 1])
         /\ Awaits(frames[Len(frames) - 1], Top.def)
<1>1. FramesOK(frames) /\ frames \in Seq(Frames) /\ Len(frames) \in Nat
  BY LenProperties DEF TypeInv, FramesOK
<1>2. Len(frames) - 1 \in 1..Len(frames) /\ Len(frames) - 1 \in 1..Len(frames) - 1
  BY <1>1
<1>3. FrameOK(frames[Len(frames) - 1])
  BY <1>1, <1>2 DEF FramesOK
<1>4. (Len(frames) - 1) + 1 = Len(frames)
  BY <1>1
<1>5. QED
  BY <1>1, <1>2, <1>3, <1>4 DEF FramesOK, FrameOK, Top

LEMMA CallerFrame ==
  ASSUME TypeInv, Idle, Len(frames) > 1
  PROVE  /\ PopFrame[Len(frames) - 1] = frames[Len(frames) - 1]
         /\ Len(frames) \in Nat /\ frames \in Seq(Frames)
         /\ Top = frames[(Len(frames) - 1) + 1]
<1> DEFINE n == Len(frames) - 1
<1>1. frames \in Seq(Frames) /\ Len(frames) \in Nat
  BY LenProperties DEF TypeInv, TypeOK
<1>2. n \in 1..n /\ n \in Int /\ 1 \in Int /\ n + 1 = Len(frames)
  BY <1>1
<1>3. \A i \in 1..n : frames[i] \in Frames
  BY <1>1, ElementOfSeq
<1>4. PopFrame[n] = frames[n]
  BY <1>2, <1>3, SubSeqProperties DEF PopFrame
<1>5. QED
  BY <1>1, <1>2, <1>4 DEF Top

LEMMA FinishCallTyped ==
  ASSUME TypeInv, FinishCall
  PROVE  TypeInv'
<1> DEFINE code   == CodeData(Top.blob)
           cid    == CidOf(blobs, code)
           caller == frames[Len(frames) - 1]
           name   == Head(caller.toks).s
           entry  == DictLookupTyped(dict, name, caller.types)
<1>1. Idle /\ Len(frames) > 1 /\ Top.def # 0
  BY DEF FinishCall, WordDone
<1>2. /\ blobs' = StoreBlob(blobs, BLOB_WORD, code)
      /\ specs' = SpecStore(name, Top.ins, cid, entry.def)
      /\ UNCHANGED <<sourceVars, quotStack, quotRefs, markers, target, restarts>>
  BY DEF FinishCall
<1>3. /\ caller \in Frames /\ FrameOK(caller) /\ caller.op = "call"
      /\ caller.toks # <<>> /\ Top \in Frames
  BY <1>1, CallerFacts, IdleFacts DEF FrameOK, Awaits
<1>4. caller.toks \in Seq(TokenSet) /\ caller.types \in Seq(Types) /\ Top.ins \in Seq(Types)
      /\ Top.blob \in Seq(Items)
  BY <1>3 DEF Frames
<1>5. code \in Data /\ BLOB_WORD \in Kinds
  BY <1>4, DataTyped, KindsTyped, SpellingAssumption
<1> HIDE DEF code
<1>6. blobs' \in Seq(Rows) /\ cid \in Nat
  <2>1. /\ StoreBlob(blobs, BLOB_WORD, code) \in Seq(Rows)
        /\ cid \in 1..Len(StoreBlob(blobs, BLOB_WORD, code))
    BY <1>5, StoreBlobTyped DEF TypeInv, TypeOK
  <2>2. QED
    BY <1>2, <2>1, LenProperties
<1>7. entry \in Entries
  BY <1>4, LookupTypedTyped DEF TypeInv, TypeOK
<1>8. Head(caller.toks) \in TokenSet
  BY <1>3, <1>4, HeadTailProperties
<1>9. specs' \in Seq(Specs)
  <2>1. name \in STRING /\ entry.def \in Nat
    BY <1>7, <1>8 DEF TokenSet, Entries
  <2> HIDE DEF cid, name, entry
  <2>2. [name |-> name, ins |-> Top.ins, cid |-> cid, def |-> entry.def] \in Specs
    BY <1>4, <1>6, <2>1 DEF Specs
  <2>3. specs \in Seq(Specs)
    BY DEF TypeInv, TypeOK
  <2>4. QED
    BY <1>2, <2>2, <2>3, AppendProperties DEF SpecStore
<1> HIDE DEF cid
<1>10. CASE ~SignatureApplies(entry, caller.types)
  <2>1. phase' = "failed" /\ UNCHANGED frames
    BY <1>10 DEF FinishCall
  <2>2. phase' \in Phases /\ FramesOK(frames')
    BY <2>1 DEF Phases, TypeInv
  <2>3. QED
    BY <1>2, <1>6, <1>9, <2>2, CompileKeeps DEF TypeInv, TypeOK
<1>11. CASE SignatureApplies(entry, caller.types)
  <2>1. /\ frames' = [PopFrame EXCEPT ![Len(frames) - 1] = EmitCall(caller, entry, cid)]
        /\ UNCHANGED phase
    BY <1>11 DEF FinishCall, cid, code
  <2> HIDE DEF entry
  <2>2. /\ FrameOK(EmitCall(caller, entry, cid))
        /\ EmitCall(caller, entry, cid).def = caller.def
    BY <1>3, <1>6, <1>7, <1>11, EmitCallOK
  <2>3. FramesOK(frames')
    BY <1>1, <2>1, <2>2, PopOK DEF TypeInv
  <2>4. QED
    BY <1>2, <1>6, <1>9, <2>1, <2>3, CompileKeeps DEF TypeInv, TypeOK
<1>12. QED
  BY <1>10, <1>11

-----------------------------------------------------------------------------
(* The invariant is preserved: quotations.                                 *)

LEMMA TakeQuotsTyped ==
  ASSUME quotStack \in Seq(Quotations), NEW n \in 0..Len(quotStack)
  PROVE  /\ TakeQuots(n) \in Seq(Quotations) /\ Len(TakeQuots(n)) = n
         /\ LeaveQuots(n) \in Seq(Quotations) /\ Len(LeaveQuots(n)) = Len(quotStack) - n
<1>1. /\ \A i \in Len(quotStack) - n + 1..Len(quotStack) : quotStack[i] \in Quotations
      /\ \A i \in 1..Len(quotStack) - n : quotStack[i] \in Quotations
  BY ElementOfSeq
<1>2. /\ Len(quotStack) - n + 1 \in Int /\ Len(quotStack) \in Int
      /\ 1 \in Int /\ Len(quotStack) - n \in Int
  OBVIOUS
<1>3. TakeQuots(n) \in Seq(Quotations)
  BY <1>1, <1>2, SubSeqProperties DEF TakeQuots
<1>4. LeaveQuots(n) \in Seq(Quotations)
  BY <1>1, <1>2, SubSeqProperties DEF LeaveQuots
<1>5. Len(TakeQuots(n)) = n
  BY <1>1, <1>2, SubSeqProperties DEF TakeQuots
<1>6. Len(LeaveQuots(n)) = Len(quotStack) - n
  BY <1>1, <1>2, SubSeqProperties DEF LeaveQuots
<1>7. QED
  BY <1>3, <1>4, <1>5, <1>6

LEMMA ConsumeTyped ==
  ASSUME TypeInv, Idle, NEW n \in 0..Len(quotStack),
         NEW op \in {"mat", "if", "times", "until"}, QuotsTaken(op) = n,
         op # "mat" => Top.toks # <<>>,
         NEW types \in Seq(Types), Consume(n, op, TakeQuots(n), types)
  PROVE  TypeInv'
<1> DEFINE g == [Top EXCEPT !.op = op, !.quots = TakeQuots(n), !.types = types]
<1>1. quotStack \in Seq(Quotations)
  BY DEF TypeInv, TypeOK
<1>2. /\ TakeQuots(n) \in Seq(Quotations) /\ Len(TakeQuots(n)) = n
      /\ LeaveQuots(n) \in Seq(Quotations)
  BY <1>1, TakeQuotsTyped
<1>3. /\ frames # <<>> /\ FramesOK(frames) /\ Top \in Frames /\ FrameOK(Top)
      /\ Top.op = "none"
  BY IdleFacts
<1>4. Len(Top.quots) = 0 /\ Len(Top.done) <= Len(Top.quots) /\ Len(Top.done) \in Nat
  BY <1>3, LenProperties DEF FrameOK, QuotsTaken, Frames
<1>5. g \in Frames
  BY <1>2, <1>3 DEF Frames, Ops
<1>6. /\ g.quots = TakeQuots(n) /\ g.done = Top.done /\ g.toks = Top.toks
      /\ g.op = op /\ g.def = Top.def
  BY <1>3 DEF Frames
<1>7. FrameOK(g) /\ g.def = Top.def
  BY <1>2, <1>4, <1>5, <1>6 DEF FrameOK
<1>8. frames' = SetTop(g) /\ quotStack' = LeaveQuots(n)
      /\ UNCHANGED <<phase, sourceVars, blobs, specs, quotRefs, markers, target, restarts>>
  BY DEF Consume
<1> HIDE DEF g
<1>9. FramesOK(frames')
  BY <1>3, <1>7, <1>8, SetTopOK
<1>10. QED
  BY <1>2, <1>8, <1>9, CompileKeeps DEF TypeInv, TypeOK

LEMMA QuotStackDepth ==
  ASSUME TypeInv
  PROVE  Len(quotStack) \in Nat /\ (quotStack # <<>> => Len(quotStack) >= 1)
BY LenProperties, EmptySeq DEF TypeInv, TypeOK

LEMMA BeginMaterializeTyped ==
  ASSUME TypeInv, BeginMaterialize
  PROVE  TypeInv'
<1>1. Idle /\ 1 \in 0..Len(quotStack) /\ Consume(1, "mat", TakeQuots(1), Top.types)
  BY QuotStackDepth DEF BeginMaterialize
<1>2. QuotsTaken("mat") = 1
  BY DEF QuotsTaken
<1>3. Top.types \in Seq(Types)
  BY <1>1, IdleFacts
<1>4. QED
  BY <1>1, <1>2, <1>3, ConsumeTyped

LEMMA BeginControlTyped ==
  ASSUME TypeInv, BeginIf \/ BeginTimes \/ BeginUntil
  PROVE  TypeInv'
<1>1. AtToken
  BY DEF BeginIf, BeginTimes, BeginUntil, AtImmediate, AtResolved, AtWord
<1>2. Idle /\ Top.toks # <<>> /\ Top.types \in Seq(Types) /\ Below(Top.types, 1) \in Seq(Types)
  BY <1>1, AtTokenFacts, IdleFacts, BelowTyped
<1>3. Len(quotStack) \in Nat
  BY QuotStackDepth
<1>4. QuotsTaken("if") = 2 /\ QuotsTaken("until") = 2 /\ QuotsTaken("times") = 1
  BY DEF QuotsTaken
<1>5. CASE BeginIf
  BY <1>2, <1>3, <1>4, <1>5, ConsumeTyped DEF BeginIf
<1>6. CASE BeginTimes
  BY <1>2, <1>3, <1>4, <1>6, ConsumeTyped DEF BeginTimes
<1>7. CASE BeginUntil
  BY <1>2, <1>3, <1>4, <1>7, ConsumeTyped DEF BeginUntil
<1>8. QED
  BY <1>5, <1>6, <1>7

LEMMA EnterQuotationTyped ==
  ASSUME TypeInv, EnterQuotation
  PROVE  TypeInv'
<1> DEFINE ctx == IF Top.op = "mat" THEN <<>> ELSE Top.types
           k   == Len(Top.done) + 1
           h   == NewFrame(0, ctx, ctx, Top.quots[k].toks)
<1>1. /\ frames # <<>> /\ FramesOK(frames) /\ Top \in Frames /\ FrameOK(Top)
      /\ Len(Top.done) < Len(Top.quots)
  BY TopTyped DEF EnterQuotation, Compiling, TypeInv
<1>2. /\ Top.types \in Seq(Types) /\ <<>> \in Seq(Types)
      /\ Top.quots \in Seq(Quotations) /\ Len(Top.quots) \in Nat /\ Len(Top.done) \in Nat
  BY <1>1, LenProperties DEF Frames
<1>3. ctx \in Seq(Types)
  BY <1>2
<1>4. Top.quots[k] \in Quotations
  BY <1>1, <1>2, ElementOfSeq
<1>5. Top.quots[k].toks \in Seq(TokenSet)
  BY <1>4 DEF Quotations
<1> HIDE DEF ctx
<1>6. FrameOK(h) /\ h.def = 0
  BY <1>3, <1>5, NewFrameOK
<1>7. Awaits(Top, h.def)
  <2>1. Top.op \notin {"none", "call"}
    BY <1>1, <1>2 DEF FrameOK, QuotsTaken
  <2> HIDE DEF h
  <2>2. QED
    BY <1>1, <1>6, <2>1 DEF Awaits
<1>8. /\ Enter(Top, h)
      /\ UNCHANGED <<sourceVars, quotStack, blobs, specs, quotRefs, markers, target, restarts>>
  BY DEF EnterQuotation, ctx
<1> HIDE DEF h
<1>9. QED
  BY <1>1, <1>6, <1>7, <1>8, EnterKeeps

LEMMA FinishQuotationTyped ==
  ASSUME TypeInv, FinishQuotation
  PROVE  TypeInv'
<1> DEFINE n      == Len(frames)
           caller == frames[n - 1]
           result == [cells |-> Append(Top.cells, Exit), blob |-> Top.blob,
                      outs |-> Top.types]
           g      == [caller EXCEPT !.done = Append(@, result)]
<1>1. Idle /\ n > 1 /\ Top.def = 0
  BY DEF FinishQuotation
<1>2. /\ caller \in Frames /\ FrameOK(caller) /\ caller.op \notin {"none", "call"}
      /\ Len(caller.done) < Len(caller.quots)
  BY <1>1, CallerFacts DEF Awaits
<1>3. result \in Compiled
  <2>1. Exit \in Cells
    BY CellsTyped, SpellingAssumption
  <2>2. Append(Top.cells, Exit) \in Seq(Cells)
    BY <1>1, <2>1, IdleFacts, AppendProperties
  <2>3. QED
    BY <1>1, <2>2, IdleFacts DEF Compiled
<1> HIDE DEF result
<1>4. caller.done \in Seq(Compiled) /\ caller.quots \in Seq(Quotations)
  BY <1>2 DEF Frames
<1>5. /\ Append(caller.done, result) \in Seq(Compiled)
      /\ Len(Append(caller.done, result)) = Len(caller.done) + 1
  BY <1>3, <1>4, AppendProperties
<1>6. /\ g \in Frames
      /\ g.quots = caller.quots /\ g.done = Append(caller.done, result)
      /\ g.toks = caller.toks /\ g.op = caller.op /\ g.def = caller.def
  BY <1>2, <1>5 DEF Frames
<1>7. FrameOK(g) /\ g.def = caller.def
  BY <1>2, <1>4, <1>5, <1>6, LenProperties DEF FrameOK
<1>8. /\ frames' = [PopFrame EXCEPT ![n - 1].done = Append(@, result)]
      /\ UNCHANGED <<phase, sourceVars, quotStack, blobs, specs, quotRefs, markers, target, restarts>>
  BY DEF FinishQuotation, result
<1>9. PopFrame[n - 1] = caller
  <2>1. frames \in Seq(Frames) /\ n \in Nat
    BY LenProperties DEF TypeInv, TypeOK
  <2>2. n - 1 \in 1..n - 1 /\ n - 1 \in Int /\ 1 \in Int
    BY <1>1, <2>1
  <2>3. \A i \in 1..n - 1 : frames[i] \in Frames
    BY <2>1, ElementOfSeq
  <2>4. QED
    BY <2>2, <2>3, SubSeqProperties DEF PopFrame
<1>10. frames' = [PopFrame EXCEPT ![n - 1] = g]
  BY <1>8, <1>9
<1> HIDE DEF g
<1>11. FramesOK(frames')
  BY <1>1, <1>7, <1>10, PopOK DEF TypeInv
<1>12. QED
  BY <1>8, <1>11, CompileKeeps DEF TypeInv, TypeOK

(* All quotations of the top frame are compiled. *)
LEMMA ReadyFacts ==
  ASSUME TypeInv, NEW op, Ready(op), op \in {"mat", "if", "times", "until"}
  PROVE  /\ frames # <<>> /\ FramesOK(frames) /\ Top \in Frames /\ FrameOK(Top)
         /\ Len(Top.done) = QuotsTaken(op)
         /\ \A k \in 1..QuotsTaken(op) : Top.done[k] \in Compiled
         /\ op # "mat" => Top.toks # <<>>
         /\ Top.types \in Seq(Types) /\ Len(Top.cells) \in Nat
<1>1. /\ frames # <<>> /\ FramesOK(frames) /\ Top \in Frames /\ FrameOK(Top)
      /\ Top.op = op /\ Len(Top.done) = Len(Top.quots)
  BY TopTyped DEF Ready, Compiling, TypeInv
<1>2. Len(Top.done) = QuotsTaken(op) /\ (op # "mat" => Top.toks # <<>>)
  BY <1>1 DEF FrameOK
<1>3. /\ Top.done \in Seq(Compiled) /\ Top.types \in Seq(Types) /\ Top.cells \in Seq(Cells)
  BY <1>1 DEF Frames
<1>4. \A k \in 1..Len(Top.done) : Top.done[k] \in Compiled
  BY <1>3, ElementOfSeq
<1>5. QED
  BY <1>1, <1>2, <1>3, <1>4, LenProperties

LEMMA FinishMaterializeTyped ==
  ASSUME TypeInv, FinishMaterialize
  PROVE  TypeInv'
<1> DEFINE code == CodeData(Top.done[1].blob)
           cid  == CidOf(blobs, code)
           g    == [Top EXCEPT !.cells = Append(@, Lit(0)),
                               !.blob = Append(@, Ref(BLOB_QUOTATION, cid)),
                               !.types = PushTypes(@, <<"ptr">>),
                               !.op = "none", !.quots = <<>>, !.done = <<>>]
<1>1. /\ frames # <<>> /\ FramesOK(frames) /\ Top \in Frames /\ FrameOK(Top)
      /\ Top.done[1] \in Compiled
  BY ReadyFacts DEF FinishMaterialize, QuotsTaken
<1>2. Top.done[1].blob \in Seq(Items)
  BY <1>1 DEF Compiled
<1>3. code \in Data /\ BLOB_QUOTATION \in Kinds
  BY <1>2, DataTyped, KindsTyped, SpellingAssumption
<1>4. /\ blobs' = StoreBlob(blobs, BLOB_QUOTATION, code)
      /\ UNCHANGED <<sourceVars, quotStack, specs, markers, target, restarts>>
  BY DEF FinishMaterialize
<1> HIDE DEF code
<1>5. blobs' \in Seq(Rows) /\ cid \in Nat
  <2>1. /\ StoreBlob(blobs, BLOB_QUOTATION, code) \in Seq(Rows)
        /\ cid \in 1..Len(StoreBlob(blobs, BLOB_QUOTATION, code))
    BY <1>3, StoreBlobTyped DEF TypeInv, TypeOK
  <2>2. QED
    BY <1>4, <2>1, LenProperties
<1> HIDE DEF cid
<1>6. CASE quotRefs >= MaxQuotRefs
  <2>1. phase' = "failed" /\ UNCHANGED <<frames, quotRefs>>
    BY <1>6 DEF FinishMaterialize
  <2>2. QED
    BY <1>1, <1>4, <1>5, <2>1, CompileKeeps DEF TypeInv, TypeOK, Phases
<1>7. CASE ~(quotRefs >= MaxQuotRefs)
  <2>1. frames' = SetTop(g) /\ quotRefs' = quotRefs + 1 /\ UNCHANGED phase
    BY <1>7 DEF FinishMaterialize, code, cid
  <2>2. /\ Top.cells \in Seq(Cells) /\ Top.blob \in Seq(Items) /\ Top.types \in Seq(Types)
    BY <1>1 DEF Frames
  <2>3. Lit(0) \in Cells /\ Ref(BLOB_QUOTATION, cid) \in Items
    BY <1>3, <1>5, CellsTyped, ItemsTyped, SpellingAssumption
  <2>4. /\ Append(Top.cells, Lit(0)) \in Seq(Cells)
        /\ Append(Top.blob, Ref(BLOB_QUOTATION, cid)) \in Seq(Items)
    BY <2>2, <2>3, AppendProperties
  <2>5. <<"ptr">> \in Seq(Types)
    BY DEF Types, ConcreteTypes
  <2>6. PushTypes(Top.types, <<"ptr">>) \in Seq(Types)
    BY <2>2, <2>5, PushTypesTyped
  <2>7. <<>> \in Seq(Quotations) /\ <<>> \in Seq(Compiled)
    BY EmptySeq
  <2>8. g \in Frames
    BY <1>1, <2>4, <2>6, <2>7 DEF Frames, Ops
  <2>9. g.quots = <<>> /\ g.done = <<>> /\ g.op = "none" /\ g.def = Top.def
    BY <1>1 DEF Frames
  <2>10. FrameOK(g)
    BY <2>8, <2>9, EmptySeq DEF FrameOK, QuotsTaken
  <2> HIDE DEF g
  <2>11. FramesOK(frames')
    BY <1>1, <2>1, <2>9, <2>10, SetTopOK
  <2>12. quotRefs' \in Nat
    BY <2>1 DEF TypeInv, TypeOK
  <2>13. QED
    BY <1>4, <1>5, <2>1, <2>11, <2>12, CompileKeeps DEF TypeInv, TypeOK
<1>8. QED
  BY <1>6, <1>7

-----------------------------------------------------------------------------
(* The invariant is preserved: immediate words.                            *)

LEMMA CompileBoolTyped ==
  ASSUME TypeInv, CompileBool
  PROVE  TypeInv'
<1>1. AtToken
  BY DEF CompileBool, AtImmediate, AtResolved, AtWord
<1> DEFINE types == PushTypes(Top.types, <<"i64">>)
<1>2. types \in Seq(Types)
  BY <1>1, PushI64Typed
<1>3. EmitLiteral(-1, types) \/ EmitLiteral(0, types)
  BY DEF CompileBool
<1> HIDE DEF types
<1>4. QED
  BY <1>1, <1>2, <1>3, EmitLiteralTyped

LEMMA StackEffectTyped ==
  ASSUME NEW name \in StackWords, NEW ts \in Seq(Types), Len(ts) >= Len(StackSig[name].ins)
  PROVE  StackEffect(name, ts) \in Seq(Types)
<1> DEFINE n == Len(ts)
<1>1. n \in Nat /\ \A i \in 1..n : ts[i] \in Types
  BY LenProperties, ElementOfSeq
<1>2. CASE name = "drop"
  <2>1. n - 1 \in Int /\ 1 \in Int /\ \A i \in 1..n - 1 : ts[i] \in Types
    BY <1>1
  <2>2. SubSeq(ts, 1, n - 1) \in Seq(Types)
    BY <2>1, SubSeqProperties
  <2>3. QED
    BY <1>2, <2>2 DEF StackEffect
<1>3. CASE name = "dup"
  <2>1. n >= 1
    BY <1>3, StackSigTyped
  <2>2. ts[n] \in Types
    BY <1>1, <2>1
  <2>3. Append(ts, ts[n]) \in Seq(Types)
    BY <2>2, AppendProperties
  <2>4. QED
    BY <1>3, <2>3 DEF StackEffect
<1>4. CASE name = "over"
  <2>1. n >= 2
    BY <1>4, StackSigTyped
  <2>2. ts[n - 1] \in Types
    BY <1>1, <2>1
  <2>3. Append(ts, ts[n - 1]) \in Seq(Types)
    BY <2>2, AppendProperties
  <2>4. QED
    BY <1>4, <2>3 DEF StackEffect
<1>5. CASE name = "swap"
  <2>1. n >= 2
    BY <1>5, StackSigTyped
  <2>2. n \in 1..n /\ n - 1 \in 1..n /\ ts[n] \in Types /\ ts[n - 1] \in Types
    BY <1>1, <2>1
  <2> DEFINE us == [ts EXCEPT ![n - 1] = ts[n]]
  <2>3. us \in Seq(Types) /\ Len(us) = n
    BY <2>2, ExceptSeq
  <2>4. [us EXCEPT ![n] = ts[n - 1]] \in Seq(Types)
    BY <2>2, <2>3, ExceptSeq
  <2>5. QED
    BY <1>5, <2>4 DEF StackEffect
<1>6. CASE name = "rot"
  <2>1. n >= 3
    BY <1>6, StackSigTyped
  <2>2. /\ n \in 1..n /\ n - 1 \in 1..n /\ n - 2 \in 1..n
        /\ ts[n] \in Types /\ ts[n - 1] \in Types /\ ts[n - 2] \in Types
    BY <1>1, <2>1
  <2> DEFINE us == [ts EXCEPT ![n - 2] = ts[n - 1]]
             vs == [us EXCEPT ![n - 1] = ts[n]]
  <2>3. us \in Seq(Types) /\ Len(us) = n
    BY <2>2, ExceptSeq
  <2>4. vs \in Seq(Types) /\ Len(vs) = n
    BY <2>2, <2>3, ExceptSeq
  <2>5. [vs EXCEPT ![n] = ts[n - 2]] \in Seq(Types)
    BY <2>2, <2>4, ExceptSeq
  <2>6. QED
    BY <1>6, <2>5 DEF StackEffect
<1>7. QED
  BY <1>2, <1>3, <1>4, <1>5, <1>6 DEF StackWords

LEMMA CompileStackWordTyped ==
  ASSUME TypeInv, CompileStackWord
  PROVE  TypeInv'
<1>1. AtToken /\ Resolved.kind = "imm" /\ Tok.s \in StackWords
  BY DEF CompileStackWord, AtImmediate, AtResolved, AtWord
<1>2. Top.types \in Seq(Types) /\ Len(Top.types) >= Len(StackSig[Tok.s].ins)
  <2>1. Len(Top.types) >= Len(Resolved.ins) /\ Resolved.ins = StackSig[Tok.s].ins
    BY <1>1, ResolvedFacts
  <2>2. QED
    BY <1>1, <2>1, AtTokenFacts, IdleFacts
<1>3. StackEffect(Tok.s, Top.types) \in Seq(Types)
  BY <1>1, <1>2, StackEffectTyped
<1>4. XtOf(Tok.s) \in Cells /\ PrimOf(Tok.s) \in Items
  BY LookupEmitsTyped DEF TypeInv, TypeOK
<1>5. <<XtOf(Tok.s)>> \in Seq(Cells) /\ <<PrimOf(Tok.s)>> \in Seq(Items)
  BY <1>4
<1>6. CASE Fail
  BY <1>6, FailTyped
<1>7. CASE ~Fail
  <2>1. /\ frames' = SetTop(Emit(Top, <<XtOf(Tok.s)>>, <<PrimOf(Tok.s)>>,
                                 StackEffect(Tok.s, Top.types)))
        /\ UNCHANGED <<phase, sourceVars, quotStack, blobs, specs, quotRefs, markers, target, restarts>>
    BY <1>7 DEF CompileStackWord
  <2>2. blobs' \in Seq(Rows)
    BY <2>1 DEF TypeInv, TypeOK
  <2>3. QED
    BY <1>1, <1>3, <1>5, <2>1, <2>2, EmitKeeps
<1>8. QED
  BY <1>6, <1>7

(* A step that completes a pending operation. *)
LEMMA CompleteKeeps ==
  ASSUME TypeInv, NEW op \in {"if", "times", "until"}, Ready(op),
         NEW cells \in Seq(Cells), NEW items \in Seq(Items), NEW types \in Seq(Types),
         frames' = SetTop(Emit(Top, cells, items, types)),
         UNCHANGED <<phase, sourceVars, quotStack, blobs, specs, quotRefs, markers, target, restarts>>
  PROVE  TypeInv'
<1>1. /\ frames # <<>> /\ FramesOK(frames) /\ Top \in Frames /\ Top.toks # <<>>
  BY ReadyFacts
<1>2. FrameOK(Emit(Top, cells, items, types)) /\ Emit(Top, cells, items, types).def = Top.def
  BY <1>1, EmitOK
<1>3. FramesOK(frames')
  BY <1>1, <1>2, SetTopOK
<1>4. QED
  BY <1>3, CompileKeeps DEF TypeInv, TypeOK

LEMMA CompileControlTyped ==
  ASSUME TypeInv, CompileIf \/ CompileTimes \/ CompileTimesUntil
  PROVE  TypeInv'
<1> DEFINE pos == Len(Top.cells)
           d1  == Top.done[1]
           d2  == Top.done[2]
<1>1. dict \in Seq(Entries)
  BY DEF TypeInv, TypeOK
<1>2. QuotsTaken("if") = 2 /\ QuotsTaken("until") = 2 /\ QuotsTaken("times") = 1
  BY DEF QuotsTaken
<1>3. CASE CompileIf
  <2>1. Ready("if")
    BY <1>3 DEF CompileIf
  <2>2. d1 \in Compiled /\ d2 \in Compiled /\ pos \in Nat /\ Top.types \in Seq(Types)
    BY <1>2, <2>1, ReadyFacts
  <2>3. IfCells(pos, d1, d2) \in Seq(Cells) /\ IfItems(d1, d2) \in Seq(Items)
    BY <1>1, <2>2, IfTyped
  <2>4. PushTypes(Top.types, d1.outs) \in Seq(Types)
    BY <2>2, PushTypesTyped DEF Compiled
  <2>5. QED
    BY <1>3, <2>1, <2>3, <2>4, CompleteKeeps DEF CompileIf
<1>4. CASE CompileTimes
  <2>1. Ready("times")
    BY <1>4 DEF CompileTimes
  <2>2. d1 \in Compiled /\ pos \in Nat /\ Top.types \in Seq(Types)
    BY <1>2, <2>1, ReadyFacts
  <2>3. TimesCells(pos, d1) \in Seq(Cells) /\ TimesItems(d1) \in Seq(Items)
    BY <1>1, <2>2, TimesTyped
  <2>4. QED
    BY <1>4, <2>1, <2>2, <2>3, CompleteKeeps DEF CompileTimes
<1>5. CASE CompileTimesUntil
  <2>1. Ready("until")
    BY <1>5 DEF CompileTimesUntil
  <2>2. d1 \in Compiled /\ d2 \in Compiled /\ pos \in Nat /\ Top.types \in Seq(Types)
    BY <1>2, <2>1, ReadyFacts
  <2>3. UntilCells(pos, d1, d2) \in Seq(Cells) /\ UntilItems(d1, d2) \in Seq(Items)
    BY <1>1, <2>2, UntilTyped
  <2>4. QED
    BY <1>5, <2>1, <2>2, <2>3, CompleteKeeps DEF CompileTimesUntil
<1>6. QED
  BY <1>3, <1>4, <1>5

-----------------------------------------------------------------------------
(* The invariant is preserved: the runner.                                 *)

LEMMA FinishRunTyped ==
  ASSUME TypeInv, FinishRun
  PROVE  TypeInv'
<1> DEFINE code == CodeData(Top.blob)
           cid  == CidOf(blobs, code)
           e    == [dict[target] EXCEPT !.cid = cid]
<1>1. Idle
  BY DEF FinishRun, WordDone
<1>2. code \in Data /\ BLOB_WORD \in Kinds
  BY <1>1, IdleFacts, DataTyped, KindsTyped, SpellingAssumption
<1>3. /\ blobs' = StoreBlob(blobs, BLOB_WORD, code)
      /\ dict' = [dict EXCEPT ![target].cid = cid]
      /\ phase' = "link" /\ frames' = <<>>
      /\ UNCHANGED <<defs, bufDepth, pendingSig, current, src, quotStack, specs, quotRefs,
                     markers, target, restarts>>
  BY DEF FinishRun
<1> HIDE DEF code
<1>4. blobs' \in Seq(Rows) /\ cid \in Nat
  <2>1. /\ StoreBlob(blobs, BLOB_WORD, code) \in Seq(Rows)
        /\ cid \in 1..Len(StoreBlob(blobs, BLOB_WORD, code))
    BY <1>2, StoreBlobTyped DEF TypeInv, TypeOK
  <2>2. QED
    BY <1>3, <2>1, LenProperties
<1> HIDE DEF cid
<1>5. dict \in Seq(Entries) /\ Len(dict) \in Nat
  BY LenProperties DEF TypeInv, TypeOK
<1>6. dict' \in Seq(Entries) /\ DictOK'
  <2>1. CASE target \in 1..Len(dict)
    <3>1. dict[target] \in Entries
      BY <1>5, <2>1, ElementOfSeq
    <3>2. /\ e \in Entries
          /\ e.kind = dict[target].kind /\ e.def = dict[target].def
      BY <1>4, <3>1 DEF Entries
    <3> HIDE DEF e
    <3>3. dict' = [dict EXCEPT ![target] = e]
      BY <1>3 DEF e
    <3>4. /\ dict' \in Seq(Entries) /\ Len(dict') = Len(dict)
          /\ \A i \in 1..Len(dict) : dict'[i] = IF i = target THEN e ELSE dict[i]
      BY <1>5, <2>1, <3>2, <3>3, ExceptSeq
    <3>5. QED
      BY <1>3, <3>2, <3>4 DEF TypeInv, DictOK
  <2>2. CASE target \notin 1..Len(dict)
    <3>1. dict' = dict
      BY <1>3, <1>5, <2>2
    <3>2. QED
      BY <1>3, <1>5, <3>1 DEF TypeInv, DictOK
  <2>3. QED
    BY <2>1, <2>2
<1>7. FramesOK(<<>>) /\ <<>> \in Seq(Frames)
  BY EmptySeq DEF FramesOK
<1>8. QED
  BY <1>3, <1>4, <1>6, <1>7 DEF TypeInv, TypeOK, Phases

LEMMA RunnerCompileTyped ==
  ASSUME TypeInv, NEW name \in Names, RunnerCompile(name)
  PROVE  TypeInv'
<1> DEFINE i     == DictIndex(name)
           entry == dict[i]
<1>1. dict \in Seq(Entries) /\ Len(dict) \in Nat /\ DictOK
  BY LenProperties DEF TypeInv, TypeOK
<1>2. i \in 1..Len(dict)
  <2> DEFINE S == {k \in 1..Len(dict) : dict[k].name = name}
  <2>1. S \subseteq Nat /\ S # {}
    BY DEF RunnerCompile, IsUserWord
  <2>2. FirstOf(S) \in S
    BY <2>1, FirstOfTyped
  <2>3. QED
    BY <2>2 DEF DictIndex
<1> HIDE DEF i
<1>3. entry \in Entries /\ entry.def \in 1..Len(defs)
  BY <1>1, <1>2, ElementOfSeq DEF DictOK
<1>4. Len(entry.ins) \in Nat
  BY <1>3, LenProperties DEF Entries
<1>5. defs[entry.def] \in Defs /\ entry.def \in Nat /\ entry.def # 0
  BY <1>3, ElementOfSeq DEF TypeInv, TypeOK
<1>6. defs[entry.def].toks \in Seq(TokenSet)
  BY <1>5 DEF Defs
<1>7. PICK ins \in [1..Len(entry.ins) -> GarbageTypes] :
        frames' = <<NewFrame(entry.def, ins, PushTypes(<<>>, ins), defs[entry.def].toks)>>
  BY DEF RunnerCompile, i
<1>8. ins \in Seq(Types) /\ <<>> \in Seq(Types)
  <2>1. GarbageTypes \subseteq Types
    BY ConstantsAssumption
  <2>2. ins \in [1..Len(entry.ins) -> Types]
    BY <1>7, <2>1
  <2>3. QED
    BY <1>4, <2>2, SeqDef
<1> DEFINE h == NewFrame(entry.def, ins, PushTypes(<<>>, ins), defs[entry.def].toks)
<1>9. PushTypes(<<>>, ins) \in Seq(Types)
  BY <1>8, PushTypesTyped
<1>10. FrameOK(h) /\ h.def # 0
  BY <1>5, <1>6, <1>8, <1>9, NewFrameOK
<1>11. frames' = <<h>>
  BY <1>7
<1> HIDE DEF h
<1>12. h \in Frames
  BY <1>10 DEF FrameOK
<1>13. /\ <<h>> \in Seq(Frames) /\ Len(<<h>>) = 1 /\ <<h>>[1] = h
  BY <1>12
<1>14. FramesOK(<<h>>)
  BY <1>10, <1>13 DEF FramesOK
<1>15. target' = i /\ phase' = "compile"
       /\ UNCHANGED <<sourceVars, quotStack, blobs, specs, quotRefs, markers, restarts>>
  BY DEF RunnerCompile, i
<1>16. i \in Nat
  BY <1>2
<1>17. QED
  BY <1>11, <1>14, <1>15, <1>16
     DEF TypeInv, TypeOK, DictOK, FramesOK, Phases, sourceVars

LEMMA RunnerTyped ==
  ASSUME TypeInv, RunnerExecute \/ RunDone
  PROVE  TypeInv'
<1>1. CASE RunDone
  BY <1>1 DEF RunDone, TypeInv, TypeOK, DictOK, FramesOK, Phases, sourceVars, compileVars
<1>2. ASSUME NEW name \in Names, RunnerLink(name)
      PROVE  TypeInv'
  <2>1. Len(dict) \in Nat
    BY LenProperties DEF TypeInv, TypeOK
  <2>2. DictIndex(name) \in Nat
    <3> DEFINE S == {k \in 1..Len(dict) : dict[k].name = name}
    <3>1. S \subseteq Nat /\ S # {}
      BY <1>2, <2>1 DEF RunnerLink, IsUserWord
    <3>2. FirstOf(S) \in S
      BY <3>1, FirstOfTyped
    <3>3. QED
      BY <3>1, <3>2 DEF DictIndex
  <2>3. QED
    BY <1>2, <2>2 DEF RunnerLink, TypeInv, TypeOK, DictOK, FramesOK, Phases, sourceVars
<1>3. ASSUME NEW name \in Names, RunnerError(name)
      PROVE  TypeInv'
  BY <1>3, FailTyped DEF RunnerError
<1>4. QED
  BY <1>1, <1>2, <1>3, RunnerCompileTyped DEF RunnerExecute

LEMMA CompileStepTyped ==
  ASSUME TypeInv, CompileStep
  PROVE  TypeInv'
<1>1. CASE CompileNumber
  <2>1. AtToken
    BY <1>1 DEF CompileNumber
  <2> DEFINE types == PushTypes(Top.types, <<"i64">>)
  <2>2. Tok.n \in Int /\ EmitLiteral(Tok.n, types) /\ types \in Seq(Types)
    BY <1>1, <2>1, AtTokenFacts, PushI64Typed DEF CompileNumber
  <2> HIDE DEF types
  <2>3. QED
    BY <2>1, <2>2, EmitLiteralTyped
<1>2. CASE UnexpectedToken \/ ArrayError \/ WordError \/ ControlError
  BY <1>2, FailTyped DEF UnexpectedToken, ArrayError, WordError, ControlError
<1>3. QED
  BY <1>1, <1>2, CompileStringTyped, CompileLbracketTyped, CompileRbracketTyped,
     EmitArrayTyped, CompilePrimitiveTyped, CallHitTyped, CallMissTyped,
     FinishCallTyped, BeginMaterializeTyped, EnterQuotationTyped, FinishQuotationTyped,
     FinishMaterializeTyped, CompileBoolTyped, CompileStackWordTyped, BeginControlTyped,
     CompileControlTyped, FinishRunTyped
     DEF CompileStep

LEMMA RestartTyped ==
  ASSUME TypeInv, Restart
  PROVE  TypeInv'
<1>1. /\ <<>> \in Seq(Entries) /\ <<>> \in Seq(Defs) /\ <<>> \in Seq(Quotations)
      /\ <<>> \in Seq(Specs) /\ <<>> \in Seq(Frames) /\ FramesOK(<<>>)
      /\ <<>> \in Seq(Nat) /\ Len(<<>>) = 0
  BY EmptySeq DEF FramesOK
<1>2. NoCurrent \in Currents
  <2>1. <<>> \in Seq(TokenSet) /\ <<>> \in Seq(Types)
    BY EmptySeq
  <2>2. QED
    BY <2>1, SpellingAssumption DEF NoCurrent, Currents
<1>3. src' \in Seq(TokenSet)
  BY ConstantsAssumption DEF Restart
<1>4. restarts' \in Nat
  BY DEF Restart, TypeInv, TypeOK
<1>5. DictOK'
  BY <1>1 DEF Restart, DictOK
<1>6. QED
  BY <1>1, <1>2, <1>3, <1>4, <1>5, PlaceholderTyped DEF Restart, TypeInv, TypeOK, Phases

LEMMA InitTyped == Init => TypeInv
<1> SUFFICES ASSUME Init PROVE TypeInv
  OBVIOUS
<1>1. /\ <<>> \in Seq(Entries) /\ <<>> \in Seq(Defs) /\ <<>> \in Seq(Quotations)
      /\ <<>> \in Seq(Specs) /\ <<>> \in Seq(Frames) /\ <<>> \in Seq(Rows)
      /\ <<>> \in Seq(Nat) /\ FramesOK(<<>>) /\ Len(<<>>) = 0
  BY EmptySeq DEF FramesOK
<1>2. NoCurrent \in Currents
  <2>1. <<>> \in Seq(TokenSet) /\ <<>> \in Seq(Types)
    BY EmptySeq
  <2>2. QED
    BY <2>1, SpellingAssumption DEF NoCurrent, Currents
<1>3. src \in Seq(TokenSet)
  BY ConstantsAssumption DEF Init
<1>4. QED
  BY <1>1, <1>2, <1>3, PlaceholderTyped DEF Init, TypeInv, TypeOK, DictOK, Phases

LEMMA NextTyped == TypeInv /\ [Next]_vars => TypeInv'
<1> SUFFICES ASSUME TypeInv, [Next]_vars PROVE TypeInv'
  OBVIOUS
<1>1. CASE UNCHANGED vars
  BY <1>1 DEF vars, TypeInv, TypeOK, DictOK, FramesOK
<1>2. QED
  BY <1>1, ReadSourceTyped, CompileStepTyped, RunnerTyped, RestartTyped DEF Next

(* Whatever the source files, the compiler's data keep their types: no     *)
(* capture, call, quotation, error or restart makes an ill-formed frame, a *)
(* dictionary entry without its definition or code that is not made of     *)
(* cells and items.                                                        *)
THEOREM TypeCorrect == Spec => []TypeOK
<1>1. Init => TypeInv
  BY InitTyped
<1>2. TypeInv /\ [Next]_vars => TypeInv'
  BY NextTyped
<1>3. TypeInv => TypeOK
  BY DEF TypeInv
<1>4. QED
  BY <1>1, <1>2, <1>3, PTL DEF Spec

(* ... and the shape of the frame stack and the dictionary with them.      *)
THEOREM Invariant == Spec => []TypeInv
<1>1. Init => TypeInv
  BY InitTyped
<1>2. TypeInv /\ [Next]_vars => TypeInv'
  BY NextTyped
<1>3. QED
  BY <1>1, <1>2, PTL DEF Spec

-----------------------------------------------------------------------------
(* The arrays of the compiler. *)

(* The two halves of StacksBounded: the stacks of types, which live in the *)
(* frames, and the arrays of the compiler itself.                          *)
FramesBounded == \A i \in 1..Len(frames) : BoundedFrame(frames[i])

TablesBounded ==
  /\ \A i \in 1..Len(markers) : markers[i] <= MaxTypeStack
  /\ Len(markers) <= MaxArrayDepth
  /\ Len(quotStack) <= MaxQuotDepth
  /\ quotRefs <= MaxQuotRefs
  /\ Len(specs) <= MaxSpecs
  /\ Len(defs) <= MaxDefs

BoundsInv == TypeInv /\ FramesBounded /\ TablesBounded

LEMMA Halves == StacksBounded <=> FramesBounded /\ TablesBounded
BY DEF StacksBounded, FramesBounded, TablesBounded

-----------------------------------------------------------------------------
(* The frames under their three operations.                                *)

LEMMA TopBounded ==
  ASSUME BoundsInv, frames # <<>>
  PROVE  /\ BoundedFrame(Top) /\ Top \in Frames /\ Len(Top.types) \in Nat
         /\ Len(Top.types) <= MaxTypeStack
<1>1. Len(frames) \in 1..Len(frames) /\ Top = frames[Len(frames)] /\ Top \in Frames
  BY TopTyped DEF BoundsInv, TypeInv
<1>2. Top.types \in Seq(Types)
  BY <1>1 DEF Frames
<1>3. QED
  BY <1>1, <1>2, LenProperties DEF BoundsInv, FramesBounded, BoundedFrame

LEMMA SetTopBounded ==
  ASSUME BoundsInv, frames # <<>>, NEW g \in Frames, frames' = SetTop(g), BoundedFrame(g)
  PROVE  FramesBounded'
<1>1. frames \in Seq(Frames)
  BY DEF BoundsInv, TypeInv, TypeOK
<1>2. /\ Len(frames') = Len(frames)
      /\ \A i \in 1..Len(frames) : frames'[i] = IF i = Len(frames) THEN g ELSE frames[i]
  BY <1>1, SetTopFrames
<1>3. \A i \in 1..Len(frames') : BoundedFrame(frames'[i])
  BY <1>2 DEF BoundsInv, FramesBounded
<1>4. QED
  BY <1>3 DEF FramesBounded, BoundedFrame

LEMMA EnterBounded ==
  ASSUME BoundsInv, frames # <<>>, NEW g \in Frames, NEW h \in Frames, Enter(g, h),
         BoundedFrame(g), BoundedFrame(h)
  PROVE  FramesBounded'
<1>1. CASE UNCHANGED frames
  BY <1>1 DEF BoundsInv, FramesBounded, BoundedFrame
<1>2. CASE frames' = Append(SetTop(g), h)
  <2>1. frames \in Seq(Frames) /\ Len(frames) \in Nat
    BY LenProperties DEF BoundsInv, TypeInv, TypeOK
  <2> DEFINE fs == Append(SetTop(g), h)
  <2>2. /\ Len(fs) = Len(frames) + 1
        /\ \A i \in 1..Len(frames) + 1 :
             fs[i] = IF i = Len(frames) + 1 THEN h
                     ELSE IF i = Len(frames) THEN g ELSE frames[i]
    BY <2>1, EnterFrames
  <2>3. /\ Len(frames') = Len(frames) + 1
        /\ \A i \in 1..Len(frames) + 1 :
             frames'[i] = IF i = Len(frames) + 1 THEN h
                          ELSE IF i = Len(frames) THEN g ELSE frames[i]
    BY <1>2, <2>2
  <2>4. \A i \in 1..Len(frames') : BoundedFrame(frames'[i])
    BY <2>1, <2>3 DEF BoundsInv, FramesBounded
  <2>5. QED
    BY <2>4 DEF FramesBounded, BoundedFrame
<1>3. QED
  BY <1>1, <1>2 DEF Enter

LEMMA PopBounded ==
  ASSUME BoundsInv, Len(frames) > 1, NEW g \in Frames,
         frames' = [PopFrame EXCEPT ![Len(frames) - 1] = g], BoundedFrame(g)
  PROVE  FramesBounded'
<1>1. frames \in Seq(Frames) /\ Len(frames) \in Nat
  BY LenProperties DEF BoundsInv, TypeInv, TypeOK
<1>2. /\ Len(frames') = Len(frames) - 1
      /\ \A i \in 1..Len(frames) - 1 :
           frames'[i] = IF i = Len(frames) - 1 THEN g ELSE frames[i]
  BY <1>1, PopFrames
<1>3. \A i \in 1..Len(frames') : BoundedFrame(frames'[i])
  BY <1>1, <1>2 DEF BoundsInv, FramesBounded
<1>4. QED
  BY <1>3 DEF FramesBounded, BoundedFrame

-----------------------------------------------------------------------------
(* What the helpers of the compiler leave on a stack of types.             *)

LEMMA PushBounded ==
  ASSUME NEW types \in Seq(Types), NEW ts \in Seq(Types)
  PROVE  /\ PushTypes(types, ts) \in Seq(Types)
         /\ Len(PushTypes(types, ts)) <= MaxTypeStack
<1> DEFINE all == types \o ts
<1>1. all \in Seq(Types) /\ MaxTypeStack \in Nat
  BY ConcatProperties, ConstantsAssumption
<1>2. CASE Len(all) <= MaxTypeStack
  BY <1>2 DEF PushTypes
<1>3. CASE ~(Len(all) <= MaxTypeStack)
  <2>1. Len(all) \in Nat /\ \A i \in 1..MaxTypeStack : all[i] \in Types
    BY <1>1, <1>3, ElementOfSeq, LenProperties
  <2>2. 1 \in Int /\ MaxTypeStack \in Int
    BY <1>1
  <2> HIDE DEF all
  <2>3. Len(SubSeq(all, 1, MaxTypeStack)) = MaxTypeStack
    BY <1>1, <2>1, <2>2, SubSeqProperties
  <2>4. QED
    BY <1>1, <1>3, <2>3 DEF PushTypes, all
<1>4. QED
  BY <1>2, <1>3, PushTypesTyped

LEMMA BelowShorter ==
  ASSUME NEW ts \in Seq(Types), NEW n \in Nat
  PROVE  Len(Below(ts, n)) <= Len(ts)
<1>1. Len(ts) \in Nat /\ \A i \in 1..Len(ts) - n : ts[i] \in Types
  BY ElementOfSeq, LenProperties
<1>2. Len(ts) - n \in Int /\ 1 \in Int
  BY <1>1
<1>3. Len(Below(ts, n)) = IF 1 <= Len(ts) - n THEN (Len(ts) - n) - 1 + 1 ELSE 0
  BY <1>1, <1>2, SubSeqProperties DEF Below
<1>4. QED
  BY <1>1, <1>3

(* drop makes the stack one shorter, swap and rot keep its depth, and      *)
(* compile_dup and compile_over ask for room before they extend it.        *)
LEMMA StackEffectDepth ==
  ASSUME NEW name \in StackWords, NEW ts \in Seq(Types),
         Len(ts) >= Len(StackSig[name].ins), Len(ts) <= MaxTypeStack,
         name \in {"dup", "over"} => Len(ts) < MaxTypeStack
  PROVE  Len(StackEffect(name, ts)) <= MaxTypeStack
<1> DEFINE n == Len(ts)
<1>1. n \in Nat /\ MaxTypeStack \in Nat /\ \A i \in 1..n : ts[i] \in Types
  BY LenProperties, ElementOfSeq, ConstantsAssumption
<1>2. CASE name = "drop"
  <2>1. n - 1 \in Int /\ 1 \in Int /\ \A i \in 1..n - 1 : ts[i] \in Types
    BY <1>1
  <2>2. Len(SubSeq(ts, 1, n - 1)) <= n
    BY <1>1, <2>1, SubSeqProperties
  <2>3. QED
    BY <1>1, <1>2, <2>2 DEF StackEffect
<1>3. CASE name = "dup"
  <2>1. n >= 1
    BY <1>3, StackSigTyped
  <2>2. Len(Append(ts, ts[n])) = n + 1
    BY <1>1, <2>1, AppendProperties
  <2>3. QED
    BY <1>1, <1>3, <2>2 DEF StackEffect
<1>4. CASE name = "over"
  <2>1. n >= 2
    BY <1>4, StackSigTyped
  <2>2. Len(Append(ts, ts[n - 1])) = n + 1
    BY <1>1, <2>1, AppendProperties
  <2>3. QED
    BY <1>1, <1>4, <2>2 DEF StackEffect
<1>5. CASE name = "swap"
  <2>1. n >= 2
    BY <1>5, StackSigTyped
  <2>2. n \in 1..n /\ n - 1 \in 1..n /\ ts[n] \in Types /\ ts[n - 1] \in Types
    BY <1>1, <2>1
  <2> DEFINE us == [ts EXCEPT ![n - 1] = ts[n]]
  <2>3. us \in Seq(Types) /\ Len(us) = n
    BY <2>2, ExceptSeq
  <2>4. Len([us EXCEPT ![n] = ts[n - 1]]) = n
    BY <2>2, <2>3, ExceptSeq
  <2>5. QED
    BY <1>1, <1>5, <2>4 DEF StackEffect
<1>6. CASE name = "rot"
  <2>1. n >= 3
    BY <1>6, StackSigTyped
  <2>2. /\ n \in 1..n /\ n - 1 \in 1..n /\ n - 2 \in 1..n
        /\ ts[n] \in Types /\ ts[n - 1] \in Types /\ ts[n - 2] \in Types
    BY <1>1, <2>1
  <2> DEFINE us == [ts EXCEPT ![n - 2] = ts[n - 1]]
             vs == [us EXCEPT ![n - 1] = ts[n]]
  <2>3. us \in Seq(Types) /\ Len(us) = n
    BY <2>2, ExceptSeq
  <2>4. vs \in Seq(Types) /\ Len(vs) = n
    BY <2>2, <2>3, ExceptSeq
  <2>5. Len([vs EXCEPT ![n] = ts[n - 2]]) = n
    BY <2>2, <2>4, ExceptSeq
  <2>6. QED
    BY <1>1, <1>6, <2>5 DEF StackEffect
<1>7. QED
  BY <1>2, <1>3, <1>4, <1>5, <1>6 DEF StackWords

LEMMA FreshBounded ==
  ASSUME NEW f, f.done = <<>>, Len(f.types) <= MaxTypeStack
  PROVE  BoundedFrame(f)
BY EmptySeq DEF BoundedFrame

LEMMA EmitBounded ==
  ASSUME NEW f \in Frames, f.toks # <<>>,
         NEW cells \in Seq(Cells), NEW items \in Seq(Items), NEW types \in Seq(Types),
         Len(types) <= MaxTypeStack
  PROVE  /\ Emit(f, cells, items, types) \in Frames
         /\ BoundedFrame(Emit(f, cells, items, types))
<1> DEFINE g == Emit(f, cells, items, types)
<1>1. g \in Frames
  BY EmitOK DEF FrameOK
<1>2. g.done = <<>> /\ g.types = types
  BY DEF Emit, Frames
<1>3. QED
  BY <1>1, <1>2, FreshBounded

(* A signature applied to a stack, whatever it had on it.                  *)
LEMMA ApplyBounded ==
  ASSUME NEW e \in Entries, NEW types \in Seq(Types), SignatureApplies(e, types)
  PROVE  LET ts == PushTypes(Below(types, Len(e.ins)), Outputs(e, types))
         IN  ts \in Seq(Types) /\ Len(ts) <= MaxTypeStack
<1>1. e.ins \in Seq(Types) /\ e.outs \in Seq(Types) /\ Len(e.ins) \in Nat
  BY LenProperties DEF Entries
<1>2. Len(types) >= Len(e.ins)
  BY DEF SignatureApplies
<1>3. Below(types, Len(e.ins)) \in Seq(Types) /\ Outputs(e, types) \in Seq(Types)
  BY <1>1, <1>2, BelowTyped, OutputsTyped
<1>4. QED
  BY <1>3, PushBounded

-----------------------------------------------------------------------------
(* Steps of the compiler proper.                                           *)

(* What every step has to do besides keeping the types. *)
Bounded == FramesBounded' /\ TablesBounded'

LEMMA TablesKept ==
  ASSUME BoundsInv, UNCHANGED <<markers, quotStack, quotRefs, specs, defs>>
  PROVE  TablesBounded'
BY DEF BoundsInv, TablesBounded

LEMMA FramesKept ==
  ASSUME BoundsInv, UNCHANGED frames
  PROVE  FramesBounded'
BY DEF BoundsInv, FramesBounded, BoundedFrame

LEMMA FailBounded == ASSUME BoundsInv, Fail PROVE Bounded
BY TablesKept, FramesKept DEF Fail, Bounded, compileVars, sourceVars

(* A token compiled to code that leaves a stack which fits.                *)
LEMMA EmitKeepsBounds ==
  ASSUME BoundsInv, AtToken,
         NEW cells \in Seq(Cells), NEW items \in Seq(Items), NEW types \in Seq(Types),
         Len(types) <= MaxTypeStack,
         frames' = SetTop(Emit(Top, cells, items, types))
  PROVE  FramesBounded'
<1> DEFINE g == Emit(Top, cells, items, types)
<1>1. frames # <<>> /\ Top \in Frames /\ Top.toks # <<>>
  BY AtTokenFacts, IdleFacts DEF BoundsInv
<1>2. g \in Frames /\ BoundedFrame(g) /\ frames' = SetTop(g)
  BY <1>1, EmitBounded
<1> HIDE DEF g
<1>3. QED
  BY <1>1, <1>2, SetTopBounded

LEMMA EmitStepsBounded ==
  ASSUME BoundsInv,
         \/ CompileNumber \/ CompileString \/ CompileBool \/ EmitLit \/ EmitPrim
         \/ CompilePrimitive \/ CallHit \/ CompileStackWord
  PROVE  FramesBounded'
<1>1. TypeInv /\ AtToken
  BY DEF BoundsInv, CompileNumber, CompileString, CompileBool, EmitLit, EmitPrim,
         CompilePrimitive, CallHit, CompileStackWord, AtImmediate, AtResolved, AtWord
<1>2. /\ frames # <<>> /\ Top.types \in Seq(Types) /\ Len(Top.types) <= MaxTypeStack
      /\ Tok.n \in Int /\ dict \in Seq(Entries) /\ blobs \in Seq(Rows)
  BY <1>1, AtTokenFacts, IdleFacts, TopBounded DEF TypeInv, TypeOK
<1>3. ASSUME NEW n \in Int, NEW types \in Seq(Types), Len(types) <= MaxTypeStack,
             EmitLiteral(n, types)
      PROVE  FramesBounded'
  <2> DEFINE cid == CidOf(blobs, LitData(n))
  <2>1. LitData(n) \in Data /\ BLOB_DATA \in Kinds
    BY DataTyped, KindsTyped, SpellingAssumption
  <2>2. cid \in Nat
    <3>1. /\ StoreBlob(blobs, BLOB_DATA, LitData(n)) \in Seq(Rows)
          /\ cid \in 1..Len(StoreBlob(blobs, BLOB_DATA, LitData(n)))
      BY <1>2, <2>1, StoreBlobTyped
    <3>2. QED
      BY <3>1, LenProperties
  <2>3. frames' = SetTop(Emit(Top, <<Lit(n)>>, <<Ref(BLOB_DATA, cid)>>, types))
    BY <1>3 DEF EmitLiteral
  <2> HIDE DEF cid
  <2>4. Lit(n) \in Cells /\ Ref(BLOB_DATA, cid) \in Items
    BY <2>1, <2>2, CellsTyped, ItemsTyped, SpellingAssumption
  <2>5. <<Lit(n)>> \in Seq(Cells) /\ <<Ref(BLOB_DATA, cid)>> \in Seq(Items)
    BY <2>4
  <2>6. QED
    BY <1>1, <1>3, <2>3, <2>5, EmitKeepsBounds
<1>4. <<"i64">> \in Seq(Types) /\ <<"str">> \in Seq(Types)
  BY DEF Types, ConcreteTypes
<1>5. CASE CompileNumber \/ CompileBool
  <2> DEFINE types == PushTypes(Top.types, <<"i64">>)
  <2>1. types \in Seq(Types) /\ Len(types) <= MaxTypeStack
    BY <1>2, <1>4, PushBounded
  <2>2. EmitLiteral(Tok.n, types) \/ EmitLiteral(-1, types) \/ EmitLiteral(0, types)
    BY <1>5 DEF CompileNumber, CompileBool
  <2> HIDE DEF types
  <2>3. QED
    BY <1>2, <1>3, <2>1, <2>2
<1>6. CASE EmitLit
  BY <1>2, <1>3, <1>6 DEF EmitLit
<1>7. CASE CompileString
  <2> DEFINE data  == StrData(Tok.s)
             cid   == CidOf(blobs, data)
             types == PushTypes(Top.types, <<"str">>)
  <2>1. types \in Seq(Types) /\ Len(types) <= MaxTypeStack
    BY <1>2, <1>4, PushBounded
  <2>2. data \in Data /\ BLOB_STRING \in Kinds /\ BLOB_DATA \in Kinds
    BY <1>1, AtTokenFacts, DataTyped, KindsTyped, SpellingAssumption
  <2>3. cid \in Nat
    <3>1. /\ StoreBlob(blobs, BLOB_STRING, data) \in Seq(Rows)
          /\ cid \in 1..Len(StoreBlob(blobs, BLOB_STRING, data))
      BY <1>2, <2>2, StoreBlobTyped
    <3>2. QED
      BY <3>1, LenProperties
  <2>4. frames' = SetTop(Emit(Top, <<Lit(0)>>, <<Ref(BLOB_DATA, cid)>>, types))
    BY <1>7 DEF CompileString
  <2> HIDE DEF cid, types
  <2>5. Lit(0) \in Cells /\ Ref(BLOB_DATA, cid) \in Items
    BY <2>2, <2>3, CellsTyped, ItemsTyped, SpellingAssumption
  <2>6. <<Lit(0)>> \in Seq(Cells) /\ <<Ref(BLOB_DATA, cid)>> \in Seq(Items)
    BY <2>5
  <2>7. QED
    BY <1>1, <2>1, <2>4, <2>6, EmitKeepsBounds
<1>8. XtOf(Tok.s) \in Cells /\ PrimOf(Tok.s) \in Items
  BY <1>2, LookupEmitsTyped
<1>9. <<XtOf(Tok.s)>> \in Seq(Cells) /\ <<PrimOf(Tok.s)>> \in Seq(Items)
  BY <1>8
<1>10. CASE EmitPrim
  BY <1>1, <1>2, <1>9, <1>10, EmitKeepsBounds DEF EmitPrim
<1>11. CASE CompileStackWord
  <2>1. CASE Fail
    BY <2>1, FailBounded DEF Bounded
  <2>2. CASE ~Fail
    <3>1. /\ frames' = SetTop(Emit(Top, <<XtOf(Tok.s)>>, <<PrimOf(Tok.s)>>,
                                   StackEffect(Tok.s, Top.types)))
          /\ ~(Tok.s \in {"dup", "over"} /\ Len(Top.types) >= MaxTypeStack)
      BY <1>11, <2>2 DEF CompileStackWord
    <3>2. Resolved.kind = "imm" /\ Tok.s \in StackWords
      BY <1>11 DEF CompileStackWord, AtImmediate
    <3>3. /\ Len(Top.types) >= Len(StackSig[Tok.s].ins)
          /\ Tok.s \in {"dup", "over"} => Len(Top.types) < MaxTypeStack
      <4>1. Len(Top.types) >= Len(Resolved.ins) /\ Resolved.ins = StackSig[Tok.s].ins
        BY <1>1, <3>2, ResolvedFacts
      <4>2. Len(Top.types) \in Nat /\ MaxTypeStack \in Nat
        BY <1>2, LenProperties, ConstantsAssumption
      <4>3. QED
        BY <3>1, <4>1, <4>2
    <3>4. /\ StackEffect(Tok.s, Top.types) \in Seq(Types)
          /\ Len(StackEffect(Tok.s, Top.types)) <= MaxTypeStack
      BY <1>2, <3>2, <3>3, StackEffectTyped, StackEffectDepth
    <3>5. QED
      BY <1>1, <1>9, <3>1, <3>4, EmitKeepsBounds
  <2>3. QED
    BY <2>1, <2>2
<1>12. CASE (CompilePrimitive \/ CallHit) /\ ~SignatureApplies(Resolved, Top.types)
  BY <1>12, FailBounded DEF CompilePrimitive, CallHit, Bounded
<1>13. CASE (CompilePrimitive \/ CallHit) /\ SignatureApplies(Resolved, Top.types)
  <2> DEFINE types == PushTypes(Below(Top.types, Len(Resolved.ins)),
                                Outputs(Resolved, Top.types))
  <2>1. Resolved \in Entries
    BY <1>1, ResolvedFacts
  <2>2. types \in Seq(Types) /\ Len(types) <= MaxTypeStack
    BY <1>2, <1>13, <2>1, ApplyBounded
  <2>3. CASE CompilePrimitive
    <3>1. frames' = SetTop(Emit(Top, <<Xt(Resolved.addr)>>, <<Prim(Resolved.prim)>>, types))
      BY <1>13, <2>3 DEF CompilePrimitive
    <3>2. Resolved.addr \in STRING /\ Resolved.prim \in STRING
      BY <2>1 DEF Entries
    <3>3. Xt(Resolved.addr) \in Cells /\ Prim(Resolved.prim) \in Items
      BY <3>2, CellsTyped, ItemsTyped, SpellingAssumption
    <3>4. <<Xt(Resolved.addr)>> \in Seq(Cells) /\ <<Prim(Resolved.prim)>> \in Seq(Items)
      BY <3>3
    <3> HIDE DEF types
    <3>5. QED
      BY <1>1, <2>2, <3>1, <3>4, EmitKeepsBounds
  <2>4. CASE CallHit
    <3> DEFINE S   == SpecHits(Tok.s, CallInputs)
               cid == specs[FirstOf(S)].cid
    <3>1. frames' = SetTop(Emit(Top, <<Xt(NoName)>>, <<Ref(BLOB_WORD, cid)>>, types))
      BY <1>13, <2>4 DEF CallHit, EmitCall
    <3>2. S \subseteq 1..Len(specs) /\ S # {}
      BY <2>4 DEF CallHit, SpecHits
    <3>3. FirstOf(S) \in 1..Len(specs)
      BY <3>2, FirstOfTyped
    <3>4. specs[FirstOf(S)] \in Specs
      BY <1>1, <3>3, ElementOfSeq DEF TypeInv, TypeOK
    <3>5. cid \in Nat
      BY <3>4 DEF Specs
    <3> HIDE DEF cid, types
    <3>6. Xt(NoName) \in Cells /\ Ref(BLOB_WORD, cid) \in Items
      BY <3>5, CellsTyped, ItemsTyped, KindsTyped, SpellingAssumption
    <3>7. <<Xt(NoName)>> \in Seq(Cells) /\ <<Ref(BLOB_WORD, cid)>> \in Seq(Items)
      BY <3>6
    <3>8. QED
      BY <1>1, <2>2, <3>1, <3>7, EmitKeepsBounds
  <2>5. QED
    BY <1>13, <2>3, <2>4
<1>14. QED
  BY <1>5, <1>6, <1>7, <1>10, <1>11, <1>12, <1>13

(* None of them touches the other arrays.                                  *)
LEMMA EmitStepsTables ==
  ASSUME BoundsInv,
         \/ CompileNumber \/ CompileString \/ CompileBool \/ EmitLit \/ EmitPrim
         \/ CompilePrimitive \/ CallHit \/ CompileStackWord
  PROVE  TablesBounded'
BY TablesKept, FailBounded
   DEF Bounded, CompileNumber, CompileString, CompileBool, EmitLit, EmitPrim, EmitLiteral,
       CompilePrimitive, CallHit, CompileStackWord, sourceVars

(* "[" remembers a depth of the stack, which fits; "]" cuts the stack to   *)
(* such a depth, or raises it to one.                                      *)
LEMMA BracketBounded == ASSUME BoundsInv, CompileLbracket \/ CompileRbracket PROVE Bounded
<1>1. TypeInv /\ AtToken /\ UNCHANGED <<quotStack, quotRefs, specs, defs>>
  BY DEF BoundsInv, CompileLbracket, CompileRbracket, sourceVars
<1>2. /\ frames # <<>> /\ Top \in Frames /\ Top.types \in Seq(Types)
      /\ Len(Top.types) <= MaxTypeStack /\ Top.toks \in Seq(TokenSet) /\ Top.toks # <<>>
      /\ Top.op = "none" /\ BoundedFrame(Top) /\ Len(Top.types) \in Nat
      /\ markers \in Seq(Nat) /\ Len(markers) \in Nat /\ MaxArrayDepth \in Nat
  BY <1>1, AtTokenFacts, IdleFacts, TopBounded, LenProperties, ConstantsAssumption
     DEF TypeInv, TypeOK
<1>3. CASE CompileLbracket
  <2>1. <<>> \in Seq(Cells) /\ <<>> \in Seq(Items)
    BY EmptySeq
  <2>2. FramesBounded'
    BY <1>1, <1>2, <1>3, <2>1, EmitKeepsBounds DEF CompileLbracket
  <2>3. markers' = Append(markers, Len(Top.types)) /\ Len(markers) < MaxArrayDepth
    BY <1>3 DEF CompileLbracket
  <2>4. /\ Len(markers') = Len(markers) + 1
        /\ \A i \in 1..Len(markers) : markers'[i] = markers[i]
        /\ markers'[Len(markers) + 1] = Len(Top.types)
    BY <1>2, <2>3, AppendProperties
  <2>5. \A i \in 1..Len(markers') : markers'[i] <= MaxTypeStack
    <3>1. ASSUME NEW i \in 1..Len(markers')
          PROVE  markers'[i] <= MaxTypeStack
      <4>1. CASE i = Len(markers) + 1
        BY <1>2, <2>4, <4>1
      <4>2. CASE i \in 1..Len(markers)
        BY <2>4, <4>2 DEF BoundsInv, TablesBounded
      <4>3. QED
        BY <1>2, <2>4, <4>1, <4>2
    <3>2. QED
      BY <3>1
  <2>6. Len(markers') <= MaxArrayDepth
    BY <1>2, <2>3, <2>4
  <2>7. QED
    BY <1>1, <2>2, <2>5, <2>6 DEF Bounded, BoundsInv, TablesBounded
<1>4. CASE CompileRbracket
  <2>1. /\ markers # <<>>
        /\ markers' = SubSeq(markers, 1, Len(markers) - 1)
    BY <1>4 DEF CompileRbracket
  <2>2. PICK type \in ElementTypes, types \in TypesAtMarker :
          frames' = SetTop([Top EXCEPT !.toks = ArrayCode(Count, type) \o Tail(@),
                                       !.types = PushTypes(types, <<"array">>)])
    BY <1>4 DEF CompileRbracket
  <2> DEFINE toks == ArrayCode(Count, type) \o Tail(Top.toks)
             ts   == PushTypes(types, <<"array">>)
             g    == [Top EXCEPT !.toks = toks, !.types = ts]
  <2>3. toks \in Seq(TokenSet)
    <3>1. Tail(Top.toks) \in Seq(TokenSet)
      BY <1>2, HeadTailProperties
    <3>2. QED
      BY <1>1, <2>1, <3>1, MarkerTyped, ArrayCodeTyped, ConcatProperties
  <2>4. ts \in Seq(Types) /\ Len(ts) <= MaxTypeStack
    <3>1. <<"array">> \in Seq(Types)
      BY DEF Types, ConcreteTypes
    <3>2. QED
      BY <1>1, <2>1, <3>1, MarkerTyped, PushBounded
  <2>5. frames' = SetTop(g)
    BY <2>2
  <2> HIDE DEF toks, ts
  <2>6. g \in Frames /\ g.types = ts /\ g.done = Top.done
    BY <1>2, <2>3, <2>4 DEF Frames
  <2>7. BoundedFrame(g)
    BY <1>2, <2>4, <2>6 DEF BoundedFrame
  <2> HIDE DEF g
  <2>8. FramesBounded'
    BY <1>2, <2>5, <2>6, <2>7, SetTopBounded
  <2>9. /\ Len(markers') <= Len(markers)
        /\ \A i \in 1..Len(markers') : i \in 1..Len(markers) /\ markers'[i] = markers[i]
    <3>1. \A i \in 1..Len(markers) - 1 : markers[i] \in Nat
      BY <1>2, ElementOfSeq
    <3>2. Len(markers) - 1 \in Int /\ 1 \in Int
      BY <1>2
    <3>3. /\ Len(SubSeq(markers, 1, Len(markers) - 1)) =
               IF 1 <= Len(markers) - 1 THEN (Len(markers) - 1) - 1 + 1 ELSE 0
          /\ \A i \in 1..(Len(markers) - 1) - 1 + 1 :
               SubSeq(markers, 1, Len(markers) - 1)[i] = markers[1 + i - 1]
      BY <3>1, <3>2, SubSeqProperties
    <3>4. QED
      BY <1>2, <2>1, <3>3
  <2>10. TablesBounded'
    BY <1>1, <1>2, <2>9 DEF BoundsInv, TablesBounded
  <2>11. QED
    BY <2>8, <2>10 DEF Bounded
<1>5. QED
  BY <1>3, <1>4

LEMMA CallMissBounded == ASSUME BoundsInv, CallMiss PROVE Bounded
<1> DEFINE g == [Top EXCEPT !.op = "call"]
           h == NewFrame(Resolved.def, CallInputs, PushTypes(<<>>, CallInputs),
                         defs[Resolved.def].toks)
<1>1. TypeInv /\ AtToken /\ Resolved.kind = "word"
  BY DEF BoundsInv, CallMiss, AtResolved, AtWord
<1>2. /\ frames # <<>> /\ Top \in Frames /\ Top.types \in Seq(Types)
      /\ Len(Top.types) \in Nat /\ BoundedFrame(Top)
  BY <1>1, AtTokenFacts, IdleFacts, TopBounded
<1>3. Len(Resolved.ins) \in 0..Len(Top.types) /\ Resolved.def \in 1..Len(defs)
  BY <1>1, <1>2, ResolvedFacts
<1>4. g \in Frames /\ g.types = Top.types /\ g.done = Top.done
  BY <1>2 DEF Frames, Ops
<1>5. BoundedFrame(g)
  BY <1>2, <1>4 DEF BoundedFrame
<1>6. CallInputs \in Seq(Types) /\ <<>> \in Seq(Types)
  BY <1>2, <1>3, TopOfTyped DEF CallInputs
<1>7. PushTypes(<<>>, CallInputs) \in Seq(Types)
      /\ Len(PushTypes(<<>>, CallInputs)) <= MaxTypeStack
  BY <1>6, PushBounded
<1>8. defs[Resolved.def] \in Defs /\ Resolved.def \in Nat
  BY <1>1, <1>3, ElementOfSeq DEF TypeInv, TypeOK
<1>9. defs[Resolved.def].toks \in Seq(TokenSet)
  BY <1>8 DEF Defs
<1>10. h \in Frames /\ h.done = <<>> /\ h.types = PushTypes(<<>>, CallInputs)
  BY <1>6, <1>7, <1>8, <1>9, NewFrameOK DEF FrameOK, NewFrame
<1>11. BoundedFrame(h)
  BY <1>7, <1>10, FreshBounded
<1>12. Enter(g, h) /\ UNCHANGED <<markers, quotStack, quotRefs, specs, defs>>
  BY DEF CallMiss, sourceVars
<1> HIDE DEF g, h
<1>13. QED
  BY <1>2, <1>4, <1>5, <1>10, <1>11, <1>12, EnterBounded, TablesKept DEF Bounded

LEMMA EnterQuotationBounded == ASSUME BoundsInv, EnterQuotation PROVE Bounded
<1> DEFINE ctx == IF Top.op = "mat" THEN <<>> ELSE Top.types
           k   == Len(Top.done) + 1
           h   == NewFrame(0, ctx, ctx, Top.quots[k].toks)
<1>1. /\ frames # <<>> /\ Top \in Frames /\ Len(Top.done) < Len(Top.quots)
      /\ BoundedFrame(Top) /\ Len(Top.types) <= MaxTypeStack
  BY TopBounded DEF EnterQuotation, Compiling
<1>2. /\ Top.types \in Seq(Types) /\ <<>> \in Seq(Types)
      /\ Top.quots \in Seq(Quotations) /\ Len(Top.quots) \in Nat /\ Len(Top.done) \in Nat
  BY <1>1, LenProperties DEF Frames
<1>3. ctx \in Seq(Types) /\ Len(ctx) <= MaxTypeStack
  BY <1>1, <1>2, EmptySeq, ConstantsAssumption
<1>4. Top.quots[k] \in Quotations
  BY <1>1, <1>2, ElementOfSeq
<1>5. Top.quots[k].toks \in Seq(TokenSet)
  BY <1>4 DEF Quotations
<1> HIDE DEF ctx
<1>6. h \in Frames /\ h.done = <<>> /\ h.types = ctx
  BY <1>3, <1>5, NewFrameOK DEF FrameOK, NewFrame
<1>7. BoundedFrame(h)
  BY <1>3, <1>6, FreshBounded
<1>8. Enter(Top, h) /\ UNCHANGED <<markers, quotStack, quotRefs, specs, defs>>
  BY DEF EnterQuotation, ctx, sourceVars
<1> HIDE DEF h
<1>9. QED
  BY <1>1, <1>6, <1>7, <1>8, EnterBounded, TablesKept DEF Bounded

LEMMA ConsumeBounded ==
  ASSUME BoundsInv, Idle, NEW n \in 0..Len(quotStack), NEW op \in Ops,
         NEW types \in Seq(Types), Len(types) <= MaxTypeStack,
         Consume(n, op, TakeQuots(n), types)
  PROVE  Bounded
<1> DEFINE g == [Top EXCEPT !.op = op, !.quots = TakeQuots(n), !.types = types]
<1>1. quotStack \in Seq(Quotations) /\ Len(quotStack) \in Nat
  BY LenProperties DEF BoundsInv, TypeInv, TypeOK
<1>2. TakeQuots(n) \in Seq(Quotations) /\ Len(LeaveQuots(n)) = Len(quotStack) - n
  BY <1>1, TakeQuotsTyped
<1>3. frames # <<>> /\ Top \in Frames /\ BoundedFrame(Top)
  BY IdleFacts, TopBounded DEF BoundsInv
<1>4. g \in Frames /\ g.types = types /\ g.done = Top.done
  BY <1>2, <1>3 DEF Frames
<1>5. BoundedFrame(g)
  BY <1>3, <1>4 DEF BoundedFrame
<1>6. /\ frames' = SetTop(g) /\ quotStack' = LeaveQuots(n)
      /\ UNCHANGED <<markers, quotRefs, specs, defs>>
  BY DEF Consume, sourceVars
<1> HIDE DEF g
<1>7. FramesBounded'
  BY <1>3, <1>4, <1>5, <1>6, SetTopBounded
<1>8. Len(quotStack') <= MaxQuotDepth
  <2>1. Len(quotStack) <= MaxQuotDepth /\ MaxQuotDepth \in Nat
    BY ConstantsAssumption DEF BoundsInv, TablesBounded
  <2>2. QED
    BY <1>1, <1>2, <1>6, <2>1
<1>9. QED
  BY <1>6, <1>7, <1>8 DEF Bounded, BoundsInv, TablesBounded

LEMMA BeginBounded ==
  ASSUME BoundsInv, BeginMaterialize \/ BeginIf \/ BeginTimes \/ BeginUntil
  PROVE  Bounded
<1>1. TypeInv /\ Idle
  BY DEF BoundsInv, BeginMaterialize, BeginIf, BeginTimes, BeginUntil, AtImmediate,
         AtResolved, AtWord, AtToken
<1>2. /\ Top.types \in Seq(Types) /\ Below(Top.types, 1) \in Seq(Types)
      /\ Len(Top.types) <= MaxTypeStack
  BY <1>1, IdleFacts, BelowTyped, TopBounded
<1>3. Len(Below(Top.types, 1)) <= MaxTypeStack
  <2>1. Len(Below(Top.types, 1)) <= Len(Top.types)
    BY <1>2, BelowShorter
  <2>2. Len(Below(Top.types, 1)) \in Nat /\ Len(Top.types) \in Nat /\ MaxTypeStack \in Nat
    BY <1>2, LenProperties, ConstantsAssumption
  <2>3. QED
    BY <1>2, <2>1, <2>2
<1>4. Len(quotStack) \in Nat /\ (quotStack # <<>> => Len(quotStack) >= 1)
  BY <1>1, QuotStackDepth
<1>5. {"mat", "if", "times", "until"} \subseteq Ops
  BY DEF Ops
<1>6. CASE BeginMaterialize
  BY <1>1, <1>2, <1>4, <1>5, <1>6, ConsumeBounded DEF BeginMaterialize
<1>7. CASE BeginIf
  BY <1>1, <1>2, <1>3, <1>4, <1>5, <1>7, ConsumeBounded DEF BeginIf
<1>8. CASE BeginTimes
  BY <1>1, <1>2, <1>3, <1>4, <1>5, <1>8, ConsumeBounded DEF BeginTimes
<1>9. CASE BeginUntil
  BY <1>1, <1>2, <1>4, <1>5, <1>9, ConsumeBounded DEF BeginUntil
<1>10. QED
  BY <1>6, <1>7, <1>8, <1>9

(* What a branch of an if leaves is bounded as any stack of types is.      *)
LEMMA FinishQuotationBounded == ASSUME BoundsInv, FinishQuotation PROVE Bounded
<1> DEFINE n      == Len(frames)
           caller == frames[n - 1]
           result == [cells |-> Append(Top.cells, Exit), blob |-> Top.blob,
                      outs |-> Top.types]
           g      == [caller EXCEPT !.done = Append(@, result)]
<1>1. TypeInv /\ Idle /\ n > 1 /\ n \in Nat /\ frames # <<>>
  <2>1. n > 1 /\ Idle /\ TypeInv
    BY DEF FinishQuotation, BoundsInv
  <2>2. QED
    BY <2>1, IdleFacts, LenProperties DEF FramesOK
<1>2. caller \in Frames
  BY <1>1, CallerFacts
<1>3. result \in Compiled /\ result.outs = Top.types
  <2>1. Exit \in Cells
    BY CellsTyped, SpellingAssumption
  <2>2. Append(Top.cells, Exit) \in Seq(Cells)
    BY <1>1, <2>1, IdleFacts, AppendProperties
  <2>3. QED
    BY <1>1, <2>2, IdleFacts DEF Compiled
<1>4. Len(Top.types) <= MaxTypeStack /\ BoundedFrame(caller)
  <2>1. n - 1 \in 1..Len(frames)
    BY <1>1
  <2>2. QED
    BY <1>1, <2>1, TopBounded DEF BoundsInv, FramesBounded
<1> HIDE DEF result
<1>5. caller.done \in Seq(Compiled)
  BY <1>2 DEF Frames
<1>6. /\ Append(caller.done, result) \in Seq(Compiled)
      /\ Len(Append(caller.done, result)) = Len(caller.done) + 1
      /\ Len(caller.done) \in Nat
      /\ \A k \in 1..Len(caller.done) + 1 :
           Append(caller.done, result)[k] =
             IF k <= Len(caller.done) THEN caller.done[k] ELSE result
  BY <1>3, <1>5, AppendProperties, LenProperties
<1>7. g \in Frames /\ g.done = Append(caller.done, result) /\ g.types = caller.types
  BY <1>2, <1>6 DEF Frames
<1>8. BoundedFrame(g)
  <2>1. ASSUME NEW k \in 1..Len(g.done) PROVE Len(g.done[k].outs) <= MaxTypeStack
    <3>1. CASE k <= Len(caller.done)
      BY <1>4, <1>6, <1>7, <3>1 DEF BoundedFrame
    <3>2. CASE ~(k <= Len(caller.done))
      BY <1>3, <1>4, <1>6, <1>7, <3>2
    <3>3. QED
      BY <3>1, <3>2
  <2>2. QED
    BY <1>4, <1>7, <2>1 DEF BoundedFrame
<1>9. /\ frames' = [PopFrame EXCEPT ![n - 1].done = Append(@, result)]
      /\ UNCHANGED <<markers, quotStack, quotRefs, specs, defs>>
  BY DEF FinishQuotation, result, sourceVars
<1>10. PopFrame[n - 1] = caller
  <2>1. frames \in Seq(Frames)
    BY <1>1 DEF TypeInv, TypeOK
  <2>2. n - 1 \in 1..n - 1 /\ n - 1 \in Int /\ 1 \in Int
    BY <1>1
  <2>3. \A i \in 1..n - 1 : frames[i] \in Frames
    BY <1>1, <2>1, ElementOfSeq
  <2>4. QED
    BY <2>2, <2>3, SubSeqProperties DEF PopFrame
<1>11. frames' = [PopFrame EXCEPT ![n - 1] = g]
  BY <1>9, <1>10
<1> HIDE DEF g
<1>12. FramesBounded'
  BY <1>1, <1>7, <1>8, <1>11, PopBounded
<1>13. QED
  BY <1>9, <1>12, TablesKept DEF Bounded

LEMMA ControlBounded ==
  ASSUME BoundsInv, CompileIf \/ CompileTimes \/ CompileTimesUntil
  PROVE  Bounded
<1> DEFINE pos == Len(Top.cells)
           d1  == Top.done[1]
           d2  == Top.done[2]
<1>1. TypeInv /\ dict \in Seq(Entries)
  BY DEF BoundsInv, TypeInv, TypeOK
<1>2. QuotsTaken("if") = 2 /\ QuotsTaken("until") = 2 /\ QuotsTaken("times") = 1
  BY DEF QuotsTaken
<1>3. PICK op \in {"if", "times", "until"} :
        /\ Ready(op)
        /\ CompileIf => op = "if"
        /\ CompileTimes => op = "times"
        /\ CompileTimesUntil => op = "until"
  BY DEF CompileIf, CompileTimes, CompileTimesUntil, Ready
<1>4. /\ frames # <<>> /\ Top \in Frames /\ Top.toks # <<>> /\ pos \in Nat
      /\ Top.types \in Seq(Types) /\ d1 \in Compiled
      /\ op # "times" => d2 \in Compiled
  BY <1>1, <1>2, <1>3, ReadyFacts
<1>5. Len(Top.types) <= MaxTypeStack
  BY <1>4, TopBounded
<1>6. ASSUME NEW cells \in Seq(Cells), NEW items \in Seq(Items), NEW types \in Seq(Types),
             Len(types) <= MaxTypeStack,
             frames' = SetTop(Emit(Top, cells, items, types))
      PROVE  FramesBounded'
  <2> DEFINE g == Emit(Top, cells, items, types)
  <2>1. g \in Frames /\ BoundedFrame(g) /\ frames' = SetTop(g)
    BY <1>4, <1>6, EmitBounded
  <2> HIDE DEF g
  <2>2. QED
    BY <1>4, <2>1, SetTopBounded
<1>7. FramesBounded'
  <2>1. CASE CompileIf
    <3>1. /\ IfCells(pos, d1, d2) \in Seq(Cells) /\ IfItems(d1, d2) \in Seq(Items)
          /\ d1.outs \in Seq(Types)
      BY <1>1, <1>3, <1>4, <2>1, IfTyped DEF Compiled
    <3>2. /\ PushTypes(Top.types, d1.outs) \in Seq(Types)
          /\ Len(PushTypes(Top.types, d1.outs)) <= MaxTypeStack
      BY <1>4, <3>1, PushBounded
    <3>3. frames' = SetTop(Emit(Top, IfCells(pos, d1, d2), IfItems(d1, d2),
                                PushTypes(Top.types, d1.outs)))
      BY <2>1 DEF CompileIf
    <3>4. QED
      BY <1>6, <3>1, <3>2, <3>3
  <2>2. CASE CompileTimes
    <3>1. TimesCells(pos, d1) \in Seq(Cells) /\ TimesItems(d1) \in Seq(Items)
      BY <1>1, <1>4, TimesTyped
    <3>2. QED
      BY <1>4, <1>5, <1>6, <2>2, <3>1 DEF CompileTimes
  <2>3. CASE CompileTimesUntil
    <3>1. UntilCells(pos, d1, d2) \in Seq(Cells) /\ UntilItems(d1, d2) \in Seq(Items)
      BY <1>1, <1>3, <1>4, <2>3, UntilTyped
    <3>2. QED
      BY <1>4, <1>5, <1>6, <2>3, <3>1 DEF CompileTimesUntil
  <2>4. QED
    BY <2>1, <2>2, <2>3
<1>8. UNCHANGED <<markers, quotStack, quotRefs, specs, defs>>
  BY DEF CompileIf, CompileTimes, CompileTimesUntil, sourceVars
<1>9. QED
  BY <1>7, <1>8, TablesKept DEF Bounded

LEMMA FinishMaterializeBounded == ASSUME BoundsInv, FinishMaterialize PROVE Bounded
<1> DEFINE code == CodeData(Top.done[1].blob)
           cid  == CidOf(blobs, code)
           g    == [Top EXCEPT !.cells = Append(@, Lit(0)),
                               !.blob = Append(@, Ref(BLOB_QUOTATION, cid)),
                               !.types = PushTypes(@, <<"ptr">>),
                               !.op = "none", !.quots = <<>>, !.done = <<>>]
<1>1. /\ frames # <<>> /\ Top \in Frames /\ Top.done[1] \in Compiled
      /\ blobs \in Seq(Rows) /\ quotRefs \in Nat /\ MaxQuotRefs \in Nat
  <2>1. TypeInv /\ Ready("mat") /\ QuotsTaken("mat") = 1
    BY DEF FinishMaterialize, BoundsInv, QuotsTaken
  <2>2. frames # <<>> /\ Top \in Frames /\ Top.done[1] \in Compiled
    BY <2>1, ReadyFacts
  <2>3. QED
    BY <2>1, <2>2, ConstantsAssumption DEF TypeInv, TypeOK
<1>2. /\ Top.cells \in Seq(Cells) /\ Top.blob \in Seq(Items) /\ Top.types \in Seq(Types)
      /\ Top.done[1].blob \in Seq(Items)
  BY <1>1 DEF Frames, Compiled
<1>3. code \in Data /\ BLOB_QUOTATION \in Kinds
  BY <1>2, DataTyped, KindsTyped, SpellingAssumption
<1>4. UNCHANGED <<markers, quotStack, specs, defs>>
  BY DEF FinishMaterialize, sourceVars
<1> HIDE DEF code
<1>5. cid \in Nat
  <2>1. /\ StoreBlob(blobs, BLOB_QUOTATION, code) \in Seq(Rows)
        /\ cid \in 1..Len(StoreBlob(blobs, BLOB_QUOTATION, code))
    BY <1>1, <1>3, StoreBlobTyped
  <2>2. QED
    BY <2>1, LenProperties
<1> HIDE DEF cid
<1>6. CASE quotRefs >= MaxQuotRefs
  BY <1>4, <1>6, FramesKept, TablesKept DEF FinishMaterialize, Bounded
<1>7. CASE ~(quotRefs >= MaxQuotRefs)
  <2>1. frames' = SetTop(g) /\ quotRefs' = quotRefs + 1
    BY <1>7 DEF FinishMaterialize, code, cid
  <2>2. Lit(0) \in Cells /\ Ref(BLOB_QUOTATION, cid) \in Items
    BY <1>3, <1>5, CellsTyped, ItemsTyped, SpellingAssumption
  <2>3. /\ Append(Top.cells, Lit(0)) \in Seq(Cells)
        /\ Append(Top.blob, Ref(BLOB_QUOTATION, cid)) \in Seq(Items)
    BY <1>2, <2>2, AppendProperties
  <2>4. <<"ptr">> \in Seq(Types)
    BY DEF Types, ConcreteTypes
  <2>5. /\ PushTypes(Top.types, <<"ptr">>) \in Seq(Types)
        /\ Len(PushTypes(Top.types, <<"ptr">>)) <= MaxTypeStack
    BY <1>2, <2>4, PushBounded
  <2>6. <<>> \in Seq(Quotations) /\ <<>> \in Seq(Compiled)
    BY EmptySeq
  <2>7. g \in Frames /\ g.done = <<>> /\ g.types = PushTypes(Top.types, <<"ptr">>)
    BY <1>1, <2>3, <2>5, <2>6 DEF Frames, Ops
  <2>8. BoundedFrame(g)
    BY <2>5, <2>7, FreshBounded
  <2> HIDE DEF g
  <2>9. FramesBounded'
    BY <1>1, <2>1, <2>7, <2>8, SetTopBounded
  <2>10. quotRefs' <= MaxQuotRefs
    BY <1>1, <1>7, <2>1
  <2>11. QED
    BY <1>4, <2>9, <2>10 DEF Bounded, BoundsInv, TablesBounded
<1>8. QED
  BY <1>6, <1>7

LEMMA FinishCallBounded == ASSUME BoundsInv, FinishCall PROVE Bounded
<1> DEFINE code   == CodeData(Top.blob)
           cid    == CidOf(blobs, code)
           caller == frames[Len(frames) - 1]
           name   == Head(caller.toks).s
           entry  == DictLookupTyped(dict, name, caller.types)
<1>1. TypeInv /\ Idle /\ Len(frames) > 1 /\ Top.def # 0
  BY DEF BoundsInv, FinishCall, WordDone
<1>2. /\ specs' = SpecStore(name, Top.ins, cid, entry.def)
      /\ UNCHANGED <<markers, quotStack, quotRefs, defs>>
  BY DEF FinishCall, sourceVars
<1>3. /\ caller \in Frames /\ caller.toks # <<>> /\ caller.types \in Seq(Types)
      /\ Top.blob \in Seq(Items) /\ blobs \in Seq(Rows)
  BY <1>1, CallerFacts, IdleFacts DEF FrameOK, Awaits, TypeInv, TypeOK, Frames
<1>4. code \in Data /\ BLOB_WORD \in Kinds
  BY <1>3, DataTyped, KindsTyped, SpellingAssumption
<1> HIDE DEF code
<1>5. cid \in Nat
  <2>1. /\ StoreBlob(blobs, BLOB_WORD, code) \in Seq(Rows)
        /\ cid \in 1..Len(StoreBlob(blobs, BLOB_WORD, code))
    BY <1>3, <1>4, StoreBlobTyped
  <2>2. QED
    BY <2>1, LenProperties
<1>6. entry \in Entries
  BY <1>1, <1>3, LookupTypedTyped DEF TypeInv, TypeOK
<1>7. Len(specs') <= MaxSpecs
  <2> DEFINE s == [name |-> name, ins |-> Top.ins, cid |-> cid, def |-> entry.def]
  <2>1. specs \in Seq(Specs) /\ Len(specs) \in Nat /\ Len(specs) <= MaxSpecs
        /\ MaxSpecs \in Nat
    BY <1>1, LenProperties, ConstantsAssumption DEF TypeInv, TypeOK, BoundsInv, TablesBounded
  <2>2. CASE Len(specs) >= MaxSpecs
    BY <1>2, <2>1, <2>2 DEF SpecStore
  <2>3. CASE ~(Len(specs) >= MaxSpecs)
    <3>1. specs' = Append(specs, s)
      BY <1>2, <2>3 DEF SpecStore
    <3> HIDE DEF s
    <3>2. Len(specs') = Len(specs) + 1
      BY <2>1, <3>1
    <3>3. QED
      BY <2>1, <2>3, <3>2
  <2>4. QED
    BY <2>2, <2>3
<1>8. TablesBounded'
  BY <1>2, <1>7 DEF BoundsInv, TablesBounded
<1> HIDE DEF cid
<1>9. CASE ~SignatureApplies(entry, caller.types)
  <2>1. UNCHANGED frames
    BY <1>9 DEF FinishCall
  <2>2. QED
    BY <1>8, <2>1, FramesKept DEF Bounded
<1>10. CASE SignatureApplies(entry, caller.types)
  <2> DEFINE g == EmitCall(caller, entry, cid)
  <2>1. frames' = [PopFrame EXCEPT ![Len(frames) - 1] = g]
    BY <1>10 DEF FinishCall, cid, code
  <2> HIDE DEF entry
  <2>2. LET ts == PushTypes(Below(caller.types, Len(entry.ins)), Outputs(entry, caller.types))
        IN  ts \in Seq(Types) /\ Len(ts) <= MaxTypeStack
    BY <1>3, <1>6, <1>10, ApplyBounded
  <2>3. Xt(NoName) \in Cells /\ Ref(BLOB_WORD, cid) \in Items
    BY <1>4, <1>5, CellsTyped, ItemsTyped, SpellingAssumption
  <2>4. <<Xt(NoName)>> \in Seq(Cells) /\ <<Ref(BLOB_WORD, cid)>> \in Seq(Items)
    BY <2>3
  <2>5. g \in Frames /\ BoundedFrame(g)
    BY <1>3, <2>2, <2>4, EmitBounded DEF EmitCall
  <2> HIDE DEF g
  <2>6. QED
    BY <1>1, <1>8, <2>1, <2>5, PopBounded DEF Bounded
<1>11. QED
  BY <1>9, <1>10

LEMMA CompileStepBounded == ASSUME BoundsInv, CompileStep PROVE Bounded
<1>1. CASE UnexpectedToken \/ ArrayError \/ WordError \/ ControlError
  BY <1>1, FailBounded DEF UnexpectedToken, ArrayError, WordError, ControlError
<1>2. CASE FinishRun
  <2>1. frames' = <<>> /\ UNCHANGED <<markers, quotStack, quotRefs, specs, defs>>
    BY <1>2 DEF FinishRun
  <2>2. QED
    BY <2>1, EmptySeq, TablesKept DEF Bounded, FramesBounded
<1>3. CASE \/ CompileNumber \/ CompileString \/ CompileBool \/ EmitLit \/ EmitPrim
           \/ CompilePrimitive \/ CallHit \/ CompileStackWord
  BY <1>3, EmitStepsBounded, EmitStepsTables DEF Bounded
<1>4. QED
  BY <1>1, <1>2, <1>3, BracketBounded, CallMissBounded, FinishCallBounded, BeginBounded,
     EnterQuotationBounded, FinishQuotationBounded, FinishMaterializeBounded, ControlBounded
     DEF CompileStep

-----------------------------------------------------------------------------
(* Reading the source, running and restarting.                             *)

LEMMA ReadSourceBounded == ASSUME BoundsInv, ReadSource PROVE Bounded
<1>1. /\ quotStack \in Seq(Quotations) /\ Len(quotStack) \in Nat
      /\ defs \in Seq(Defs) /\ Len(defs) \in Nat /\ current \in Currents
      /\ MaxQuotDepth \in Nat /\ MaxDefs \in Nat
  BY LenProperties, ConstantsAssumption DEF BoundsInv, TypeInv, TypeOK
<1>2. CASE SourceError \/ ParenError \/ TooManyDefinitions
  BY <1>2, FailBounded DEF SourceError, ParenError, TooManyDefinitions
<1>3. CASE CompileTypeSigDecl \/ SkipToken \/ BeginDefinition \/ CompileRparen \/ EndOfFile
  BY <1>3, FramesKept, TablesKept
     DEF CompileTypeSigDecl, SkipToken, BeginDefinition, CompileRparen, EndOfFile,
         sourceVars, compileVars, Bounded
<1>4. CASE CompileLparen
  <2>1. Len(quotStack') = Len(quotStack) + 1 /\ Len(quotStack) < MaxQuotDepth
    BY <1>1, <1>4 DEF CompileLparen
  <2>2. Len(quotStack') <= MaxQuotDepth
    BY <1>1, <2>1
  <2>3. UNCHANGED <<frames, markers, quotRefs, specs, defs>>
    BY <1>4 DEF CompileLparen, compileVars
  <2>4. QED
    BY <2>2, <2>3, FramesKept DEF Bounded, BoundsInv, TablesBounded
<1>5. CASE CaptureToken
  <2>1. UNCHANGED <<frames, markers, quotRefs, specs, defs>>
    BY <1>5 DEF CaptureToken, compileVars
  <2>2. Len(quotStack') = Len(quotStack)
    <3> DEFINE n == Len(quotStack)
    <3>1. CASE UNCHANGED quotStack
      BY <3>1
    <3>2. CASE quotStack' = [quotStack EXCEPT ![n].toks = Append(@, Head(src))]
      <4>1. DOMAIN quotStack' = 1..n
        BY <1>1, <3>2, LenProperties
      <4>2. quotStack' \in Seq(Quotations)
        BY NextTyped DEF BoundsInv, Next, TypeInv, TypeOK
      <4>3. QED
        BY <1>1, <4>1, <4>2, LenProperties
    <3>3. QED
      BY <1>5, <3>1, <3>2 DEF CaptureToken
  <2>3. QED
    BY <2>1, <2>2, FramesKept DEF Bounded, BoundsInv, TablesBounded
<1>6. CASE EndDefinition
  <2>1. UNCHANGED <<frames, markers, quotRefs, specs, quotStack>>
    BY <1>6 DEF EndDefinition, compileVars
  <2> DEFINE d == [name |-> current.name, toks |-> current.toks]
  <2>2. defs' = Append(defs, d) /\ Len(defs) < MaxDefs
    BY <1>6 DEF EndDefinition
  <2> HIDE DEF d
  <2>3. Len(defs') = Len(defs) + 1
    BY <1>1, <2>2
  <2>4. Len(defs') <= MaxDefs
    BY <1>1, <2>2, <2>3
  <2>5. QED
    BY <2>1, <2>4, FramesKept DEF Bounded, BoundsInv, TablesBounded
<1>7. QED
  BY <1>2, <1>3, <1>4, <1>5, <1>6 DEF ReadSource

(* The garbage that the runner takes for arguments is pushed like any      *)
(* other types.                                                            *)
LEMMA RunnerBounded == ASSUME BoundsInv, RunnerExecute \/ RunDone PROVE Bounded
<1>1. CASE RunDone
  BY <1>1, FramesKept, TablesKept DEF RunDone, sourceVars, compileVars, Bounded
<1>2. ASSUME NEW name \in Names, RunnerError(name)
      PROVE  Bounded
  BY <1>2, FailBounded DEF RunnerError
<1>3. ASSUME NEW name \in Names, RunnerLink(name)
      PROVE  Bounded
  BY <1>3, FramesKept, TablesKept DEF RunnerLink, sourceVars, Bounded
<1>4. ASSUME NEW name \in Names, RunnerCompile(name)
      PROVE  Bounded
  <2> DEFINE i     == DictIndex(name)
             entry == dict[i]
  <2>1. dict \in Seq(Entries)
    BY DEF BoundsInv, TypeInv, TypeOK
  <2>2. i \in 1..Len(dict)
    <3> DEFINE S == {k \in 1..Len(dict) : dict[k].name = name}
    <3>1. S \subseteq Nat /\ S # {}
      BY <1>4 DEF RunnerCompile, IsUserWord
    <3>2. FirstOf(S) \in S
      BY <3>1, FirstOfTyped
    <3>3. QED
      BY <3>2 DEF DictIndex
  <2> HIDE DEF i
  <2>3. entry \in Entries
    BY <2>1, <2>2, ElementOfSeq
  <2>4. Len(entry.ins) \in Nat
    BY <2>3, LenProperties DEF Entries
  <2>5. PICK ins \in [1..Len(entry.ins) -> GarbageTypes] :
          frames' = <<NewFrame(entry.def, ins, PushTypes(<<>>, ins), defs[entry.def].toks)>>
    BY <1>4 DEF RunnerCompile, i
  <2>6. ins \in Seq(Types) /\ <<>> \in Seq(Types)
    <3>1. GarbageTypes \subseteq Types
      BY ConstantsAssumption
    <3>2. ins \in [1..Len(entry.ins) -> Types]
      BY <2>5, <3>1
    <3>3. QED
      BY <2>4, <3>2, SeqDef
  <2> DEFINE h == NewFrame(entry.def, ins, PushTypes(<<>>, ins), defs[entry.def].toks)
  <2>7. Len(PushTypes(<<>>, ins)) <= MaxTypeStack
    BY <2>6, PushBounded
  <2>8. h.done = <<>> /\ h.types = PushTypes(<<>>, ins)
    BY DEF NewFrame
  <2>9. BoundedFrame(h)
    BY <2>7, <2>8, FreshBounded
  <2>10. frames' = <<h>>
    BY <2>5
  <2> HIDE DEF h
  <2>11. FramesBounded'
    <3>1. Len(frames') = 1 /\ frames'[1] = h
      BY <2>10
    <3>2. \A k \in 1..Len(frames') : BoundedFrame(frames'[k])
      BY <2>9, <3>1
    <3>3. QED
      BY <3>2 DEF FramesBounded, BoundedFrame
  <2>12. UNCHANGED <<markers, quotStack, quotRefs, specs, defs>>
    BY <1>4 DEF RunnerCompile, sourceVars
  <2>13. QED
    BY <2>11, <2>12, TablesKept DEF Bounded
<1>5. QED
  BY <1>1, <1>2, <1>3, <1>4 DEF RunnerExecute

LEMMA EmptyBounded ==
  /\ Len(<<>>) = 0
  /\ 0 <= MaxArrayDepth /\ 0 <= MaxQuotDepth /\ 0 <= MaxQuotRefs
  /\ 0 <= MaxSpecs /\ 0 <= MaxDefs
BY EmptySeq, ConstantsAssumption

LEMMA BoundsNext == BoundsInv /\ [Next]_vars => BoundsInv'
<1> SUFFICES ASSUME BoundsInv, [Next]_vars PROVE BoundsInv'
  OBVIOUS
<1>1. TypeInv'
  BY NextTyped DEF BoundsInv
<1>2. CASE UNCHANGED vars
  BY <1>1, <1>2, FramesKept, TablesKept DEF vars, BoundsInv
<1>3. CASE Restart
  BY <1>1, <1>3, EmptyBounded DEF Restart, BoundsInv, FramesBounded, TablesBounded
<1>4. QED
  BY <1>1, <1>2, <1>3, ReadSourceBounded, CompileStepBounded, RunnerBounded
     DEF Next, Bounded, BoundsInv

LEMMA BoundsInit == Init => BoundsInv
BY InitTyped, EmptyBounded DEF Init, BoundsInv, FramesBounded, TablesBounded

-----------------------------------------------------------------------------
(* No source file makes the compiler write past the end of its stacks of   *)
(* types, its quotation stack, its marker stack, its list of pending       *)
(* references, its definitions or its cache, whatever sizes they have; the *)
(* buffers it writes the text of signatures to are not modelled.           *)
THEOREM NoOverflow == Spec => []StacksBounded
<1>1. Init => BoundsInv
  BY BoundsInit
<1>2. BoundsInv /\ [Next]_vars => BoundsInv'
  BY BoundsNext
<1>3. BoundsInv => StacksBounded
  BY Halves DEF BoundsInv
<1>4. QED
  BY <1>1, <1>2, <1>3, PTL DEF Spec
-----------------------------------------------------------------------------
(* A quotation that waits on the stack is taken by a frame that consumes   *)
(* it, which inlines it or makes a reference of it, and a reference counts *)
(* for ever.  No step adds to the three together but "(", which is read    *)
(* only while there are neither frames nor references.                     *)

Consumes(f) == f.op \notin {"none", "call"}

Consuming == {i \in 1..Len(frames) : Consumes(frames[i])}

Used == quotRefs + Len(quotStack) + Cardinality(Consuming)

UsedInv ==
  /\ TypeInv
  /\ Used <= MaxQuotDepth
  /\ phase \in {"file", "def"} => quotRefs = 0 /\ frames = <<>>

LEMMA CountTyped ==
  ASSUME NEW fs \in Seq(Frames)
  PROVE  /\ IsFiniteSet({i \in 1..Len(fs) : Consumes(fs[i])})
         /\ Cardinality({i \in 1..Len(fs) : Consumes(fs[i])}) \in Nat
<1> DEFINE M == {i \in 1..Len(fs) : Consumes(fs[i])}
<1>1. Len(fs) \in Nat
  BY LenProperties
<1>2. IsFiniteSet(1..Len(fs))
  BY <1>1, FS_Interval
<1>3. M \in SUBSET (1..Len(fs))
  OBVIOUS
<1>4. QED
  BY <1>2, <1>3, FS_Subset, FS_CardinalityType

LEMMA ConsumingFinite ==
  ASSUME TypeInv
  PROVE  /\ IsFiniteSet(Consuming) /\ Cardinality(Consuming) \in Nat
         /\ quotRefs \in Nat /\ Len(quotStack) \in Nat
BY CountTyped, LenProperties DEF Consuming, TypeInv, TypeOK

LEMMA NothingConsuming ==
  ASSUME NEW fs, fs = <<>>
  PROVE  {i \in 1..Len(fs) : Consumes(fs[i])} = {}
BY EmptySeq

LEMMA ConsumingSetTop ==
  ASSUME TypeInv, frames # <<>>, NEW g, frames' = SetTop(g)
  PROVE  Consuming' = IF Consumes(g) THEN Consuming \cup {Len(frames)}
                                     ELSE Consuming \ {Len(frames)}
<1>1. frames \in Seq(Frames) /\ Len(frames) \in 1..Len(frames)
  BY EmptySeq, LenProperties DEF TypeInv, TypeOK
<1>2. /\ Len(frames') = Len(frames)
      /\ \A i \in 1..Len(frames) : frames'[i] = IF i = Len(frames) THEN g ELSE frames[i]
  BY <1>1, SetTopAny
<1>3. QED
  BY <1>1, <1>2 DEF Consuming

(* Frames that consume no more than before count for no more.              *)
LEMMA ConsumingFewer ==
  ASSUME TypeInv, Consuming' \subseteq Consuming
  PROVE  Cardinality(Consuming') \in Nat /\ Cardinality(Consuming') <= Cardinality(Consuming)
BY ConsumingFinite, FS_Subset, FS_CardinalityType

LEMMA ConsumingLess ==
  ASSUME TypeInv, frames # <<>>, NEW g, frames' = SetTop(g), ~Consumes(g)
  PROVE  Consuming' \subseteq Consuming
BY ConsumingSetTop

LEMMA ConsumingEnter ==
  ASSUME TypeInv, frames # <<>>, NEW g, NEW h, Enter(g, h),
         Consumes(g) <=> Consumes(Top), ~Consumes(h)
  PROVE  Consuming' = Consuming
<1>1. frames \in Seq(Frames) /\ Len(frames) \in Nat /\ Len(frames) \in 1..Len(frames)
  BY EmptySeq, LenProperties DEF TypeInv, TypeOK
<1>2. CASE UNCHANGED frames
  BY <1>2 DEF Consuming
<1>3. CASE frames' = Append(SetTop(g), h)
  <2>1. frames \in Seq(Frames) /\ frames # <<>>
    BY <1>1
  <2>2. /\ Len(frames') = Len(frames) + 1
        /\ \A i \in 1..Len(frames) + 1 :
             frames'[i] = IF i = Len(frames) + 1 THEN h
                          ELSE IF i = Len(frames) THEN g ELSE frames[i]
    BY ONLY <1>3, <2>1, EnteredFrames
  <2>3. \A i \in 1..Len(frames) : Consumes(frames'[i]) <=> Consumes(frames[i])
    BY <1>1, <2>2 DEF Top
  <2>4. \A i \in 1..Len(frames') : Consumes(frames'[i]) => i \in 1..Len(frames)
    BY <1>1, <2>2
  <2>5. \A i \in 1..Len(frames) : i \in 1..Len(frames')
    BY <1>1, <2>2
  <2>6. QED
    BY <2>3, <2>4, <2>5 DEF Consuming
<1>4. QED
  BY <1>2, <1>3 DEF Enter

LEMMA ConsumingPop ==
  ASSUME TypeInv, Idle, Len(frames) > 1, NEW g,
         frames' = [PopFrame EXCEPT ![Len(frames) - 1] = g],
         Consumes(g) <=> Consumes(frames[Len(frames) - 1])
  PROVE  Consuming' = Consuming
<1>1. frames \in Seq(Frames) /\ Len(frames) \in Nat /\ ~Consumes(Top)
  BY LenProperties DEF TypeInv, TypeOK, Idle, Consumes
<1>2. /\ Len(frames') = Len(frames) - 1
      /\ \A i \in 1..Len(frames) - 1 :
           frames'[i] = IF i = Len(frames) - 1 THEN g ELSE frames[i]
  BY <1>1, PopAny
<1>3. \A i \in 1..Len(frames') : Consumes(frames'[i]) <=> Consumes(frames[i])
  BY <1>2
<1>4. \A i \in 1..Len(frames) : Consumes(frames[i]) => i \in 1..Len(frames')
  BY <1>1, <1>2 DEF Top
<1>5. \A i \in 1..Len(frames') : i \in 1..Len(frames)
  BY <1>1, <1>2
<1>6. QED
  BY <1>3, <1>4, <1>5 DEF Consuming

(* What a step of the compiler proper has to do.                           *)
UsedUp ==
  /\ Used' <= Used
  /\ phase' \notin {"file", "def"}

LEMMA SameUsed ==
  ASSUME TypeInv, UNCHANGED <<quotRefs, quotStack>>, Consuming' \subseteq Consuming
  PROVE  Used' <= Used
BY ConsumingFinite, ConsumingFewer DEF Used

LEMMA FailUsed == ASSUME UsedInv, Fail PROVE UsedUp
<1>1. UNCHANGED <<frames, quotRefs, quotStack>> /\ phase' = "failed"
  BY DEF Fail, compileVars
<1>2. Consuming' = Consuming
  BY <1>1 DEF Consuming
<1>3. QED
  BY <1>1, <1>2, SameUsed DEF UsedInv, UsedUp

LEMMA EmitsUsed ==
  ASSUME TypeInv, Compiling, NEW cells, NEW items, NEW types,
         frames' = SetTop(Emit(Top, cells, items, types)), UNCHANGED <<phase, quotRefs, quotStack>>
  PROVE  UsedUp
<1> DEFINE g == Emit(Top, cells, items, types)
<1>1. frames # <<>> /\ phase = "compile" /\ Top \in Frames
  BY TopTyped DEF Compiling, TypeInv
<1>2. ~Consumes(g)
  BY <1>1 DEF Emit, Frames, Consumes
<1>3. frames' = SetTop(g)
  OBVIOUS
<1> HIDE DEF g
<1>4. Consuming' \subseteq Consuming
  BY <1>1, <1>2, <1>3, ConsumingLess
<1>5. QED
  BY <1>1, <1>4, SameUsed DEF UsedUp

(* The steps that end with the code of a token.                            *)
Emits ==
  \/ CompileNumber \/ CompileString \/ CompileBool \/ EmitLit \/ EmitPrim
  \/ CompilePrimitive \/ CallHit \/ CompileStackWord \/ CompileLbracket
  \/ CompileIf \/ CompileTimes \/ CompileTimesUntil

LEMMA EmitsCode ==
  ASSUME Emits
  PROVE  /\ Compiling
         /\ \/ Fail
            \/ /\ UNCHANGED <<phase, quotRefs, quotStack, defs>>
               /\ \E cells, items, types : frames' = SetTop(Emit(Top, cells, items, types))
<1>1. Compiling
  BY DEF Emits, CompileNumber, CompileString, CompileBool, EmitLit, EmitPrim,
         CompilePrimitive, CallHit, CompileStackWord, AtImmediate, AtResolved, AtWord,
         AtToken, Idle, CompileLbracket, CompileIf, CompileTimes, CompileTimesUntil, Ready
<1>2. CASE CompileNumber \/ CompileBool \/ EmitLit
  BY <1>1, <1>2 DEF CompileNumber, CompileBool, EmitLit, EmitLiteral, sourceVars
<1>3. CASE CompileString \/ EmitPrim \/ CompileLbracket
  BY <1>1, <1>3 DEF CompileString, EmitPrim, CompileLbracket, sourceVars
<1>4. CASE CompilePrimitive
  BY <1>1, <1>4 DEF CompilePrimitive, sourceVars
<1>5. CASE CallHit
  BY <1>1, <1>5 DEF CallHit, EmitCall, sourceVars
<1>6. CASE CompileStackWord
  BY <1>1, <1>6 DEF CompileStackWord, sourceVars
<1>7. CASE CompileIf \/ CompileTimes \/ CompileTimesUntil
  BY <1>1, <1>7 DEF CompileIf, CompileTimes, CompileTimesUntil, sourceVars
<1>8. QED
  BY <1>2, <1>3, <1>4, <1>5, <1>6, <1>7 DEF Emits

LEMMA EmitStepsUsed == ASSUME UsedInv, Emits PROVE UsedUp
BY EmitsCode, EmitsUsed, FailUsed DEF UsedInv

LEMMA RbracketUsed == ASSUME UsedInv, CompileRbracket PROVE UsedUp
<1>1. /\ TypeInv /\ frames # <<>> /\ phase = "compile" /\ Top \in Frames /\ Top.op = "none"
      /\ UNCHANGED <<phase, quotRefs, quotStack>>
  BY IdleFacts DEF UsedInv, CompileRbracket, AtToken
<1>2. PICK toks, types : frames' = SetTop([Top EXCEPT !.toks = toks, !.types = types])
  BY DEF CompileRbracket
<1> DEFINE g == [Top EXCEPT !.toks = toks, !.types = types]
<1>3. ~Consumes(g) /\ frames' = SetTop(g)
  BY <1>1, <1>2 DEF Frames, Consumes
<1> HIDE DEF g
<1>4. Consuming' \subseteq Consuming
  BY <1>1, <1>3, ConsumingLess
<1>5. QED
  BY <1>1, <1>4, SameUsed DEF UsedUp

LEMMA EnterUsed ==
  ASSUME UsedInv, Compiling, NEW g, NEW h, Enter(g, h), UNCHANGED <<quotRefs, quotStack>>,
         Consumes(g) <=> Consumes(Top), ~Consumes(h)
  PROVE  UsedUp
<1>1. TypeInv /\ frames # <<>> /\ phase = "compile"
  BY DEF UsedInv, Compiling
<1>2. Consuming' = Consuming
  BY <1>1, ConsumingEnter
<1>3. phase' \in {"compile", "crashed"}
  BY <1>1 DEF Enter
<1>4. QED
  BY <1>1, <1>2, <1>3, SameUsed DEF UsedUp

LEMMA CallMissUsed == ASSUME UsedInv, CallMiss PROVE UsedUp
<1> DEFINE g == [Top EXCEPT !.op = "call"]
           h == NewFrame(Resolved.def, CallInputs, PushTypes(<<>>, CallInputs),
                         defs[Resolved.def].toks)
<1>1. /\ Compiling /\ Top \in Frames /\ Top.op = "none"
      /\ Enter(g, h) /\ UNCHANGED <<quotRefs, quotStack>>
  BY IdleFacts DEF UsedInv, CallMiss, AtResolved, AtWord, AtToken, Idle
<1>2. (Consumes(g) <=> Consumes(Top)) /\ ~Consumes(h)
  BY <1>1 DEF NewFrame, Frames, Consumes
<1> HIDE DEF g, h
<1>3. QED
  BY <1>1, <1>2, EnterUsed

LEMMA EnterQuotationUsed == ASSUME UsedInv, EnterQuotation PROVE UsedUp
<1>1. PICK ctx, toks : Enter(Top, NewFrame(0, ctx, ctx, toks))
  BY DEF EnterQuotation
<1>2. Compiling /\ UNCHANGED <<quotRefs, quotStack>>
  BY DEF EnterQuotation
<1>3. ~Consumes(NewFrame(0, ctx, ctx, toks))
  BY DEF NewFrame, Consumes
<1>4. QED
  BY <1>1, <1>2, <1>3, EnterUsed

LEMMA ReturnUsed == ASSUME UsedInv, FinishQuotation \/ FinishCall PROVE UsedUp
<1> DEFINE caller == frames[Len(frames) - 1]
<1>1. /\ TypeInv /\ Idle /\ Len(frames) > 1 /\ phase = "compile"
      /\ UNCHANGED <<quotRefs, quotStack>>
  BY DEF UsedInv, FinishQuotation, FinishCall, WordDone, Idle, Compiling
<1>2. caller \in Frames /\ PopFrame[Len(frames) - 1] = caller
  BY <1>1, CallerFacts, CallerFrame
<1>3. CASE FinishQuotation
  <2>1. PICK r : frames' = [PopFrame EXCEPT ![Len(frames) - 1].done = Append(@, r)]
    BY <1>3 DEF FinishQuotation
  <2> DEFINE g == [caller EXCEPT !.done = Append(@, r)]
  <2>2. frames' = [PopFrame EXCEPT ![Len(frames) - 1] = g] /\ (Consumes(g) <=> Consumes(caller))
    BY <1>2, <2>1 DEF Frames, Consumes
  <2> HIDE DEF g
  <2>3. Consuming' = Consuming
    BY <1>1, <2>2, ConsumingPop
  <2>4. UNCHANGED phase
    BY <1>3 DEF FinishQuotation
  <2>5. QED
    BY <1>1, <2>3, <2>4, SameUsed DEF UsedUp
<1>4. CASE FinishCall
  <2>1. caller.op = "call"
    BY <1>1, CallerFacts, <1>4 DEF Awaits, FinishCall, WordDone
  <2>2. \/ UNCHANGED frames /\ phase' = "failed"
        \/ /\ UNCHANGED phase
           /\ \E e, cid : frames' = [PopFrame EXCEPT ![Len(frames) - 1] = EmitCall(caller, e, cid)]
    BY <1>4 DEF FinishCall
  <2>3. CASE UNCHANGED frames /\ phase' = "failed"
    <3>1. Consuming' = Consuming
      BY <2>3 DEF Consuming
    <3>2. QED
      BY <1>1, <2>3, <3>1, SameUsed DEF UsedUp
  <2>4. CASE /\ UNCHANGED phase
             /\ \E e, cid : frames' = [PopFrame EXCEPT ![Len(frames) - 1] = EmitCall(caller, e, cid)]
    <3>1. PICK e, cid : frames' = [PopFrame EXCEPT ![Len(frames) - 1] = EmitCall(caller, e, cid)]
      BY <2>4
    <3> DEFINE g == EmitCall(caller, e, cid)
    <3>2. /\ frames' = [PopFrame EXCEPT ![Len(frames) - 1] = g]
          /\ Consumes(g) <=> Consumes(caller)
      BY <1>2, <2>1, <3>1 DEF EmitCall, Emit, Frames, Consumes
    <3> HIDE DEF g
    <3>3. Consuming' = Consuming
      BY <1>1, <2>1, <3>2, ConsumingPop
    <3>4. QED
      BY <1>1, <2>4, <3>3, SameUsed DEF UsedUp
  <2>5. QED
    BY <2>2, <2>3, <2>4
<1>5. QED
  BY <1>3, <1>4

(* A consumer takes one quotation from the stack or more, and is counted   *)
(* for one.                                                                *)
LEMMA ConsumeUsed ==
  ASSUME UsedInv, Idle, NEW n \in 1..Len(quotStack), NEW op, NEW types,
         Consume(n, op, TakeQuots(n), types)
  PROVE  UsedUp
<1> DEFINE g == [Top EXCEPT !.op = op, !.quots = TakeQuots(n), !.types = types]
           M == Consuming
<1>1. TypeInv /\ frames # <<>> /\ Top \in Frames /\ phase = "compile" /\ Len(frames) \in Nat
  BY IdleFacts, LenProperties DEF UsedInv, FramesOK
<1>2. quotStack \in Seq(Quotations) /\ Len(quotStack) \in Nat /\ quotRefs \in Nat
      /\ IsFiniteSet(M) /\ Cardinality(M) \in Nat
  BY <1>1, ConsumingFinite DEF TypeInv, TypeOK
<1>3. Len(LeaveQuots(n)) = Len(quotStack) - n
  BY <1>2, TakeQuotsTyped
<1>4. /\ frames' = SetTop(g) /\ quotStack' = LeaveQuots(n) /\ UNCHANGED <<phase, quotRefs>>
  BY DEF Consume
<1> HIDE DEF g
<1>5. Consuming' \subseteq M \cup {Len(frames)}
  BY <1>1, <1>4, ConsumingSetTop
<1>6. /\ IsFiniteSet(M \cup {Len(frames)}) /\ Cardinality(M \cup {Len(frames)}) \in Nat
      /\ Cardinality(M \cup {Len(frames)}) <= Cardinality(M) + 1
  <2> DEFINE c == Cardinality(M)
             d == Cardinality(M \cup {Len(frames)})
  <2>1. IsFiniteSet(M \cup {Len(frames)}) /\ (d = c \/ d = c + 1)
    BY <1>2, FS_AddElement
  <2>2. c \in Nat
    BY <1>2
  <2> HIDE DEF c, d
  <2>3. d \in Nat /\ d <= c + 1
    BY <2>1, <2>2
  <2>4. QED
    BY <2>1, <2>3 DEF c, d
<1>7. Cardinality(Consuming') <= Cardinality(M) + 1 /\ Cardinality(Consuming') \in Nat
  BY <1>2, <1>5, <1>6, FS_Subset, FS_CardinalityType
<1>8. Len(quotStack') = Len(quotStack) - n
  BY <1>3, <1>4
<1> HIDE DEF M
<1>9. Used' <= Used
  BY <1>2, <1>4, <1>7, <1>8 DEF Used, M
<1>10. QED
  BY <1>1, <1>4, <1>9 DEF UsedUp

LEMMA BeginUsed ==
  ASSUME UsedInv, BeginMaterialize \/ BeginIf \/ BeginTimes \/ BeginUntil
  PROVE  UsedUp
<1>1. TypeInv /\ Idle
  BY DEF UsedInv, BeginMaterialize, BeginIf, BeginTimes, BeginUntil, AtImmediate,
         AtResolved, AtWord, AtToken
<1>2. Len(quotStack) \in Nat /\ (quotStack # <<>> => Len(quotStack) >= 1)
  BY <1>1, QuotStackDepth
<1>3. CASE BeginMaterialize
  BY <1>1, <1>2, <1>3, ConsumeUsed DEF BeginMaterialize
<1>4. CASE BeginIf
  BY <1>1, <1>2, <1>4, ConsumeUsed DEF BeginIf
<1>5. CASE BeginTimes
  BY <1>1, <1>2, <1>5, ConsumeUsed DEF BeginTimes
<1>6. CASE BeginUntil
  BY <1>1, <1>2, <1>6, ConsumeUsed DEF BeginUntil
<1>7. QED
  BY <1>3, <1>4, <1>5, <1>6

(* The quotation becomes a reference, the frame goes on.                   *)
LEMMA FinishMaterializeUsed == ASSUME UsedInv, FinishMaterialize PROVE UsedUp
<1> DEFINE M == Consuming
<1>1. TypeInv /\ frames # <<>> /\ Top \in Frames /\ phase = "compile" /\ Top.op = "mat"
  BY TopTyped DEF UsedInv, TypeInv, FinishMaterialize, Ready, Compiling
<1>2. /\ Len(quotStack) \in Nat /\ quotRefs \in Nat /\ IsFiniteSet(M) /\ Cardinality(M) \in Nat
      /\ UNCHANGED quotStack
  BY <1>1, ConsumingFinite DEF FinishMaterialize
<1>3. CASE quotRefs >= MaxQuotRefs
  <2>1. phase' = "failed" /\ UNCHANGED <<frames, quotRefs>>
    BY <1>3 DEF FinishMaterialize
  <2>2. Consuming' = Consuming
    BY <2>1 DEF Consuming
  <2>3. QED
    BY <1>1, <1>2, <2>1, <2>2, SameUsed DEF UsedUp
<1>4. CASE ~(quotRefs >= MaxQuotRefs)
  <2>1. /\ quotRefs' = quotRefs + 1 /\ UNCHANGED phase
        /\ \E cells, blob, types :
             frames' = SetTop([Top EXCEPT !.cells = cells, !.blob = blob, !.types = types,
                                          !.op = "none", !.quots = <<>>, !.done = <<>>])
    BY <1>4 DEF FinishMaterialize
  <2>2. PICK g : frames' = SetTop(g) /\ ~Consumes(g)
    <3>1. PICK cells, blob, types :
            frames' = SetTop([Top EXCEPT !.cells = cells, !.blob = blob, !.types = types,
                                         !.op = "none", !.quots = <<>>, !.done = <<>>])
      BY <2>1
    <3> DEFINE g == [Top EXCEPT !.cells = cells, !.blob = blob, !.types = types,
                                !.op = "none", !.quots = <<>>, !.done = <<>>]
    <3>2. ~Consumes(g)
      BY <1>1 DEF Frames, Consumes
    <3> HIDE DEF g
    <3>3. frames' = SetTop(g)
      BY <3>1 DEF g
    <3>4. QED
      BY <3>2, <3>3
  <2>3. Consuming' = M \ {Len(frames)}
    BY <1>1, <2>2, ConsumingSetTop
  <2>4. Len(frames) \in M
    <3>1. Len(frames) \in 1..Len(frames)
      BY <1>1, EmptySeq, LenProperties DEF TypeInv, TypeOK
    <3>2. QED
      BY <1>1, <3>1 DEF Consuming, Consumes, Top
  <2>5. Cardinality(Consuming') = Cardinality(M) - 1
    BY <1>2, <2>3, <2>4, FS_RemoveElement
  <2> HIDE DEF M
  <2>6. Used' <= Used
    BY <1>2, <2>1, <2>5 DEF Used, M
  <2>7. QED
    BY <1>1, <2>1, <2>6 DEF UsedUp
<1>5. QED
  BY <1>3, <1>4

LEMMA FinishRunUsed == ASSUME UsedInv, FinishRun PROVE UsedUp
<1>1. frames' = <<>> /\ UNCHANGED <<quotStack, quotRefs>> /\ phase' = "link"
  BY DEF FinishRun
<1>2. Cardinality(Consuming') = 0
  BY <1>1, NothingConsuming, FS_EmptySet DEF Consuming
<1>3. Used' <= Used
  BY <1>1, <1>2, ConsumingFinite DEF Used, UsedInv
<1>4. QED
  BY <1>1, <1>3 DEF UsedUp

LEMMA CompileStepUsed == ASSUME UsedInv, CompileStep PROVE UsedUp
<1>1. CASE UnexpectedToken \/ ArrayError \/ WordError \/ ControlError
  BY <1>1, FailUsed DEF UnexpectedToken, ArrayError, WordError, ControlError
<1>2. QED
  BY <1>1, EmitStepsUsed, RbracketUsed, CallMissUsed, EnterQuotationUsed, ReturnUsed, BeginUsed,
     FinishMaterializeUsed, FinishRunUsed DEF CompileStep, Emits

(* Reading: the only thing that counts is the stack of quotations, which   *)
(* "(" checks.                                                             *)
LEMMA ReadSourceUsed ==
  ASSUME UsedInv, ReadSource
  PROVE  /\ Used' <= MaxQuotDepth
         /\ phase' \in {"file", "def"} => quotRefs' = 0 /\ frames' = <<>>
<1>1. /\ quotStack \in Seq(Quotations) /\ Len(quotStack) \in Nat
      /\ MaxQuotDepth \in Nat /\ frames = <<>> /\ quotRefs = 0
  <2>1. phase \in {"file", "def"}
    BY DEF ReadSource, CompileTypeSigDecl, SkipToken, SourceError, BeginDefinition,
           CompileLparen, CompileRparen, ParenError, CaptureToken, EndDefinition,
           TooManyDefinitions, EndOfFile, At, AtEndOfDefinition
  <2>2. QED
    BY <2>1, LenProperties, ConstantsAssumption DEF UsedInv, TypeInv, TypeOK
<1>2. UNCHANGED <<frames, quotRefs>>
  BY DEF ReadSource, CompileTypeSigDecl, SkipToken, SourceError, BeginDefinition,
         CompileLparen, CompileRparen, ParenError, CaptureToken, EndDefinition,
         TooManyDefinitions, EndOfFile, Fail, compileVars
<1>3. Cardinality(Consuming) = 0 /\ Cardinality(Consuming') = 0
  BY <1>1, <1>2, NothingConsuming, FS_EmptySet DEF Consuming
<1>4. Len(quotStack) <= MaxQuotDepth
  BY <1>1, <1>3 DEF UsedInv, Used
<1>5. Len(quotStack') <= MaxQuotDepth /\ Len(quotStack') \in Nat
  <2>1. CASE CompileLparen
    <3>1. Len(quotStack') = Len(quotStack) + 1 /\ Len(quotStack) < MaxQuotDepth
      BY <1>1, <2>1 DEF CompileLparen
    <3>2. QED
      BY <1>1, <3>1
  <2>2. CASE CaptureToken
    <3> DEFINE n == Len(quotStack)
    <3>1. CASE UNCHANGED quotStack
      BY <1>1, <1>4, <3>1
    <3>2. CASE quotStack' = [quotStack EXCEPT ![n].toks = Append(@, Head(src))]
      <4>1. DOMAIN quotStack' = 1..n
        BY <1>1, <3>2, LenProperties
      <4>2. quotStack' \in Seq(Quotations)
        BY NextTyped DEF UsedInv, Next, TypeInv, TypeOK
      <4>3. QED
        BY <1>1, <1>4, <4>1, <4>2, LenProperties
    <3>3. QED
      BY <2>2, <3>1, <3>2 DEF CaptureToken
  <2>3. CASE ~CompileLparen /\ ~CaptureToken
    <3>1. UNCHANGED quotStack
      BY <2>3 DEF ReadSource, CompileTypeSigDecl, SkipToken, SourceError, BeginDefinition,
                  CompileRparen, ParenError, EndDefinition, TooManyDefinitions, EndOfFile, Fail
    <3>2. QED
      BY <1>1, <1>4, <3>1
  <2>4. QED
    BY <2>1, <2>2, <2>3
<1>6. QED
  BY <1>1, <1>2, <1>3, <1>5 DEF Used

LEMMA RunnerUsed == ASSUME UsedInv, RunnerExecute \/ RunDone PROVE UsedUp
<1>1. TypeInv
  BY DEF UsedInv
<1>2. CASE RunDone
  <2>1. UNCHANGED <<frames, quotRefs, quotStack>> /\ phase' \in {"ready", "failed"}
    BY <1>2 DEF RunDone, compileVars
  <2>2. Consuming' = Consuming
    BY <2>1 DEF Consuming
  <2>3. QED
    BY <1>1, <2>1, <2>2, SameUsed DEF UsedUp
<1>3. ASSUME NEW name \in Names, RunnerError(name)
      PROVE  UsedUp
  BY <1>3, FailUsed DEF RunnerError
<1>4. ASSUME NEW name \in Names, RunnerLink(name)
      PROVE  UsedUp
  <2>1. UNCHANGED <<frames, quotRefs, quotStack>> /\ phase' = "link"
    BY <1>4 DEF RunnerLink
  <2>2. Consuming' = Consuming
    BY <2>1 DEF Consuming
  <2>3. QED
    BY <1>1, <2>1, <2>2, SameUsed DEF UsedUp
<1>5. ASSUME NEW name \in Names, RunnerCompile(name)
      PROVE  UsedUp
  <2>1. PICK def, ins, types, toks : frames' = <<NewFrame(def, ins, types, toks)>>
    BY <1>5 DEF RunnerCompile
  <2> DEFINE h == NewFrame(def, ins, types, toks)
  <2>2. frames' = <<h>> /\ ~Consumes(h)
    BY <2>1 DEF NewFrame, Consumes
  <2> HIDE DEF h
  <2>3. Consuming' = {}
    <3>1. Len(frames') = 1 /\ ~Consumes(frames'[1])
      BY <2>2
    <3>2. QED
      BY <3>1 DEF Consuming
  <2>4. Cardinality(Consuming') = 0
    BY <2>3, FS_EmptySet
  <2>5. UNCHANGED <<quotRefs, quotStack>> /\ phase' = "compile"
    BY <1>5 DEF RunnerCompile
  <2>6. Used' <= Used
    BY <1>1, <2>4, <2>5, ConsumingFinite DEF Used
  <2>7. QED
    BY <2>5, <2>6 DEF UsedUp
<1>6. QED
  BY <1>2, <1>3, <1>4, <1>5 DEF RunnerExecute

LEMMA UsedInteger ==
  ASSUME TypeInv, TypeInv'
  PROVE  Used \in Nat /\ Used' \in Nat /\ MaxQuotDepth \in Nat
<1>1. Used \in Nat /\ MaxQuotDepth \in Nat
  BY ConsumingFinite, ConstantsAssumption DEF Used
<1>2. frames' \in Seq(Frames) /\ quotRefs' \in Nat /\ Len(quotStack') \in Nat
  BY LenProperties DEF TypeInv, TypeOK
<1>3. Cardinality(Consuming') \in Nat
  BY <1>2, CountTyped DEF Consuming
<1>4. QED
  BY <1>1, <1>2, <1>3 DEF Used

LEMMA UsedEmpty ==
  ASSUME quotRefs = 0, quotStack = <<>>, frames = <<>>
  PROVE  Used <= MaxQuotDepth
<1>1. Cardinality(Consuming) = 0
  BY NothingConsuming, FS_EmptySet DEF Consuming
<1>2. QED
  BY <1>1, EmptySeq, ConstantsAssumption DEF Used

LEMMA RestartUsed ==
  ASSUME Restart
  PROVE  Used' <= MaxQuotDepth /\ quotRefs' = 0 /\ frames' = <<>>
<1>1. quotRefs' = 0 /\ quotStack' = <<>> /\ frames' = <<>>
  BY DEF Restart
<1>2. Cardinality(Consuming') = 0
  BY <1>1, NothingConsuming, FS_EmptySet DEF Consuming
<1>3. QED
  BY <1>1, <1>2, EmptySeq, ConstantsAssumption DEF Used

LEMMA UsedNext == UsedInv /\ [Next]_vars => UsedInv'
<1> SUFFICES ASSUME UsedInv, [Next]_vars PROVE UsedInv'
  OBVIOUS
<1>1. TypeInv' /\ TypeInv
  BY NextTyped DEF UsedInv
<1>2. Used \in Nat /\ Used' \in Nat /\ MaxQuotDepth \in Nat
  BY <1>1, UsedInteger
<1>3. CASE UNCHANGED vars
  BY <1>1, <1>3 DEF vars, UsedInv, Used, Consuming
<1>4. CASE Restart
  BY <1>1, <1>4, RestartUsed DEF UsedInv
<1>5. CASE ReadSource
  BY <1>1, <1>5, ReadSourceUsed DEF UsedInv
<1>6. CASE CompileStep \/ RunnerExecute \/ RunDone
  <2>1. UsedUp
    BY <1>6, CompileStepUsed, RunnerUsed
  <2>2. Used' <= Used /\ Used <= MaxQuotDepth
    BY <2>1 DEF UsedUp, UsedInv
  <2>3. Used' <= MaxQuotDepth
    BY <1>2, <2>2
  <2>4. QED
    BY <1>1, <2>1, <2>3 DEF UsedUp, UsedInv
<1>7. QED
  BY <1>3, <1>4, <1>5, <1>6 DEF Next

LEMMA UsedInit == Init => UsedInv
BY InitTyped, UsedEmpty DEF Init, UsedInv

(* Quotations that have become references and quotations that wait are     *)
(* together never more than the stack of quotations holds, although the    *)
(* count of references is never reset and a quotation is consumed in the   *)
(* middle of compiling another: each is consumed once.                     *)
THEOREM ConsumedOnce == Spec => []QuotationsUsedOnce
<1>1. Init => UsedInv
  BY UsedInit
<1>2. UsedInv /\ [Next]_vars => UsedInv'
  BY UsedNext
<1>3. UsedInv => QuotationsUsedOnce
  <2> SUFFICES ASSUME UsedInv PROVE QuotationsUsedOnce
    OBVIOUS
  <2>1. TypeInv /\ MaxQuotDepth \in Nat /\ Used <= MaxQuotDepth
    BY ConstantsAssumption DEF UsedInv
  <2>2. quotRefs \in Nat /\ Len(quotStack) \in Nat /\ Cardinality(Consuming) \in Nat
    BY <2>1, ConsumingFinite
  <2>3. QED
    BY <2>1, <2>2 DEF Used, QuotationsUsedOnce
<1>4. QED
  BY <1>1, <1>2, <1>3, PTL DEF Spec
-----------------------------------------------------------------------------
(* Every frame compiles a definition that exists, or a quotation.          *)

DefKnown(f) == f.def <= Len(defs)

AllKnown == \A i \in 1..Len(frames) : DefKnown(frames[i])

(* The C stack is exhausted when it is full.                               *)
Full == phase = "crashed" => Len(frames) >= MaxFrames

CrashInv == UsedInv /\ AllKnown /\ Full

KnownAgain == AllKnown' /\ Full'

LEMMA TopKnown ==
  ASSUME TypeInv, AllKnown, frames # <<>>
  PROVE  DefKnown(Top)
<1>1. Len(frames) \in 1..Len(frames)
  BY EmptySeq, LenProperties DEF TypeInv, TypeOK
<1>2. QED
  BY <1>1 DEF AllKnown, Top

LEMMA SetTopKnown ==
  ASSUME TypeInv, AllKnown, frames # <<>>, NEW g, DefKnown(g), frames' = SetTop(g),
         UNCHANGED <<defs, phase>>, phase = "compile"
  PROVE  KnownAgain
<1>1. frames \in Seq(Frames)
  BY DEF TypeInv, TypeOK
<1>2. /\ Len(frames') = Len(frames)
      /\ \A i \in 1..Len(frames) : frames'[i] = IF i = Len(frames) THEN g ELSE frames[i]
  BY <1>1, SetTopAny
<1>3. QED
  BY <1>2 DEF AllKnown, DefKnown, Full, KnownAgain

LEMMA EnterKnown ==
  ASSUME TypeInv, AllKnown, frames # <<>>, NEW g, NEW h, Enter(g, h), DefKnown(g), DefKnown(h),
         UNCHANGED defs, phase = "compile"
  PROVE  KnownAgain
<1>1. CASE Len(frames) >= MaxFrames
  BY <1>1 DEF Enter, AllKnown, DefKnown, Full, KnownAgain
<1>2. CASE ~(Len(frames) >= MaxFrames)
  <2>1. frames' = Append(SetTop(g), h) /\ phase' = "compile"
    BY <1>2 DEF Enter
  <2>2. frames \in Seq(Frames) /\ Len(frames) \in Nat
    BY LenProperties DEF TypeInv, TypeOK
  <2>3. frames # <<>> /\ frames' = Append(SetTop(g), h)
    BY <2>1
  <2>4. frames \in Seq(Frames)
    BY <2>2
  <2>5. /\ Len(frames') = Len(frames) + 1
        /\ \A i \in 1..Len(frames) + 1 :
             frames'[i] = IF i = Len(frames) + 1 THEN h
                          ELSE IF i = Len(frames) THEN g ELSE frames[i]
    BY ONLY <2>3, <2>4, EnteredFrames
  <2>6. ASSUME NEW i \in 1..Len(frames')
        PROVE  frames'[i].def <= Len(defs)
    <3>1. i \in 1..Len(frames) + 1
      BY <2>5
    <3>2. CASE i = Len(frames) + 1
      BY <2>5, <3>1, <3>2 DEF DefKnown
    <3>3. CASE i = Len(frames)
      BY <2>2, <2>5, <3>1, <3>3 DEF DefKnown
    <3>4. CASE i \in 1..Len(frames) /\ i # Len(frames)
      BY <2>2, <2>5, <3>1, <3>4 DEF DefKnown, AllKnown
    <3>5. QED
      BY <2>2, <3>1, <3>2, <3>3, <3>4
  <2>7. QED
    BY <2>1, <2>6 DEF AllKnown, DefKnown, Full, KnownAgain
<1>3. QED
  BY <1>1, <1>2

LEMMA PopKnown ==
  ASSUME TypeInv, AllKnown, Len(frames) > 1, NEW g, DefKnown(g),
         frames' = [PopFrame EXCEPT ![Len(frames) - 1] = g],
         UNCHANGED <<defs, phase>>, phase = "compile"
  PROVE  KnownAgain
<1>1. frames \in Seq(Frames) /\ Len(frames) \in Nat
  BY LenProperties DEF TypeInv, TypeOK
<1>2. /\ Len(frames') = Len(frames) - 1
      /\ \A i \in 1..Len(frames) - 1 :
           frames'[i] = IF i = Len(frames) - 1 THEN g ELSE frames[i]
  BY <1>1, PopAny
<1>3. \A i \in 1..Len(frames) - 1 : i \in 1..Len(frames)
  BY <1>1
<1>4. QED
  BY <1>2, <1>3 DEF AllKnown, DefKnown, Full, KnownAgain

LEMMA SameKnown ==
  ASSUME AllKnown, UNCHANGED <<frames, defs>>, phase' # "crashed"
  PROVE  KnownAgain
BY DEF AllKnown, DefKnown, Full, KnownAgain

LEMMA FailKnown == ASSUME AllKnown, Fail PROVE KnownAgain
<1>1. UNCHANGED <<frames, defs>> /\ phase' = "failed"
  BY DEF Fail, sourceVars, compileVars
<1>2. QED
  BY <1>1, SameKnown

LEMMA NoFramesKnown ==
  ASSUME frames' = <<>>, phase' # "crashed"
  PROVE  KnownAgain
BY EmptySeq DEF AllKnown, Full, KnownAgain

LEMMA EmitStepsKnown == ASSUME CrashInv, Emits PROVE KnownAgain
<1>1. TypeInv /\ AllKnown /\ Compiling
  BY EmitsCode DEF CrashInv, UsedInv
<1>2. CASE Fail
  BY <1>1, <1>2, FailKnown
<1>3. CASE ~Fail
  <2>1. UNCHANGED <<phase, defs>>
    BY <1>3, EmitsCode
  <2>2. PICK cells, items, types : frames' = SetTop(Emit(Top, cells, items, types))
    BY <1>3, EmitsCode
  <2> DEFINE g == Emit(Top, cells, items, types)
  <2>3. g.def = Top.def
    BY <1>1, TopTyped DEF Emit, Frames, Compiling, TypeInv
  <2>4. frames' = SetTop(g)
    BY <2>2
  <2> HIDE DEF g
  <2>5. DefKnown(g)
    BY <1>1, <2>3, TopKnown DEF DefKnown, Compiling
  <2>6. QED
    BY <1>1, <2>1, <2>4, <2>5, SetTopKnown DEF Compiling
<1>4. QED
  BY <1>2, <1>3

(* The other steps that change the top frame only.                         *)
LEMMA TopStepsKnown ==
  ASSUME CrashInv, CompileRbracket \/ FinishMaterialize
                     \/ BeginMaterialize \/ BeginIf \/ BeginTimes \/ BeginUntil
  PROVE  KnownAgain
<1>1. TypeInv /\ AllKnown /\ frames # <<>> /\ phase = "compile" /\ Top \in Frames
  <2>1. TypeInv /\ AllKnown /\ Compiling
    BY DEF CrashInv, UsedInv, CompileRbracket, FinishMaterialize, BeginMaterialize, BeginIf,
           BeginTimes, BeginUntil, AtImmediate, AtResolved, AtWord, AtToken, Idle, Ready
  <2>2. QED
    BY <2>1, TopTyped DEF Compiling, TypeInv
<1>2. \/ UNCHANGED <<frames, defs>> /\ phase' = "failed"
      \/ /\ UNCHANGED <<phase, defs>>
         /\ \E toks, types : frames' = SetTop([Top EXCEPT !.toks = toks, !.types = types])
      \/ /\ UNCHANGED <<phase, defs>>
         /\ \E cells, blob, types :
              frames' = SetTop([Top EXCEPT !.cells = cells, !.blob = blob, !.types = types,
                                           !.op = "none", !.quots = <<>>, !.done = <<>>])
      \/ /\ UNCHANGED <<phase, defs>>
         /\ \E op, quots, types :
              frames' = SetTop([Top EXCEPT !.op = op, !.quots = quots, !.types = types])
  <2>1. CASE CompileRbracket
    BY <2>1 DEF CompileRbracket, sourceVars
  <2>2. CASE FinishMaterialize
    BY <2>2 DEF FinishMaterialize, sourceVars
  <2>3. CASE BeginMaterialize
    BY <2>3 DEF BeginMaterialize, Consume, sourceVars
  <2>4. CASE BeginIf
    BY <2>4 DEF BeginIf, Consume, sourceVars
  <2>5. CASE BeginTimes \/ BeginUntil
    BY <2>5 DEF BeginTimes, BeginUntil, Consume, sourceVars
  <2>6. QED
    BY <2>1, <2>2, <2>3, <2>4, <2>5
<1>3. ASSUME NEW g, frames' = SetTop(g), g.def = Top.def, UNCHANGED <<phase, defs>>
      PROVE  KnownAgain
  <2>1. DefKnown(g)
    BY <1>1, <1>3, TopKnown DEF DefKnown
  <2>2. QED
    BY <1>1, <1>3, <2>1, SetTopKnown
<1>4. CASE UNCHANGED <<frames, defs>> /\ phase' = "failed"
  BY <1>1, <1>4, SameKnown
<1>5. ASSUME UNCHANGED <<phase, defs>>, NEW toks, NEW types,
             frames' = SetTop([Top EXCEPT !.toks = toks, !.types = types])
      PROVE  KnownAgain
  <2>1. [Top EXCEPT !.toks = toks, !.types = types].def = Top.def
    BY <1>1 DEF Frames
  <2>2. QED
    BY <1>3, <1>5, <2>1
<1>6. ASSUME UNCHANGED <<phase, defs>>, NEW cells, NEW blob, NEW types,
             frames' = SetTop([Top EXCEPT !.cells = cells, !.blob = blob, !.types = types,
                                          !.op = "none", !.quots = <<>>, !.done = <<>>])
      PROVE  KnownAgain
  <2>1. [Top EXCEPT !.cells = cells, !.blob = blob, !.types = types,
                    !.op = "none", !.quots = <<>>, !.done = <<>>].def = Top.def
    BY <1>1 DEF Frames
  <2>2. QED
    BY <1>3, <1>6, <2>1
<1>7. ASSUME UNCHANGED <<phase, defs>>, NEW op, NEW quots, NEW types,
             frames' = SetTop([Top EXCEPT !.op = op, !.quots = quots, !.types = types])
      PROVE  KnownAgain
  <2>1. [Top EXCEPT !.op = op, !.quots = quots, !.types = types].def = Top.def
    BY <1>1 DEF Frames
  <2>2. QED
    BY <1>3, <1>7, <2>1
<1>8. QED
  BY <1>2, <1>4, <1>5, <1>6, <1>7

LEMMA CallMissKnown == ASSUME CrashInv, CallMiss PROVE KnownAgain
<1> DEFINE g == [Top EXCEPT !.op = "call"]
           h == NewFrame(Resolved.def, CallInputs, PushTypes(<<>>, CallInputs),
                         defs[Resolved.def].toks)
<1>1. /\ TypeInv /\ AllKnown /\ AtToken /\ Resolved.kind = "word"
      /\ Enter(g, h) /\ UNCHANGED defs
  BY DEF CrashInv, UsedInv, CallMiss, AtResolved, AtWord, sourceVars
<1>2. frames # <<>> /\ phase = "compile" /\ Top \in Frames
  BY <1>1, IdleFacts DEF AtToken
<1>3. Resolved.def \in 1..Len(defs)
  BY <1>1, ResolvedFacts
<1>4. g.def = Top.def /\ h.def = Resolved.def
  BY <1>2 DEF Frames, NewFrame
<1> HIDE DEF g, h
<1>5. DefKnown(g) /\ DefKnown(h)
  BY <1>1, <1>2, <1>3, <1>4, TopKnown DEF DefKnown
<1>6. QED
  BY <1>1, <1>2, <1>5, EnterKnown

LEMMA EnterQuotationKnown == ASSUME CrashInv, EnterQuotation PROVE KnownAgain
<1>1. PICK ctx, toks : Enter(Top, NewFrame(0, ctx, ctx, toks))
  BY DEF EnterQuotation
<1>2. TypeInv /\ AllKnown /\ frames # <<>> /\ phase = "compile" /\ UNCHANGED defs
  BY DEF CrashInv, UsedInv, EnterQuotation, Compiling, sourceVars
<1>3. DefKnown(NewFrame(0, ctx, ctx, toks))
  <2>1. NewFrame(0, ctx, ctx, toks).def = 0
    BY DEF NewFrame
  <2>2. Len(defs) \in Nat
    BY <1>2, LenProperties DEF TypeInv, TypeOK
  <2>3. QED
    BY <2>1, <2>2 DEF DefKnown
<1>4. DefKnown(Top)
  BY <1>2, TopKnown
<1>5. QED
  BY <1>1, <1>2, <1>3, <1>4, EnterKnown

LEMMA ReturnKnown == ASSUME CrashInv, FinishQuotation \/ FinishCall PROVE KnownAgain
<1> DEFINE caller == frames[Len(frames) - 1]
<1>1. /\ TypeInv /\ AllKnown /\ Idle /\ Len(frames) > 1 /\ phase = "compile"
      /\ UNCHANGED defs
  BY DEF CrashInv, UsedInv, FinishQuotation, FinishCall, WordDone, Idle, Compiling, sourceVars
<1>2. caller \in Frames /\ PopFrame[Len(frames) - 1] = caller
  BY <1>1, CallerFacts, CallerFrame
<1>3. DefKnown(caller)
  <2>1. Len(frames) \in Nat
    BY <1>1, CallerFrame
  <2>2. Len(frames) - 1 \in 1..Len(frames)
    BY <1>1, <2>1
  <2>3. QED
    BY <1>1, <2>2 DEF AllKnown
<1>4. ASSUME NEW g, frames' = [PopFrame EXCEPT ![Len(frames) - 1] = g], g.def = caller.def,
             UNCHANGED phase
      PROVE  KnownAgain
  <2>1. DefKnown(g)
    BY <1>3, <1>4 DEF DefKnown
  <2> HIDE DEF caller
  <2>2. QED
    BY <1>1, <1>4, <2>1, PopKnown
<1>5. CASE FinishQuotation
  <2>1. PICK r : frames' = [PopFrame EXCEPT ![Len(frames) - 1].done = Append(@, r)]
    BY <1>5 DEF FinishQuotation
  <2> DEFINE g == [caller EXCEPT !.done = Append(@, r)]
  <2>2. frames' = [PopFrame EXCEPT ![Len(frames) - 1] = g] /\ g.def = caller.def
    BY <1>2, <2>1 DEF Frames
  <2> HIDE DEF g
  <2>3. UNCHANGED phase
    BY <1>5 DEF FinishQuotation
  <2>4. QED
    BY <1>4, <2>2, <2>3
<1>6. CASE FinishCall
  <2>1. \/ UNCHANGED frames /\ phase' = "failed"
        \/ /\ UNCHANGED phase
           /\ \E e, cid : frames' = [PopFrame EXCEPT ![Len(frames) - 1] = EmitCall(caller, e, cid)]
    BY <1>6 DEF FinishCall
  <2>2. CASE UNCHANGED frames /\ phase' = "failed"
    BY <1>1, <2>2, SameKnown
  <2>3. ASSUME UNCHANGED phase, NEW e, NEW cid,
               frames' = [PopFrame EXCEPT ![Len(frames) - 1] = EmitCall(caller, e, cid)]
        PROVE  KnownAgain
    <3>1. EmitCall(caller, e, cid).def = caller.def
      BY <1>2 DEF EmitCall, Emit, Frames
    <3>2. QED
      BY <1>4, <2>3, <3>1
  <2>4. QED
    BY <2>1, <2>2, <2>3
<1>7. QED
  BY <1>5, <1>6

LEMMA CompileStepKnown == ASSUME CrashInv, CompileStep PROVE KnownAgain
<1>1. CASE UnexpectedToken \/ ArrayError \/ WordError \/ ControlError
  BY <1>1, FailKnown DEF UnexpectedToken, ArrayError, WordError, ControlError, CrashInv
<1>2. CASE FinishRun
  BY <1>2, NoFramesKnown DEF FinishRun
<1>3. QED
  BY <1>1, <1>2, EmitStepsKnown, TopStepsKnown, CallMissKnown, EnterQuotationKnown, ReturnKnown
     DEF CompileStep, Emits

LEMMA ReadSourceKnown == ASSUME CrashInv, ReadSource PROVE KnownAgain
<1>1. frames = <<>>
  BY DEF CrashInv, UsedInv, ReadSource, CompileTypeSigDecl, SkipToken, SourceError,
         BeginDefinition, CompileLparen, CompileRparen, ParenError, CaptureToken,
         EndDefinition, TooManyDefinitions, EndOfFile, At, AtEndOfDefinition
<1>2. UNCHANGED frames /\ phase' # "crashed"
  BY DEF ReadSource, CompileTypeSigDecl, SkipToken, SourceError, BeginDefinition,
         CompileLparen, CompileRparen, ParenError, CaptureToken, EndDefinition,
         TooManyDefinitions, EndOfFile, Fail, compileVars, At, AtEndOfDefinition
<1>3. QED
  BY <1>1, <1>2, NoFramesKnown

LEMMA RunnerKnown == ASSUME CrashInv, RunnerExecute \/ RunDone PROVE KnownAgain
<1>1. TypeInv /\ AllKnown
  BY DEF CrashInv, UsedInv
<1>2. CASE RunDone
  <2>1. UNCHANGED <<frames, defs>> /\ phase' # "crashed"
    BY <1>2 DEF RunDone, compileVars, sourceVars
  <2>2. QED
    BY <1>1, <2>1, SameKnown
<1>3. ASSUME NEW name \in Names, RunnerError(name)
      PROVE  KnownAgain
  BY <1>1, <1>3, FailKnown DEF RunnerError
<1>4. ASSUME NEW name \in Names, RunnerLink(name)
      PROVE  KnownAgain
  <2>1. UNCHANGED <<frames, defs>> /\ phase' # "crashed"
    BY <1>4 DEF RunnerLink, sourceVars
  <2>2. QED
    BY <1>1, <2>1, SameKnown
<1>5. ASSUME NEW name \in Names, RunnerCompile(name)
      PROVE  KnownAgain
  <2> DEFINE i == DictIndex(name)
  <2>1. PICK ins, types, toks : frames' = <<NewFrame(dict[i].def, ins, types, toks)>>
    BY <1>5 DEF RunnerCompile
  <2>2. i \in 1..Len(dict)
    <3> DEFINE S == {k \in 1..Len(dict) : dict[k].name = name}
    <3>1. S \subseteq Nat /\ S # {}
      BY <1>5 DEF RunnerCompile, IsUserWord
    <3>2. FirstOf(S) \in S
      BY <3>1, FirstOfTyped
    <3>3. QED
      BY <3>2 DEF DictIndex
  <2> HIDE DEF i
  <2>3. dict[i].def \in 1..Len(defs)
    BY <1>1, <2>2 DEF TypeInv, DictOK
  <2> DEFINE h == NewFrame(dict[i].def, ins, types, toks)
  <2>4. h.def = dict[i].def /\ frames' = <<h>>
    BY <2>1 DEF NewFrame
  <2> HIDE DEF h
  <2>5. Len(frames') = 1 /\ frames'[1] = h
    BY <2>4
  <2>6. UNCHANGED defs /\ phase' = "compile"
    BY <1>5 DEF RunnerCompile, sourceVars
  <2>7. QED
    BY <2>3, <2>4, <2>5, <2>6 DEF AllKnown, DefKnown, Full, KnownAgain
<1>6. QED
  BY <1>2, <1>3, <1>4, <1>5 DEF RunnerExecute

LEMMA CrashNext == CrashInv /\ [Next]_vars => CrashInv'
<1> SUFFICES ASSUME CrashInv, [Next]_vars PROVE CrashInv'
  OBVIOUS
<1>1. UsedInv'
  BY UsedNext DEF CrashInv
<1>2. CASE UNCHANGED vars
  BY <1>1, <1>2 DEF vars, CrashInv, AllKnown, DefKnown, Full
<1>3. CASE Restart
  <2>1. KnownAgain
    BY <1>3, NoFramesKnown DEF Restart
  <2>2. QED
    BY <1>1, <2>1 DEF CrashInv, KnownAgain
<1>4. CASE ReadSource \/ CompileStep \/ RunnerExecute \/ RunDone
  <2>1. KnownAgain
    BY <1>4, ReadSourceKnown, CompileStepKnown, RunnerKnown
  <2>2. QED
    BY <1>1, <2>1 DEF CrashInv, KnownAgain
<1>5. QED
  BY <1>2, <1>3, <1>4 DEF Next

LEMMA CrashInit == Init => CrashInv
BY UsedInit, EmptySeq DEF Init, CrashInv, AllKnown, Full

-----------------------------------------------------------------------------
(* How many frames there are: as many as consume quotations, and as many   *)
(* as compile words; if no word is compiled inside itself, these compile   *)
(* different definitions.                                                  *)

WordFrames == {i \in 1..Len(frames) : frames[i].def # 0}
QuotationFrames == {i \in 1..Len(frames) : frames[i].def = 0}

NoRecursion == \A i, j \in WordFrames : frames[i].def = frames[j].def => i = j

LEMMA FewQuotationFrames ==
  ASSUME CrashInv
  PROVE  /\ IsFiniteSet(QuotationFrames)
         /\ Cardinality(QuotationFrames) \in Nat
         /\ Cardinality(QuotationFrames) <= MaxQuotDepth
<1>1. TypeInv /\ Used <= MaxQuotDepth /\ MaxQuotDepth \in Nat
  BY ConstantsAssumption DEF CrashInv, UsedInv
<1>2. frames \in Seq(Frames) /\ Len(frames) \in Nat /\ FramesOK(frames)
  BY <1>1, LenProperties DEF TypeInv, FramesOK
<1> DEFINE f == [i \in QuotationFrames |-> i - 1]
<1>3. \A i \in QuotationFrames : i \in Int /\ i - 1 \in Consuming
  <2> SUFFICES ASSUME NEW i \in QuotationFrames PROVE i \in Int /\ i - 1 \in Consuming
    OBVIOUS
  <2>1. i \in 1..Len(frames) /\ frames[i].def = 0
    BY DEF QuotationFrames
  <2>2. frames # <<>> /\ i # 1
    BY <1>2, <2>1, EmptySeq DEF FramesOK
  <2>3. i - 1 \in 1..Len(frames) - 1 /\ (i - 1) + 1 = i /\ i - 1 \in 1..Len(frames)
    BY <1>2, <2>1, <2>2
  <2>4. Awaits(frames[i - 1], frames[i].def)
    BY <1>2, <2>3 DEF FramesOK
  <2>5. Consumes(frames[i - 1])
    BY <2>1, <2>4 DEF Awaits, Consumes
  <2>6. QED
    BY <2>1, <2>3, <2>5 DEF Consuming
<1>4. f \in Injection(QuotationFrames, Consuming)
  <2>1. f \in [QuotationFrames -> Consuming]
    BY <1>3
  <2>2. \A i, j \in QuotationFrames : f[i] = f[j] => i = j
    BY <1>3
  <2>3. QED
    BY <2>1, <2>2 DEF Injection, IsInjective
<1>5. IsFiniteSet(Consuming) /\ Cardinality(Consuming) \in Nat
      /\ quotRefs \in Nat /\ Len(quotStack) \in Nat
  BY <1>1, ConsumingFinite
<1>6. Cardinality(Consuming) <= MaxQuotDepth
  BY <1>1, <1>5 DEF Used
<1>7. IsFiniteSet(QuotationFrames) /\ Cardinality(QuotationFrames) <= Cardinality(Consuming)
  BY <1>4, <1>5, FS_Injection
<1>8. Cardinality(QuotationFrames) \in Nat
  BY <1>7, FS_CardinalityType
<1>9. QED
  BY <1>1, <1>5, <1>6, <1>7, <1>8

LEMMA FewWordFrames ==
  ASSUME CrashInv, StacksBounded, NoRecursion
  PROVE  /\ IsFiniteSet(WordFrames)
         /\ Cardinality(WordFrames) \in Nat
         /\ Cardinality(WordFrames) <= MaxDefs
<1>1. TypeInv /\ AllKnown /\ MaxDefs \in Nat /\ Len(defs) <= MaxDefs
  BY ConstantsAssumption DEF CrashInv, UsedInv, StacksBounded
<1>2. frames \in Seq(Frames) /\ Len(frames) \in Nat /\ Len(defs) \in Nat
  BY <1>1, LenProperties DEF TypeInv, TypeOK
<1> DEFINE f == [i \in WordFrames |-> frames[i].def]
<1>3. \A i \in WordFrames : frames[i].def \in 1..MaxDefs
  <2> SUFFICES ASSUME NEW i \in WordFrames PROVE frames[i].def \in 1..MaxDefs
    OBVIOUS
  <2>1. i \in 1..Len(frames) /\ frames[i].def # 0
    BY DEF WordFrames
  <2>2. frames[i].def \in Nat
    <3>1. frames[i] \in Frames
      BY <1>2, <2>1, ElementOfSeq
    <3>2. QED
      BY <3>1 DEF Frames
  <2>3. frames[i].def <= Len(defs)
    BY <1>1, <2>1 DEF AllKnown, DefKnown
  <2>4. QED
    BY <1>1, <1>2, <2>1, <2>2, <2>3
<1>4. f \in Injection(WordFrames, 1..MaxDefs)
  <2>1. f \in [WordFrames -> 1..MaxDefs]
    BY <1>3
  <2>2. \A i, j \in WordFrames : f[i] = f[j] => i = j
    BY DEF NoRecursion
  <2>3. QED
    BY <2>1, <2>2 DEF Injection, IsInjective
<1>5. IsFiniteSet(1..MaxDefs) /\ Cardinality(1..MaxDefs) = MaxDefs
  <2>1. 1 \in Int /\ MaxDefs \in Int
    BY <1>1
  <2>2. Cardinality(1..MaxDefs) = IF 1 > MaxDefs THEN 0 ELSE MaxDefs - 1 + 1
    BY <2>1, FS_Interval
  <2>3. QED
    BY <1>1, <2>1, <2>2, FS_Interval
<1>6. IsFiniteSet(WordFrames) /\ Cardinality(WordFrames) <= Cardinality(1..MaxDefs)
  BY <1>4, <1>5, FS_Injection
<1>7. QED
  BY <1>5, <1>6, FS_CardinalityType

LEMMA FewFrames ==
  ASSUME CrashInv, StacksBounded, NoRecursion
  PROVE  Len(frames) <= MaxDefs + MaxQuotDepth
<1>1. Len(frames) \in Nat /\ MaxDefs \in Nat /\ MaxQuotDepth \in Nat
  BY LenProperties, ConstantsAssumption DEF CrashInv, UsedInv, TypeInv, TypeOK
<1>2. WordFrames \cup QuotationFrames = 1..Len(frames)
  BY DEF WordFrames, QuotationFrames
<1>3. WordFrames \cap QuotationFrames = {}
  BY DEF WordFrames, QuotationFrames
<1>4. /\ IsFiniteSet(WordFrames) /\ Cardinality(WordFrames) \in Nat
      /\ Cardinality(WordFrames) <= MaxDefs
  BY FewWordFrames
<1>5. /\ IsFiniteSet(QuotationFrames) /\ Cardinality(QuotationFrames) \in Nat
      /\ Cardinality(QuotationFrames) <= MaxQuotDepth
  BY FewQuotationFrames
<1>6. Cardinality(WordFrames \cup QuotationFrames)
        = Cardinality(WordFrames) + Cardinality(QuotationFrames)
      - Cardinality(WordFrames \cap QuotationFrames)
  BY <1>4, <1>5, FS_Union
<1>7. Cardinality(WordFrames \cap QuotationFrames) = 0
  BY <1>3, FS_EmptySet
<1>8. Cardinality(1..Len(frames)) = Len(frames)
  <2>1. 1 \in Int /\ Len(frames) \in Int
    BY <1>1
  <2>2. Cardinality(1..Len(frames)) = IF 1 > Len(frames) THEN 0 ELSE Len(frames) - 1 + 1
    BY <2>1, FS_Interval
  <2>3. QED
    BY <1>1, <2>2
<1>9. Len(frames) = Cardinality(WordFrames) + Cardinality(QuotationFrames)
  <2>1. Cardinality(WordFrames \cup QuotationFrames) = Len(frames)
    BY ONLY <1>2, <1>8
  <2>2. Cardinality(WordFrames) \in Nat /\ Cardinality(QuotationFrames) \in Nat
    BY <1>4, <1>5
  <2>3. QED
    BY ONLY <2>1, <2>2, <1>6, <1>7
<1>10. QED
  BY ONLY <1>1, <1>4, <1>5, <1>9

(* The C stack holds a call for every definition there can be and one for  *)
(* every quotation: 272 of them (MAX_WORD_DEFS, MAX_QUOT_DEPTH), each with *)
(* a few kilobytes of saved types.                                         *)
StackIsDeep == MaxFrames > MaxDefs + MaxQuotDepth

(* If it does, it is exhausted only by a word that is compiled inside its  *)
(* own compilation: no program without recursion, however its words call   *)
(* each other and its quotations nest, makes the compiler crash.           *)
THEOREM CrashNeedsRecursion == ASSUME StackIsDeep PROVE Spec => []CrashOnlyByRecursion
<1>1. Init => CrashInv
  BY CrashInit
<1>2. CrashInv /\ [Next]_vars => CrashInv'
  BY CrashNext
<1>3. CrashInv /\ StacksBounded => CrashOnlyByRecursion
  <2> SUFFICES ASSUME CrashInv, StacksBounded, phase = "crashed"
               PROVE  \E i, j \in 1..Len(frames) :
                        i < j /\ frames[i].def # 0 /\ frames[i].def = frames[j].def
    BY DEF CrashOnlyByRecursion
  <2>1. Len(frames) >= MaxFrames
    BY DEF CrashInv, Full
  <2>2. /\ Len(frames) \in Nat /\ MaxDefs \in Nat /\ MaxQuotDepth \in Nat
        /\ MaxFrames \in Nat
    BY LenProperties, ConstantsAssumption DEF CrashInv, UsedInv, TypeInv, TypeOK
  <2>3. ~(Len(frames) <= MaxDefs + MaxQuotDepth)
    BY <2>1, <2>2 DEF StackIsDeep
  <2>4. ~NoRecursion
    BY <2>3, FewFrames
  <2>5. PICK i \in WordFrames, j \in WordFrames : frames[i].def = frames[j].def /\ i # j
    BY <2>4 DEF NoRecursion
  <2>6. /\ i \in 1..Len(frames) /\ frames[i].def # 0
        /\ j \in 1..Len(frames) /\ frames[j].def # 0
    BY DEF WordFrames
  <2>7. i < j \/ j < i
    BY <2>2, <2>5, <2>6
  <2>8. QED
    BY <2>5, <2>6, <2>7
<1>4. Spec => []StacksBounded
  BY NoOverflow
<1>5. QED
  BY <1>1, <1>2, <1>3, <1>4, PTL DEF Spec
==============================================================================
