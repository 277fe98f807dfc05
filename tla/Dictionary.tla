----------------------------- MODULE Dictionary -----------------------------
(***************************************************************************)
(* The dictionary of the March compiler (src/src/dictionary.c) and the     *)
(* part of compiler.c that applies a signature to the compile-time type    *)
(* stack.  Everything here is a pure operator: the state (the list of user *)
(* entries) belongs to module Compiler.                                    *)
(*                                                                         *)
(* A type is a string: the spelling of the source, "?" for TYPE_UNKNOWN.   *)
(* A type stack is a sequence of types, its top last.  `dict' is the       *)
(* sequence of the entries added by definitions, newest FIRST, as in a     *)
(* bucket chain; the entries registered at start-up follow it.             *)
(***************************************************************************)
EXTENDS Code, FiniteSets

TypeVars == {"a", "b", "c"}
ConcreteTypes == {"i64", "u64", "f64", "ptr", "bool", "str", "str!",
                  "array", "array!"}
UNKNOWN == "?"
Types == TypeVars \cup ConcreteTypes \cup {"any", UNKNOWN}

Sig(ins, outs) == [ins |-> ins, outs |-> outs]
Sigs == [ins : Seq(Types), outs : Seq(Types)]

(* The signature a definition gets when no "$ ... ;" precedes it.  A       *)
(* declared signature can never be equal to it: parse_type_sig refuses a   *)
(* name it does not know, so it doubles as "no pending signature".         *)
PlaceholderSig == Sig(<<>>, <<UNKNOWN>>)

(***************************************************************************)
(* Entries.  addr is the run-time address of a primitive (or NULL),     *)
(* prim its number (NoName is 0), def the index of the word definition (0 is   *)
(* NULL), cid the row of the compiled word (0 is NULL).                    *)
(***************************************************************************)
Entry(name, sig, kind, addr, prim, def) ==
  [name |-> name, ins |-> sig.ins, outs |-> sig.outs, kind |-> kind,
   addr |-> addr, prim |-> prim, def |-> def, cid |-> 0]

NoEntry == Entry(NoName, Sig(<<>>, <<>>), "none", NoName, NoName, 0)

Entries == [name : STRING, ins : Seq(Types), outs : Seq(Types),
            kind : {"none", "prim", "imm", "word"}, addr : STRING,
            prim : STRING, def : Nat, cid : Nat]

I64x2 == <<"i64", "i64">>

(* The stack words and their signatures. *)
StackWords == {"drop", "dup", "swap", "over", "rot"}

StackSig ==
  [n \in StackWords |->
     CASE n = "drop" -> Sig(<<"a">>, <<>>)
       [] n = "dup"  -> Sig(<<"a">>, <<"a", "a">>)
       [] n = "swap" -> Sig(<<"a", "b">>, <<"b", "a">>)
       [] n = "over" -> Sig(<<"a", "b">>, <<"a", "b", "a">>)
       [] n = "rot"  -> Sig(<<"a", "b", "c">>, <<"b", "c", "a">>)]

Identity == "_"

(* The primitives, grouped by signature. *)
ArithmeticGroups ==
  { [names |-> {"+", "-", "*", "/", "mod", "and", "or", "xor", "<<", ">>", ">>>",
                "march.map.get", "march.map.remove"},
     sig |-> Sig(I64x2, <<"i64">>)],
    [names |-> {"=", "<>", "<", ">", "<=", ">="},
     sig |-> Sig(I64x2, <<"bool">>)],
    [names |-> {"not", "march.map.size"}, sig |-> Sig(<<"i64">>, <<"i64">>)],
    [names |-> {"0=", "0>", "0<"}, sig |-> Sig(<<"i64">>, <<"bool">>)],
    [names |-> {"land", "lor"}, sig |-> Sig(<<"bool", "bool">>, <<"bool">>)],
    [names |-> {"lnot"}, sig |-> Sig(<<"bool">>, <<"bool">>)] }

ReturnStackGroups ==
  { [names |-> {">r", "execute"}, sig |-> Sig(<<"a">>, <<>>)],
    [names |-> {Identity}, sig |-> Sig(<<"a">>, <<"a">>)],
    [names |-> {"r>", "r@"}, sig |-> Sig(<<>>, <<"a">>)],
    [names |-> {"rdrop", "branch"}, sig |-> Sig(<<>>, <<>>)],
    [names |-> {"2>r"}, sig |-> Sig(<<"a", "b">>, <<>>)],
    [names |-> {"2r>"}, sig |-> Sig(<<>>, <<"a", "b">>)],
    [names |-> {"0branch", "free", "march.map.free"},
     sig |-> Sig(<<"i64">>, <<>>)],
    [names |-> {"i0", "march.map.new"}, sig |-> Sig(<<>>, <<"i64">>)] }

MemoryGroups ==
  { [names |-> {"@", "c@"}, sig |-> Sig(<<"ptr">>, <<"i64">>)],
    [names |-> {"!", "c!"}, sig |-> Sig(<<"i64", "ptr">>, <<>>)],
    [names |-> {"alloc"}, sig |-> Sig(<<"i64">>, <<"ptr">>)],
    [names |-> {"memcpy"}, sig |-> Sig(<<"ptr", "ptr", "i64">>, <<"ptr">>)],
    [names |-> {"march.array.length"}, sig |-> Sig(<<"array">>, <<"i64">>)],
    [names |-> {"str-length"}, sig |-> Sig(<<"str">>, <<"i64">>)],
    [names |-> {"mut"}, sig |-> Sig(<<"array">>, <<"array!">>)],
    [names |-> {"march.array.at"},
     sig |-> Sig(<<"array", "i64">>, <<"i64">>)],
    [names |-> {"march.array.mut.set"},
     sig |-> Sig(<<"array!", "i64", "i64">>, <<"array!">>)],
    [names |-> {"march.array.mut.fill"},
     sig |-> Sig(<<"array!", "i64">>, <<"array!">>)],
    [names |-> {"march.array.mut.reverse"},
     sig |-> Sig(<<"array!">>, <<"array!">>)],
    [names |-> {"march.array.concat"},
     sig |-> Sig(<<"array", "array">>, <<"array">>)],
    [names |-> {"march.map.set"},
     sig |-> Sig(<<"i64", "i64", "i64">>, <<"i64">>)] }

PrimGroups ==
  {[names |-> {n}, sig |-> StackSig[n]] : n \in StackWords}
    \cup ArithmeticGroups \cup ReturnStackGroups \cup MemoryGroups

(* register_primitives: one entry per primitive. *)
RegisterPrimitives ==
  UNION { {Entry(n, g.sig, "prim", n, n, 0) : n \in g.names} : g \in PrimGroups }

(* compiler_register_primitives: the immediate words, registered after the *)
(* primitives and so in front of the primitives of the same name.  The     *)
(* stack words carry the primitive's number but a NULL address.            *)
ImmediateEntries ==
  { Entry("if",    Sig(<<>>, <<>>),      "imm", NoName, NoName, 0),
    Entry("true",  Sig(<<>>, <<"i64">>), "imm", NoName, NoName, 0),
    Entry("false", Sig(<<>>, <<"i64">>), "imm", NoName, NoName, 0),
    Entry("times", Sig(<<"i64">>, <<>>), "imm", NoName, NoName, 0) }
  \cup {Entry(n, StackSig[n], "imm", NoName, n, 0) : n \in StackWords}

(* The spelling of everything registered is a string, and so is NoName.  (TLC  *)
(* evaluates this; the provers have no theory of string literals.)         *)
ASSUME SpellingAssumption ==
  /\ NoName \in STRING
  /\ \A g \in PrimGroups : g.names \subseteq STRING
  /\ \A e \in ImmediateEntries : e.name \in STRING

(***************************************************************************)
(* A candidate is an entry with its place in the bucket chain (1 is the    *)
(* head).  Entries of other names that share the bucket are skipped by     *)
(* strcmp and are left out.                                                *)
(***************************************************************************)
BuiltinChains ==
  {<<e, 1>> : e \in ImmediateEntries} \cup {<<e, 2>> : e \in RegisterPrimitives}

Candidates(dict, name) ==
  {<<dict[i], i>> : i \in {j \in 1..Len(dict) : dict[j].name = name}}
    \cup {<<b[1], Len(dict) + b[2]>> : b \in {x \in BuiltinChains : x[1].name = name}}

(* dict_lookup: the head of the chain, whatever its signature. *)
EntryOf(best) == IF best = {} THEN NoEntry ELSE (CHOOSE c \in best : TRUE)[1]

DictLookup(dict, name) ==
  LET C == Candidates(dict, name)
  IN  EntryOf({c \in C : \A d \in C : c[2] <= d[2]})

(* The n values on top of the stack ts. *)
TopOf(ts, n) == SubSeq(ts, Len(ts) - n + 1, Len(ts))
Below(ts, n) == SubSeq(ts, 1, Len(ts) - n)

(* match_score walks the inputs from the bottom up.  A variable stays      *)
(* unbound while the values it meets are UNKNOWN, so a later value         *)
(* conflicts only with an earlier one that is known and different.         *)
(* Mutant of MatchScore: an UNKNOWN value binds a variable like any other. *)
MatchScoreStrict(sig, ts) ==
  LET n    == Len(sig.ins)
      args == TopOf(ts, n)
      var  == {i \in 1..n : sig.ins[i] \in TypeVars}
      any  == {i \in 1..n : sig.ins[i] = "any"}
      same == {i \in (1..n) \ (var \cup any) : args[i] = sig.ins[i]}
      unk  == {i \in (1..n) \ (var \cup any \cup same) : args[i] = UNKNOWN}
  IN  IF \/ Len(ts) < n
         \/ var \cup any \cup same \cup unk # 1..n
         \/ \E i, j \in var : sig.ins[i] = sig.ins[j] /\ args[i] # args[j]
      THEN -1
      ELSE 80 * Cardinality(var) + 10 * Cardinality(any)
             + 100 * Cardinality(same) + 50 * Cardinality(unk)

MatchScore(sig, ts) ==
  LET n    == Len(sig.ins)
      args == TopOf(ts, n)
      var  == {i \in 1..n : sig.ins[i] \in TypeVars}
      any  == {i \in 1..n : sig.ins[i] = "any"}
      same == {i \in (1..n) \ (var \cup any) : args[i] = sig.ins[i]}
      unk  == {i \in (1..n) \ (var \cup any \cup same) : args[i] = UNKNOWN}
  IN  IF \/ Len(ts) < n
         \/ var \cup any \cup same \cup unk # 1..n
         \/ \E i, j \in var : /\ i < j
                              /\ sig.ins[i] = sig.ins[j]
                              /\ args[i] # UNKNOWN
                              /\ args[i] # args[j]
      THEN -1
      ELSE 80 * Cardinality(var) + 10 * Cardinality(any)
             + 100 * Cardinality(same) + 50 * Cardinality(unk)

(* The tie-break dict_add computes from the input types. *)
Priority(sig) ==
  100 * Cardinality({i \in 1..Len(sig.ins) : sig.ins[i] \in {"i64", "u64"}})
    + 10 * Cardinality({i \in 1..Len(sig.ins) : sig.ins[i] = "any"})

(* Mutant of Beats: ">=" where dict_lookup_typed has ">". *)
BeatsOlder(c, d, ts) ==
  LET sc == MatchScore(c[1], ts)
      sd == MatchScore(d[1], ts)
  IN  \/ sc > sd
      \/ sc = sd /\ Priority(c[1]) > Priority(d[1])
      \/ sc = sd /\ Priority(c[1]) = Priority(d[1]) /\ c[2] >= d[2]

(* dict_lookup_typed keeps the best score seen so far, replaces it by an   *)
(* equal score only for a greater priority, and so prefers newer entries.  *)
Beats(c, d, ts) ==
  LET sc == MatchScore(c[1], ts)
      sd == MatchScore(d[1], ts)
  IN  \/ sc > sd
      \/ sc = sd /\ Priority(c[1]) > Priority(d[1])
      \/ sc = sd /\ Priority(c[1]) = Priority(d[1]) /\ c[2] <= d[2]

DictLookupTyped(dict, name, ts) ==
  LET C == {c \in Candidates(dict, name) : MatchScore(c[1], ts) >= 0}
  IN  EntryOf({c \in C : \A d \in C : Beats(c, d, ts)})

(***************************************************************************)
(* apply_signature (compiler.c): walks the inputs from the top down, so a  *)
(* variable is bound by the topmost known value.  Unlike match_score it    *)
(* has no case for UNKNOWN, and accepts a mutable value for an immutable   *)
(* one.  An output variable left unbound is pushed as it is.               *)
(***************************************************************************)
(* Mutant of Accepts: the case of "any" is only there for the value. *)
AcceptsSame(expected, actual) ==
  \/ expected \in TypeVars
  \/ actual = "any" \/ expected = actual
  \/ expected = "array" /\ actual = "array!"
  \/ expected = "str" /\ actual = "str!"

Accepts(expected, actual) ==
  \/ expected \in TypeVars
  \/ expected = "any" \/ actual = "any" \/ expected = actual
  \/ expected = "array" /\ actual = "array!"
  \/ expected = "str" /\ actual = "str!"

SignatureApplies(sig, ts) ==
  LET n    == Len(sig.ins)
      args == TopOf(ts, n)
  IN  /\ Len(ts) >= n
      /\ \A i \in 1..n : Accepts(sig.ins[i], args[i])
      /\ \A i, j \in 1..n :
           (/\ j < i
            /\ sig.ins[i] \in TypeVars
            /\ sig.ins[i] = sig.ins[j]
            /\ args[i] # UNKNOWN)
           => args[i] = args[j]

(* Mutant of Binding: the topmost value binds, known or not. *)
BindingTop(sig, ts, v) ==
  LET n    == Len(sig.ins)
      args == TopOf(ts, n)
      B    == {i \in 1..n : sig.ins[i] = v}
  IN  IF v \in TypeVars /\ B # {}
      THEN args[CHOOSE i \in B : \A j \in B : j <= i]
      ELSE v

Binding(sig, ts, v) ==
  LET n    == Len(sig.ins)
      args == TopOf(ts, n)
      B    == {i \in 1..n : sig.ins[i] = v /\ args[i] # UNKNOWN}
  IN  IF v \in TypeVars /\ B # {}
      THEN args[CHOOSE i \in B : \A j \in B : j <= i]
      ELSE v

Outputs(sig, ts) == [i \in 1..Len(sig.outs) |-> Binding(sig, ts, sig.outs[i])]
=============================================================================
