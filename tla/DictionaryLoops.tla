--------------------------- MODULE DictionaryLoops ---------------------------
(***************************************************************************)
(* The loops of match_score, apply_signature and dict_lookup_typed, one    *)
(* iteration at a time, with which the operators of module Dictionary,     *)
(* which say declaratively what they compute, are compared.  The variables *)
(* are the input: a state is a signature, another one, and a type stack,   *)
(* and steps make them longer.                                             *)
(***************************************************************************)
EXTENDS Dictionary

CONSTANTS SigTypes,    \* types that occur in signatures
          StackTypes,  \* types that occur on the stack
          WordNames,   \* names the two signatures are registered under
          MaxIns,      \* bound: inputs of a signature
          MaxDepth     \* bound: depth of the type stack

ASSUME InputsAssumption ==
  SigTypes \subseteq Types /\ StackTypes \subseteq Types /\ WordNames \subseteq STRING

VARIABLES newer,  \* the signature being applied
          older,  \* that of another entry of the same name, behind newer's
          below   \* the type stack

inputs == <<newer, older, below>>

StartInputs ==
  newer = Sig(<<>>, <<"a", "b">>) /\ older = Sig(<<>>, <<>>) /\ below = <<>>

GrowNewer == /\ Len(newer.ins) < MaxIns
             /\ \E t \in SigTypes : newer' = Sig(Append(newer.ins, t), newer.outs)
             /\ UNCHANGED <<older, below>>
GrowOlder == /\ Len(older.ins) < MaxIns
             /\ \E t \in SigTypes : older' = Sig(Append(older.ins, t), older.outs)
             /\ UNCHANGED <<newer, below>>
GrowStack == /\ Len(below) < MaxDepth
             /\ \E t \in StackTypes : below' = Append(below, t)
             /\ UNCHANGED <<newer, older>>

GrowInputs == GrowNewer \/ GrowOlder \/ GrowStack
Inputs == StartInputs /\ [][GrowInputs]_inputs

-----------------------------------------------------------------------------
(* The loops.  bindings[] starts out UNKNOWN everywhere; a state of a loop *)
(* is a record of its local variables, ok = FALSE after `return'.          *)
Unbound == [v \in TypeVars |-> UNKNOWN]
Matching(ok, score, b) == [ok |-> ok, score |-> score, b |-> b]
Applying(ok, b)        == [ok |-> ok, b |-> b]

(* match_score: input type s meets stack type t. *)
MatchInput(s, t, l) ==
  CASE ~l.ok -> l
    [] l.ok /\ s \in TypeVars /\ l.b[s] \in {UNKNOWN, t} ->
         Matching(TRUE, l.score + 80, [l.b EXCEPT ![s] = t])
    [] l.ok /\ s = "any" -> Matching(TRUE, l.score + 10, l.b)
    [] l.ok /\ s \notin TypeVars \cup {"any"} /\ t = s -> Matching(TRUE, l.score + 100, l.b)
    [] l.ok /\ s \notin TypeVars \cup {"any", t} /\ t = UNKNOWN ->
         Matching(TRUE, l.score + 50, l.b)
    [] OTHER -> Matching(FALSE, l.score, l.b)

MatchRun(ins, ts) ==
  LET run[i \in 0..Len(ins)] ==
        IF i = 0 THEN Matching(TRUE, 0, Unbound)
        ELSE MatchInput(ins[i], ts[Len(ts) - Len(ins) + i], run[i - 1])
  IN  run

MatchLoop(sig, ts) ==
  LET n == Len(sig.ins)
  IN  IF Len(ts) < n \/ ~MatchRun(sig.ins, ts)[n].ok THEN -1 ELSE MatchRun(sig.ins, ts)[n].score

(* apply_signature: input type s is popped as t. *)
ApplyInput(s, t, l) ==
  CASE ~l.ok -> l
    [] l.ok /\ s \in TypeVars /\ l.b[s] \in {UNKNOWN, t} ->
         Applying(TRUE, [l.b EXCEPT ![s] = t])
    [] /\ l.ok /\ s \notin TypeVars
       /\ \/ s = "any" \/ t = "any" \/ s = t
          \/ <<s, t>> \in {<<"array", "array!">>, <<"str", "str!">>} -> l
    [] OTHER -> Applying(FALSE, l.b)

(* After k inputs, from the last down. *)
ApplyRun(ins, ts) ==
  LET run[k \in 0..Len(ins)] ==
        IF k = 0 THEN Applying(TRUE, Unbound)
        ELSE ApplyInput(ins[Len(ins) + 1 - k], ts[Len(ts) + 1 - k], run[k - 1])
  IN  run

ApplyLoop(sig, ts) ==
  LET n   == Len(sig.ins)
      end == ApplyRun(sig.ins, ts)[n]
      Resolved(s) == IF s \in TypeVars /\ end.b[s] # UNKNOWN THEN end.b[s] ELSE s
  IN  IF Len(ts) < n \/ ~end.ok THEN [ok |-> FALSE, outs |-> <<>>]
      ELSE [ok |-> TRUE, outs |-> [i \in 1..Len(sig.outs) |-> Resolved(sig.outs[i])]]

(* dict_lookup_typed: the bucket, the newest first, and what is registered *)
(* at start-up behind it.                                                  *)
Bucket(dict, name, i) ==
  {e \in CASE i <= Len(dict)     -> {dict[i]}
           [] i = Len(dict) + 1  -> ImmediateEntries
           [] OTHER              -> RegisterPrimitives : e.name = name}

Best(entry, score) == [entry |-> entry, score |-> score]

TryEntry(e, ts, best) ==
  LET score == MatchScore(e, ts)
  IN  IF \/ score > best.score
         \/ score = best.score /\ best.entry # NoEntry /\ Priority(e) > Priority(best.entry)
      THEN Best(e, score) ELSE best

LookupRun(dict, name, ts) ==
  LET run[i \in 0..Len(dict) + 2] ==
        IF i = 0 THEN Best(NoEntry, -1)
        ELSE IF Bucket(dict, name, i) = {} THEN run[i - 1]
        ELSE TryEntry(CHOOSE e \in Bucket(dict, name, i) : TRUE, ts, run[i - 1])
  IN  run

LookupLoop(dict, name, ts) == LookupRun(dict, name, ts)[Len(dict) + 2].entry

-----------------------------------------------------------------------------
(* Properties. *)

(* match_score gives the score, or the refusal, of the declarative form.   *)
ScoreMatchesLoop == MatchScore(newer, below) = MatchLoop(newer, below)

(* apply_signature accepts and returns what the declarative form does.     *)
ApplyMatchesLoop ==
  LET loop == ApplyLoop(newer, below)
  IN  /\ SignatureApplies(newer, below) <=> loop.ok
      /\ loop.ok => Outputs(newer, below) = loop.outs

(* Overload resolution keeps the entry the loop keeps, also among those    *)
(* that are registered at start-up.                                        *)
LookupMatchesLoop ==
  \A name \in WordNames :
    LET dict == <<Entry(name, newer, "word", NoName, NoName, 2),
                  Entry(name, older, "word", NoName, NoName, 1)>>
    IN  DictLookupTyped(dict, name, below) = LookupLoop(dict, name, below)

(* An overload that is selected for known types can be applied to them:    *)
(* the two walks, in opposite directions, agree about them.                *)
Known == \A i \in 1..Len(below) : below[i] # UNKNOWN
SelectedApplies == Known /\ MatchScore(newer, below) >= 0 => SignatureApplies(newer, below)
=============================================================================
