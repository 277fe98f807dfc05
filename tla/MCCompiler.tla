----------------------------- MODULE MCCompiler -----------------------------
(***************************************************************************)
(* Source files for the runs of module Compiler.  Each set holds every     *)
(* program of one shape over a small vocabulary; TLC starts from each.     *)
(***************************************************************************)
EXTENDS Compiler

SeqsUpTo(S, n) == UNION {[1..k -> S] : k \in 0..n}

Define(name, body) == <<Mark(":"), Word(name)>> \o body \o <<Mark(";")>>
Typed(sig, name, body) == <<Decl(sig)>> \o Define(name, body)
Quote(body) == <<Mark("(")>> \o body \o <<Mark(")")>>
Array(items) == <<Mark("[")>> \o items \o <<Mark("]")>>

NameF == {"f"}
NamesFG == {"f", "g"}
NamesFGH == {"f", "g", "h"}

-----------------------------------------------------------------------------
(* Control structures: every short body, balanced or not, and longer ones  *)
(* with bodies of their own, some of them inside another one.              *)

Raw == SeqsUpTo({Num(1), Mark("("), Mark(")"), Word("if"), Word("times"), Word("execute")}, 5)

Inner == SeqsUpTo({Num(1), Word("drop"), Word("true"), Word("i0")}, 2)

Structured ==
  { <<Num(2)>> \o Quote(b) \o Quote(c) \o <<w>> \o tail :
      b \in Inner, c \in Inner, w \in {Word("if"), Word("times")},
      tail \in {<<>>, <<Word("drop")>>} }
  \cup
  { <<Num(2), Num(3)>> \o Quote(b) \o <<Word("times")>> \o Quote(c) \o <<w>> :
      b \in Inner, c \in Inner, w \in {Word("times"), Word("execute")} }

(* Array literals, balanced or not, by themselves, and inside the branches *)
(* of an if, where their code lies under the jumps.                        *)
Brackets == SeqsUpTo({Num(1), Word("true"), Word("drop"), Mark("["), Mark("]")}, 4)

ArrayBodies ==
  Brackets
  \cup {<<Num(1)>> \o Quote(b) \o Quote(c) \o <<Word("if")>> :
          b \in {Array(<<>>), Array(<<Num(1), Num(2)>>), <<Mark("["), Num(1)>>},
          c \in {<<Num(3)>>, Array(Array(<<Num(3)>>)), <<Mark("]")>>}}

ControlSources == {Define("f", b) : b \in Raw \cup Structured \cup ArrayBodies}

-----------------------------------------------------------------------------
(* Calls: two definitions of f, with or without a signature, and a word    *)
(* that calls f at several types.                                          *)

FSigs == {Sig(<<"i64">>, <<"i64">>), Sig(<<"bool">>, <<"i64">>), Sig(<<"a">>, <<"a">>),
          Sig(<<"a", "a">>, <<"i64">>), Sig(<<"any">>, <<>>)}
FBodies == {<<Num(1)>>, <<Word("swap")>>}
FDefs == {Typed(sig, "f", b) : sig \in FSigs, b \in FBodies}
           \cup {Define("f", b) : b \in FBodies}

GBodies == {<<Num(1)>> \o b : b \in [1..3 -> {Num(2), Word("0="), Word("f")}]}

CallSources == {d \o e \o Define("g", b) : d \in FDefs, e \in FDefs, b \in GBodies}

(* A word of four primitives and the literal that is its twin, compiled in *)
(* either order, in calls, quotations and branches.                        *)
Twin == [i \in 1..4 |-> "march.map.new"]
TwinLiteral == [w \in {Twin} |-> 7]
TwinBody == [i \in 1..4 |-> Word(Twin[i])]

TwinSources ==
  {Define("f", b) \o Define("g", c) :
     b \in {TwinBody, <<Num(7)>>, Quote(TwinBody) \o <<Word("execute")>>},
     c \in {<<Num(7), Word("f")>>, <<Word("f"), Num(7)>>, TwinBody,
            <<Num(1)>> \o Quote(<<Num(7)>>) \o Quote(TwinBody) \o <<Word("if")>>}}

(* All of them, for the run that looks at the code that comes out. *)
CodeSources == ControlSources \cup CallSources \cup TwinSources

-----------------------------------------------------------------------------
(* Recursion: two words that may call themselves, each other, or both, in  *)
(* front of, inside and behind quotations.                                 *)

RecBodies == SeqsUpTo({Word("f"), Word("g"), Mark("("), Mark(")")}, 2)
               \cup {<<Num(1)>> \o Quote(<<Word(v)>>) \o Quote(b) \o <<Word("if")>> :
                       v \in {"f", "g"}, b \in SeqsUpTo({Num(1), Word("f")}, 1)}

RecursiveSources ==
  {Define("f", b) \o Define("g", c) : b \in RecBodies, c \in RecBodies}

-----------------------------------------------------------------------------
(* Everything that stores rows, with few programs: for the run in which    *)
(* processes die.                                                          *)

StoreBodies ==
  { <<>>, <<Num(1), Num(1)>>, <<Str("s")>>, <<Num(1), Word("f")>>,
    Quote(<<Num(1)>>) \o <<Word("execute")>>,
    Quote(<<Num(1)>>) \o Quote(<<Word("f")>>) \o <<Word("execute")>>,
    <<Num(1)>> \o Quote(<<Num(2)>>) \o Quote(<<Num(1)>>) \o <<Word("if")>>,
    Array(<<Num(8)>>) }

StoreSources ==
  {Define("f", b) \o Define("g", c) : b \in StoreBodies, c \in StoreBodies} \cup TwinSources

-----------------------------------------------------------------------------
(* Sources at and over every limit, and the ones with errors in them.      *)

LimitBodies ==
  {<<Num(1)>> \o b : b \in [1..2 -> {Word("dup"), Word("over"), Word("f")}]}
  \cup {Quote(<<>>) \o Quote(<<>>) \o <<w>> : w \in {Word("_"), Word("if"), Word("times")}}
  \cup {Quote(<<>>) \o Quote(<<>>) \o Quote(<<>>), <<Mark(")")>>, <<Word("nowhere")>>,
        <<Mark(":")>>, <<Num(1), Word("land")>>, <<Word("if")>>, <<Word("rot")>>,
        <<Num(1), Word("times")>>}
  \cup {<<Num(1), Num(1)>> \o b : b \in [1..3 -> {Word("drop"), Mark("["), Mark("]")}]}

LimitSigs == {Sig(<<>>, <<"i64", "i64">>), Sig(<<"i64", "ptr">>, <<>>), Sig(<<>>, <<"a">>)}

LimitSources ==
  {Typed(sig, "f", b) \o Define("g", c) : sig \in LimitSigs, b \in LimitBodies,
     c \in {<<Num(1), Word("f"), Word("f")>>, <<Str("s"), Word("f"), Word("_")>>}}
  \cup {Define("f", <<>>) \o Define("g", <<>>) \o Define("h", <<>>),
        <<BadDecl>>, <<Mark(":"), Word("f"), Num(1), Decl(Sig(<<>>, <<>>)), Mark(";")>>,
        Define("f", <<Mark("("), BadDecl, Mark(")")>>),
        <<Num(1)>>, <<Word("f")>>, <<Mark(":")>>, <<Mark(":"), Num(1)>>,
        <<Str("s"), Mark("("), Mark(";")>>, <<Mark(":"), Word("f"), Num(1)>>}

(* Whatever may go wrong, in one run. *)
RecursionSources == RecursiveSources \cup LimitSources

-----------------------------------------------------------------------------
(* Sources for the statements of the repository that the code contradicts. *)

StringSources == {Define("f", <<Str("s")>>)}

(* A word that leaves a quotation behind, and one that takes what it finds. *)
StraySources ==
  {Define("f", Quote(<<Num(1)>>)) \o Define("g", b) :
     b \in {<<Num(2)>>, <<Num(1), Word("times")>>, <<Word("execute")>>}}

(* No source compiles a branch of its own, as BranchesLand asks.           *)
ASSUME PlainSources == NoRawBranches

(* Those of run code have no strings either, as RefsFitRows asks.          *)
ASSUME StringFreeSources == CodeSources \subseteq Seq(StringFreeTokens)
=============================================================================
