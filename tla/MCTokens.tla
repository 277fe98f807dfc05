------------------------------ MODULE MCTokens ------------------------------
(***************************************************************************)
(* Source files for module Tokens: every short file over the characters    *)
(* that matter to it, and files that spell a list of tokens.               *)
(***************************************************************************)
EXTENDS Tokens, SequencesExt

VARIABLE wanted  \* history: the tokens the file spells, if it has been made of some

Hexadecimal ==
  [c \in {"0", "1", "2", "7", "8", "9", "a", "f"} |->
     CASE c = "0" -> 0 [] c = "1" -> 1 [] c = "2" -> 2 [] c = "7" -> 7
       [] c = "8" -> 8 [] c = "9" -> 9 [] c = "a" -> 10 [] c = "f" -> 15]

SeqsUpTo(S, n) == UNION {[1..k -> S] : k \in 0..n}

Anything == SeqsUpTo({SP, NL, QUOTE, BACKSLASH, "-", "1"}, 5)
              \cup {<<QUOTE>> \o s \o <<QUOTE>> \o t :
                      s \in [1..4 -> {QUOTE, BACKSLASH, SP}], t \in {<<>>, <<NL, "a">>}}

(* Tokens by what they stand for, and how they are written. *)
Wd(chars) == [type |-> "word", chars |-> chars]
Nm(chars) == [type |-> "number", chars |-> chars]
Sp(char)  == [type |-> char, chars |-> <<char>>]
St(chars) == [type |-> "string", chars |-> chars]

Escaped(chars) ==
  FlattenSeq([i \in 1..Len(chars) |->
                IF chars[i] \in {QUOTE, BACKSLASH} THEN <<BACKSLASH, chars[i]>> ELSE <<chars[i]>>])
Spelling(t) == IF t.type = "string" THEN <<QUOTE>> \o Escaped(t.chars) \o <<QUOTE>> ELSE t.chars

Vocabulary ==
  {Sp(":"), Sp("$"), Sp("]"), Nm(<<"7">>), Nm(<<"-", "7", "7">>)}
  \cup {Wd(w) : w \in {<<"-">>, <<"a", QUOTE>>, <<"-", "-", "a">>, <<"7", "7", "7">>}}
  \cup {St(c) : c \in SeqsUpTo({SP, NL, QUOTE, BACKSLASH, "a"}, 2)}

Gaps == {<<SP>>, <<NL, SP>>, <<SP, "-", "-", SP, QUOTE, NL>>, <<NL, "-", "-", NL>>}

Spelled ==
  {[text |-> g \o Spelling(t) \o h \o Spelling(u) \o e, tokens |-> <<t, u>>] :
     t, u \in Vocabulary, g \in {<<>>, <<NL>>}, h \in Gaps, e \in {<<>>, <<SP, "-", "-">>}}

(* Words that look like numbers of seven bits, on both sides of the limits *)
(* of every base, and numbers in every base.                               *)
Words ==
  {<<"+">>, <<"1", "2", "8">>, <<"+", "1", "2", "8">>, <<"-", "1", "2", "9">>,
   <<"0", "8">>, <<"0", "2", "0", "0">>, <<"0", "x">>, <<"0", "x", "x">>, <<"-", "0", "x">>,
   <<"0", "x", "8", "0">>, <<"a">>, <<"7", "a">>, <<"1", "-">>, <<"-", "-", "1">>}
Numbers ==
  {<<"0">>, <<"+", "7">>, <<"1", "2", "7">>, <<"-", "1", "2", "8">>, <<"0", "0", "0", "0">>,
   <<"0", "1", "7", "7">>, <<"-", "0", "0">>, <<"0", "x", "7", "f">>, <<"0", "X", "a">>,
   <<"-", "0", "x", "a">>}
LongZero == <<"0", "0", "0", "0", "0", "x">>

Numerals ==
  {[text |-> w \o e, tokens |-> <<Wd(w)>>] : w \in Words, e \in {<<>>, <<NL>>}}
  \cup {[text |-> w \o e, tokens |-> <<Nm(w)>>] : w \in Numbers, e \in {<<>>, <<NL>>}}
  \cup {[text |-> LongZero, tokens |-> <<Nm(SubSeq(LongZero, 1, MaxWord))>>]}

Files == {[text |-> t, tokens |-> <<>>] : t \in Anything} \cup Spelled \cup Numerals

MCInit == \E f \in Files : text = f.text /\ wanted = f.tokens /\ Init

MCSpec == MCInit /\ [][Next /\ UNCHANGED wanted]_<<vars, wanted>> /\ WF_vars(Next /\ UNCHANGED wanted)

(* A file that spells tokens, strings with their quotes and backslashes    *)
(* escaped, numbers in any base, is read as these tokens.                  *)
ReadsBack ==
  mode = "end" /\ wanted # <<>> =>
    [i \in 1..Len(tokens) |-> [type |-> tokens[i].type, chars |-> tokens[i].chars]] = wanted
=============================================================================
