----------------------------- MODULE TokensProofs -----------------------------
(***************************************************************************)
(* What the token stream reads: words and strings whole, nothing lost, and *)
(* the right lines, for every file, whatever its length, and all sizes of  *)
(* the two buffers.                                                        *)
(***************************************************************************)
EXTENDS Tokens, SequenceTheorems, FiniteSetTheorems, TLAPS

IsSeq(s) == \E S : s \in Seq(S)

(* What is kept of the characters from..to. *)
Prefix(from, to) ==
  SubSeq(text, from, IF to - from + 1 <= MaxWord THEN to ELSE from + MaxWord - 1)

Spaceless(from, to) == \A i \in from..to : text[i] \notin Space

WholeWord(t) ==
  t.type # "string" =>
    /\ SpaceBefore(t.from) /\ SpaceAt(t.to + 1)
    /\ \A i \in t.from..t.to : text[i] \notin Space
    /\ LET whole == SubSeq(text, t.from, t.to)
       IN  IF Len(whole) <= MaxWord THEN t.chars = whole
           ELSE t.chars = SubSeq(whole, 1, MaxWord)

(* The inductive invariant.  Between tokens a space has just been read or  *)
(* comes next, so a word can only begin behind one.                        *)
WordInv ==
  /\ text \in Seq(STRING) /\ pos \in 0..Len(text)
  /\ IsSeq(tokens)
  /\ mode = "between" => pos = 0 \/ text[pos] \in Space \/ SpaceAt(pos + 1)
  /\ mode = "word" =>
       /\ start.from \in 1..pos + 1 /\ SpaceBefore(start.from)
       /\ Spaceless(start.from, pos)
       /\ buffer = Prefix(start.from, pos)
  /\ \A i \in 1..Len(tokens) : WholeWord(tokens[i])

-----------------------------------------------------------------------------
(* One character more, kept if there is room for it. *)
LEMMA KeepPrefix ==
  ASSUME text \in Seq(STRING), pos \in Nat, pos + 1 <= Len(text),
         NEW f \in 1..pos + 1, buffer = Prefix(f, pos)
  PROVE  Keep(<<text[pos + 1]>>, MaxWord) = Prefix(f, pos + 1)
<1> DEFINE c == <<text[pos + 1]>>
           all == buffer \o c
<1>1. MaxWord \in Nat /\ MaxWord > 0
  BY TokensAssumption
<1>2. Len(text) \in Nat /\ pos + 1 \in 1..Len(text)
  BY LenProperties
<1>3. text[pos + 1] \in STRING
  BY <1>2, ElementOfSeq
<1>4. c \in Seq(STRING) /\ Len(c) = 1
  BY <1>3
<1>5. CASE pos - f + 2 <= MaxWord
  <2>1. buffer = SubSeq(text, f, pos)
    BY <1>1, <1>5 DEF Prefix
  <2>2. c = SubSeq(text, pos + 1, pos + 1)
    <3>1. SubSeq(text, pos + 1, pos + 1) = <<text[pos + 1]>> \o SubSeq(text, pos + 2, pos + 1)
      BY <1>2, SubSeqRecursiveFirst
    <3>2. SubSeq(text, pos + 2, pos + 1) = <<>>
      BY SubSeqEmpty
    <3>3. QED
      BY <3>1, <3>2, <1>4, ConcatEmptySeq
  <2>3. all = SubSeq(text, f, pos + 1)
    <3>1. f \in 1..Len(text) + 1 /\ pos \in f - 1..Len(text) /\ pos + 1 \in pos..Len(text)
      BY <1>2
    <3>2. QED
      BY <2>1, <2>2, <3>1, ConcatAdjacentSubSeq
  <2>4. all \in Seq(STRING) /\ Len(all) = pos - f + 2
    <3>1. \A i \in f..pos + 1 : text[i] \in STRING
      BY <1>2, ElementOfSeq
    <3>2. /\ SubSeq(text, f, pos + 1) \in Seq(STRING)
          /\ Len(SubSeq(text, f, pos + 1)) = IF f <= pos + 1 THEN (pos + 1) - f + 1 ELSE 0
      BY <3>1, SubSeqProperties
    <3>3. (IF f <= pos + 1 THEN (pos + 1) - f + 1 ELSE 0) = pos - f + 2
      OBVIOUS
    <3>4. QED
      BY <2>3, <3>2, <3>3
  <2>5. SubSeq(all, 1, Len(all)) = all
    BY <2>4, SubSeqFull
  <2>6. Keep(c, MaxWord) = all
    BY <1>1, <1>5, <2>4, <2>5 DEF Keep
  <2>7. (pos + 1) - f + 1 <= MaxWord
    BY <1>1, <1>5
  <2>8. QED
    BY <2>3, <2>6, <2>7 DEF Prefix
<1>6. CASE pos - f + 2 > MaxWord
  <2>1. buffer = SubSeq(text, f, f + MaxWord - 1)
    BY <1>1, <1>6 DEF Prefix
  <2>2. buffer \in Seq(STRING) /\ Len(buffer) = MaxWord
    <3>1. \A i \in f..f + MaxWord - 1 : text[i] \in STRING
      BY <1>1, <1>2, <1>6, ElementOfSeq
    <3>2. QED
      BY <1>1, <2>1, <3>1, SubSeqProperties
  <2>3. Len(all) = MaxWord + 1
    BY <1>4, <2>2, ConcatProperties
  <2>4. SubSeq(all, 1, MaxWord) = SubSeq(buffer, 1, MaxWord)
    BY <1>1, <1>4, <2>2, SubSeqOfConcat1
  <2>5. SubSeq(buffer, 1, MaxWord) = buffer
    BY <2>2, SubSeqFull
  <2>6. Keep(c, MaxWord) = buffer
    BY <1>1, <2>3, <2>4, <2>5 DEF Keep
  <2>7. QED
    BY <1>1, <1>6, <2>1, <2>6 DEF Prefix
<1>7. QED
  BY <1>1, <1>5, <1>6

LEMMA SpecialTypes == \A s \in DOMAIN Specials : Specials[s] \notin {"number", "string"}
<1>1. \A s \in {<<":">>, <<";">>, <<"(">>, <<")">>, <<"[">>, <<"]">>, <<"$">>} :
        s[1] \notin {"number", "string"}
  <2>1. ASSUME NEW x, NEW s, s = <<x>> PROVE s[1] = x
    BY <2>1
  <2>2. \A x \in {":", ";", "(", ")", "[", "]", "$"} : x \notin {"number", "string"}
    OBVIOUS
  <2>3. QED
    BY <2>1, <2>2
<1>2. QED
  BY <1>1 DEF Specials

(* Appending a whole word to tokens that are whole words. *)
LEMMA AppendWord ==
  ASSUME IsSeq(tokens), \A i \in 1..Len(tokens) : WholeWord(tokens[i]),
         NEW t, WholeWord(t), tokens' = Append(tokens, t), UNCHANGED text
  PROVE  IsSeq(tokens)' /\ (\A i \in 1..Len(tokens) : WholeWord(tokens[i]))'
<1>1. PICK S : tokens \in Seq(S)
  BY DEF IsSeq
<1>2. tokens \in Seq(S \cup {t}) /\ t \in S \cup {t}
  BY <1>1, SeqMonotonic
<1>3. /\ tokens' \in Seq(S \cup {t})
      /\ Len(tokens') = Len(tokens) + 1
      /\ \A i \in 1..Len(tokens) : tokens'[i] = tokens[i]
      /\ tokens'[Len(tokens) + 1] = t
  BY <1>2, AppendProperties
<1>4. Len(tokens) \in Nat
  BY <1>2, LenProperties
<1>5. ASSUME NEW i \in 1..Len(tokens') PROVE WholeWord(tokens'[i])
  BY <1>3, <1>4, <1>5
<1>6. ASSUME NEW u, WholeWord(u) PROVE WholeWord(u)'
  BY <1>6 DEF WholeWord, SpaceBefore, SpaceAt
<1>7. QED
  BY <1>3, <1>5, <1>6 DEF IsSeq, WholeWord, SpaceBefore, SpaceAt

-----------------------------------------------------------------------------
LEMMA InitWords == Init => WordInv
<1> SUFFICES ASSUME Init PROVE WordInv
  OBVIOUS
<1>1. text \in Seq(STRING) /\ pos = 0 /\ mode = "between" /\ tokens = <<>>
  BY DEF Init
<1>2. 0 \in 0..Len(text)
  BY <1>1, LenProperties
<1>3. tokens \in Seq({}) /\ Len(tokens) = 0
  BY <1>1, EmptySeq
<1>4. QED
  BY <1>1, <1>2, <1>3 DEF WordInv, IsSeq

(* A step that returns no token, reads up to p, and goes to a mode other   *)
(* than that of a word.                                                    *)
LEMMA QuietStep ==
  ASSUME WordInv, UNCHANGED <<text, tokens>>, pos' \in 0..Len(text),
         mode' # "word",
         mode' = "between" => pos' = 0 \/ text[pos'] \in Space \/ SpaceAt(pos' + 1)
  PROVE  WordInv'
BY DEF WordInv, WholeWord, SpaceBefore, SpaceAt, Spaceless, Prefix, IsSeq

(* A step inside a word. *)
LEMMA WordStep ==
  ASSUME WordInv, UNCHANGED <<text, tokens>>, pos' \in 0..Len(text), mode' = "word",
         NEW f, f = start.from', f \in 1..pos' + 1,
         SpaceBefore(f), Spaceless(f, pos'), buffer' = Prefix(f, pos')
  PROVE  WordInv'
<1>1. IsSeq(tokens)' /\ (\A i \in 1..Len(tokens) : WholeWord(tokens[i]))'
  BY DEF WordInv, WholeWord, SpaceBefore, SpaceAt, IsSeq
<1>2. SpaceBefore(start.from)' /\ Spaceless(start.from, pos)'
  BY DEF SpaceBefore, Spaceless
<1>3. Prefix(start.from, pos)' = Prefix(f, pos')
  BY DEF Prefix
<1>4. QED
  BY <1>1, <1>2, <1>3 DEF WordInv

LEMMA SubSeqFromFirst ==
  ASSUME NEW s \in Seq(STRING), NEW i \in 1..Len(s), NEW j \in 1..Len(s), NEW n \in 1..j - i + 1
  PROVE  SubSeq(SubSeq(s, i, j), 1, n) = SubSeq(s, i, i + n - 1)
<1>1. i + 1 - 1 = i /\ 1 \in 1..j - i + 1
  OBVIOUS
<1>2. SubSeq(SubSeq(s, i, j), 1, n) = SubSeq(s, i + 1 - 1, i + n - 1)
  BY <1>1, SubSeqOfSubSeq
<1>3. QED
  BY <1>1, <1>2

LEMMA NextWords == WordInv /\ [Next]_vars => WordInv'
<1> SUFFICES ASSUME WordInv, [Next]_vars PROVE WordInv'
  OBVIOUS
<1> text \in Seq(STRING) /\ pos \in 0..Len(text) /\ Len(text) \in Nat /\ pos \in Nat
  BY LenProperties DEF WordInv
<1>1. CASE SkipSpace
  <2>1. /\ UNCHANGED <<text, tokens, mode>> /\ mode = "between" /\ pos' = pos + 1
        /\ pos + 1 <= Len(text) /\ text[pos + 1] \in Space
    BY <1>1 DEF SkipSpace, More, Char, Advance
  <2>2. QED
    BY <2>1, QuietStep
<1>2. CASE EndOfFile
  <2>1. UNCHANGED <<text, tokens, pos>> /\ mode' = "end"
    BY <1>2 DEF EndOfFile
  <2>2. QED
    BY <2>1, QuietStep
<1>3. CASE Begin
  <2>1. /\ UNCHANGED <<text, tokens>> /\ mode = "between" /\ pos + 1 <= Len(text)
        /\ text[pos + 1] \notin Space /\ start.from' = pos + 1 /\ buffer' = <<>>
    BY <1>3 DEF Begin, More, Char
  <2>2. CASE text[pos + 1] = QUOTE
    <3>1. mode' = "string" /\ pos' = pos + 1
      BY <1>3, <2>2 DEF Begin, Char, Advance
    <3>2. QED
      BY <2>1, <3>1, QuietStep
  <2>3. CASE text[pos + 1] # QUOTE
    <3>1. mode' = "word" /\ pos' = pos
      BY <1>3, <2>3 DEF Begin, Char
    <3>2. SpaceBefore(pos + 1)
      BY <2>1 DEF WordInv, SpaceBefore, SpaceAt
    <3>3. Spaceless(pos + 1, pos)
      BY DEF Spaceless
    <3>4. <<>> = Prefix(pos + 1, pos)
      <4>1. MaxWord \in Nat
        BY TokensAssumption
      <4>2. pos - (pos + 1) + 1 <= MaxWord
        BY <4>1
      <4>3. Prefix(pos + 1, pos) = SubSeq(text, pos + 1, pos)
        BY <4>2 DEF Prefix
      <4>4. QED
        BY <4>3, SubSeqEmpty
    <3>5. pos + 1 \in 1..pos' + 1 /\ pos + 1 = start.from'
      BY <2>1, <3>1
    <3>6. QED
      BY <2>1, <3>1, <3>2, <3>3, <3>4, <3>5, WordStep
  <2>4. QED
    BY <2>2, <2>3
<1>4. CASE WordChar
  <2>1. /\ UNCHANGED <<text, tokens, mode, start>> /\ mode = "word" /\ pos' = pos + 1
        /\ pos + 1 <= Len(text) /\ text[pos + 1] \notin Space
        /\ buffer' = Keep(<<text[pos + 1]>>, MaxWord)
    BY <1>4 DEF WordChar, Char, Advance, SpaceAt
  <2>2. /\ start.from \in 1..pos + 1 /\ SpaceBefore(start.from)
        /\ Spaceless(start.from, pos) /\ buffer = Prefix(start.from, pos)
    BY <2>1 DEF WordInv
  <2>3. buffer' = Prefix(start.from, pos + 1)
    BY <2>1, <2>2, KeepPrefix
  <2>4. Spaceless(start.from, pos + 1)
    BY <2>1, <2>2 DEF Spaceless
  <2>5. start.from \in 1..pos' + 1 /\ start.from = start.from'
    BY <2>1, <2>2
  <2>6. pos' \in 0..Len(text) /\ mode' = "word"
    BY <2>1
  <2>7. Spaceless(start.from, pos') /\ buffer' = Prefix(start.from, pos')
    BY <2>1, <2>3, <2>4
  <2>8. QED
    BY <2>1, <2>2, <2>5, <2>6, <2>7, WordStep
<1>5. CASE EndWord
  <2>1. UNCHANGED <<text, pos>> /\ mode = "word" /\ SpaceAt(pos + 1)
    BY <1>5 DEF EndWord
  <2>2. CASE buffer = <<"-", "-">>
    <3>1. mode' = "comment" /\ UNCHANGED tokens
      BY <1>5, <2>2 DEF EndWord
    <3>2. QED
      BY <2>1, <3>1, QuietStep
  <2>3. CASE buffer # <<"-", "-">>
    <3> DEFINE f == start.from
               t == Token(TypeOf(buffer), buffer, pos)
               whole == SubSeq(text, f, pos)
    <3>1. mode' = "between" /\ tokens' = Append(tokens, t)
      BY <1>5, <2>3 DEF EndWord
    <3>2. t.type = TypeOf(buffer) /\ t.chars = buffer /\ t.from = f /\ t.to = pos
      BY DEF Token
    <3>3. f \in 1..pos + 1 /\ SpaceBefore(f) /\ Spaceless(f, pos) /\ buffer = Prefix(f, pos)
      BY <2>1 DEF WordInv
    <3>4. MaxWord \in Nat /\ MaxWord > 0
      BY TokensAssumption
    <3>5. \A i \in f..pos : text[i] \in STRING
      BY <3>3, ElementOfSeq
    <3>6. whole \in Seq(STRING) /\ Len(whole) = pos - f + 1
      <4>1. /\ whole \in Seq(STRING)
            /\ Len(whole) = IF f <= pos THEN pos - f + 1 ELSE 0
        BY <3>3, <3>5, SubSeqProperties
      <4>2. (IF f <= pos THEN pos - f + 1 ELSE 0) = pos - f + 1
        BY <3>3
      <4>3. QED
        BY <4>1, <4>2
    <3>7. CASE pos - f + 1 <= MaxWord
      <4>1. buffer = whole
        BY <3>3, <3>7 DEF Prefix
      <4>2. WholeWord(t)
        BY <2>1, <3>2, <3>3, <3>6, <3>7, <4>1 DEF WholeWord, Spaceless
      <4>3. QED
        BY <2>1, <3>1, <4>2, AppendWord DEF WordInv, SpaceAt
    <3>8. CASE ~(pos - f + 1 <= MaxWord)
      <4>1. buffer = SubSeq(text, f, f + MaxWord - 1)
        BY <3>3, <3>8 DEF Prefix
      <4>2. buffer = SubSeq(whole, 1, MaxWord)
        <5>1. f \in 1..Len(text) /\ pos \in 1..Len(text)
          BY <3>3, <3>4, <3>8
        <5>2. MaxWord \in 1..pos - f + 1
          BY <3>3, <3>4, <3>8
        <5>3. QED
          BY <4>1, <5>1, <5>2, SubSeqFromFirst
      <4>3. WholeWord(t)
        BY <2>1, <3>2, <3>3, <3>6, <3>8, <4>2 DEF WholeWord, Spaceless
      <4>4. QED
        BY <2>1, <3>1, <4>3, AppendWord DEF WordInv, SpaceAt
    <3>9. QED
      BY <3>7, <3>8
  <2>4. QED
    BY <2>2, <2>3
<1>6. CASE CommentChar
  <2>1. /\ UNCHANGED <<text, tokens>> /\ mode = "comment" /\ pos' = pos + 1
        /\ pos + 1 <= Len(text) /\ mode' = IF text[pos + 1] = NL THEN "between" ELSE mode
    BY <1>6 DEF CommentChar, More, Char, Advance
  <2>2. mode' # "word" /\ (mode' = "between" => text[pos'] \in Space)
    BY <2>1 DEF Space
  <2>3. QED
    BY <2>1, <2>2, QuietStep
<1>7. CASE EndComment
  <2>1. UNCHANGED <<text, tokens, pos>> /\ mode' = "between" /\ ~(pos < Len(text))
    BY <1>7 DEF EndComment, More
  <2>2. SpaceAt(pos + 1)
    BY <2>1 DEF SpaceAt
  <2>3. QED
    BY <2>1, <2>2, QuietStep DEF SpaceAt
<1>8. CASE StringChar
  <2>1. /\ UNCHANGED <<text, tokens, mode>> /\ mode = "string" /\ pos' = pos + 1
        /\ pos + 1 <= Len(text)
    BY <1>8 DEF StringChar, More, Advance
  <2>2. QED
    BY <2>1, QuietStep
<1>9. CASE Escape
  <2>1. /\ UNCHANGED <<text, tokens, mode>> /\ mode = "string" /\ pos' = pos + 2
        /\ pos + 2 <= Len(text)
    BY <1>9 DEF Escape, Advance
  <2>2. QED
    BY <2>1, QuietStep
<1>10. CASE EndString
  <2> DEFINE t == Token("string", buffer, pos + 1)
  <2>1. /\ UNCHANGED text /\ mode' = "between" /\ pos' = pos + 1
        /\ pos + 1 <= Len(text) /\ SpaceAt(pos + 2)
        /\ tokens' = Append(tokens, t)
    BY <1>10 DEF EndString, More, Advance
  <2>2. WholeWord(t)
    BY DEF WholeWord, Token
  <2>3. SpaceAt(pos + 1)'
    <3>1. (pos + 1)' = pos + 2
      BY <2>1
    <3>2. QED
      BY <2>1, <3>1 DEF SpaceAt
  <2>4. IsSeq(tokens)' /\ (\A i \in 1..Len(tokens) : WholeWord(tokens[i]))'
    BY <2>1, <2>2, AppendWord DEF WordInv
  <2>5. QED
    BY <2>1, <2>3, <2>4 DEF WordInv
<1>11. CASE InnerQuote
  <2>1. /\ UNCHANGED <<text, tokens, mode>> /\ mode = "string" /\ pos' = pos + 1
        /\ pos + 1 <= Len(text)
    BY <1>11 DEF InnerQuote, More, Advance
  <2>2. QED
    BY <2>1, QuietStep
<1>12. CASE Unterminated
  <2>1. UNCHANGED <<text, tokens>> /\ mode' = "failed" /\ pos' = Len(text)
    BY <1>12 DEF Unterminated
  <2>2. QED
    BY <2>1, QuietStep
<1>13. CASE UNCHANGED vars
  BY <1>13 DEF vars, WordInv, WholeWord, SpaceBefore, SpaceAt, Spaceless, Prefix, IsSeq
<1>14. QED
  BY <1>1, <1>2, <1>3, <1>4, <1>5, <1>6, <1>7, <1>8, <1>9, <1>10, <1>11, <1>12, <1>13 DEF Next

(* Of every file, whatever is in it, the words and numbers returned reach  *)
(* from space to space, and are cut off only at the size of the buffer of  *)
(* read_word (tokens.c).                                                   *)
THEOREM WordsAreWhole == Spec => []WordsWhole
<1>1. WordInv => WordsWhole
  <2> SUFFICES ASSUME WordInv, NEW t \in Returned, t.type # "string"
               PROVE  /\ SpaceBefore(t.from) /\ SpaceAt(t.to + 1)
                      /\ \A i \in t.from..t.to : text[i] \notin Space
                      /\ LET whole == SubSeq(text, t.from, t.to)
                         IN  IF Len(whole) <= MaxWord THEN t.chars = whole
                             ELSE t.chars = SubSeq(whole, 1, MaxWord)
    BY DEF WordsWhole
  <2>1. PICK i \in 1..Len(tokens) : t = tokens[i]
    BY DEF Returned
  <2>2. QED
    BY <2>1 DEF WordInv, WholeWord
<1>2. QED
  BY InitWords, NextWords, <1>1, PTL DEF Spec

-----------------------------------------------------------------------------
(* The type of the stream. *)

TokenType == [type : TokenTypes, chars : Seq(STRING), from : Nat, to : Nat, line : Nat]

LEMMA CharIsString == ASSUME TypeOK, NEW i \in 1..Len(text) PROVE text[i] \in STRING
BY ElementOfSeq DEF TypeOK

LEMMA KeepType ==
  ASSUME TypeOK, NEW chars \in Seq(STRING), NEW max \in Nat
  PROVE  Keep(chars, max) \in Seq(STRING)
<1> DEFINE all == buffer \o chars
           n == IF Len(all) < max THEN Len(all) ELSE max
<1>1. all \in Seq(STRING) /\ Len(all) \in Nat
  BY ConcatProperties, LenProperties DEF TypeOK
<1>2. n \in 0..Len(all)
  BY <1>1
<1>3. \A i \in 1..n : all[i] \in STRING
  BY <1>1, <1>2, ElementOfSeq
<1>4. SubSeq(all, 1, n) \in Seq(STRING)
  BY <1>2, <1>3, SubSeqProperties
<1>5. QED
  BY <1>4 DEF Keep

LEMMA TypeOfType == ASSUME NEW w PROVE TypeOf(w) \in TokenTypes
BY DEF TypeOf, TokenTypes

LEMMA InitType == Init => TypeOK
<1> SUFFICES ASSUME Init PROVE TypeOK
  OBVIOUS
<1>1. Len(text) \in Nat /\ 0 \in 0..Len(text)
  BY LenProperties DEF Init
<1>2. start \in [from : Nat \ {0}, line : Nat \ {0}]
  BY DEF Init
<1>3. QED
  BY <1>1, <1>2, EmptySeq DEF Init, TypeOK

(* A step that only moves on. *)
LEMMA MoveType ==
  ASSUME TypeOK, UNCHANGED <<text, start, tokens>>,
         pos' \in 0..Len(text), line' \in Nat \ {0}, buffer' \in Seq(STRING),
         mode' \in {"between", "word", "comment", "string", "end", "failed"}
  PROVE  TypeOK'
BY DEF TypeOK

(* The token that ends at to has its type. *)
LEMMA TokenHasType ==
  ASSUME TypeOK, NEW type \in TokenTypes, NEW to \in Nat
  PROVE  Token(type, buffer, to) \in TokenType
BY DEF TypeOK, Token, TokenType

LEMMA NextType == TypeOK /\ [Next]_vars => TypeOK'
<1> SUFFICES ASSUME TypeOK, [Next]_vars PROVE TypeOK'
  OBVIOUS
<1> /\ text \in Seq(STRING) /\ pos \in 0..Len(text) /\ Len(text) \in Nat /\ pos \in Nat
    /\ line \in Nat \ {0} /\ buffer \in Seq(STRING)
    /\ mode \in {"between", "word", "comment", "string", "end", "failed"}
    /\ tokens \in Seq(TokenType)
  BY LenProperties DEF TypeOK, TokenType
<1>a. MaxWord \in Nat /\ MaxString \in Nat
  BY TokensAssumption
<1>b. \A c : LineAfter(c) \in Nat \ {0}
  BY DEF LineAfter
<1>1. CASE SkipSpace
  BY <1>1, <1>b, MoveType DEF SkipSpace, More, Advance
<1>2. CASE EndOfFile
  BY <1>2, MoveType DEF EndOfFile
<1>3. CASE Begin
  <2>1. /\ UNCHANGED <<text, line, tokens>> /\ start' = [from |-> pos + 1, line |-> line]
        /\ buffer' = <<>> /\ pos < Len(text)
    BY <1>3 DEF Begin, More
  <2>2. mode' \in {"string", "word"} /\ pos' \in 0..Len(text)
    BY <1>3, <2>1 DEF Begin, Advance
  <2>3. start' \in [from : Nat \ {0}, line : Nat \ {0}]
    BY <2>1
  <2>4. buffer' \in Seq(STRING)
    BY <2>1, EmptySeq
  <2>5. QED
    BY <2>1, <2>2, <2>3, <2>4 DEF TypeOK
<1>4. CASE WordChar
  <2>1. pos + 1 \in 1..Len(text)
    BY <1>4 DEF WordChar, SpaceAt
  <2>2. <<Char>> \in Seq(STRING)
    BY <2>1, CharIsString DEF Char
  <2>3. buffer' \in Seq(STRING)
    BY <1>4, <1>a, <2>2, KeepType DEF WordChar
  <2>4. QED
    BY <1>4, <2>1, <2>3, MoveType DEF WordChar, Advance
<1>5. CASE EndWord
  <2>1. UNCHANGED <<text, pos, line, start, buffer>>
    BY <1>5 DEF EndWord
  <2>2. CASE buffer = <<"-", "-">>
    BY <1>5, <2>1, <2>2, MoveType DEF EndWord
  <2>3. CASE buffer # <<"-", "-">>
    <3> DEFINE t == Token(TypeOf(buffer), buffer, pos)
    <3>1. mode' = "between" /\ tokens' = Append(tokens, t)
      BY <1>5, <2>3 DEF EndWord
    <3>2. t \in TokenType
      BY TypeOfType, TokenHasType
    <3>3. tokens' \in Seq(TokenType)
      BY <3>1, <3>2, AppendProperties
    <3>4. QED
      BY <2>1, <3>1, <3>3 DEF TypeOK, TokenType
  <2>4. QED
    BY <2>2, <2>3
<1>6. CASE CommentChar
  BY <1>6, <1>b, MoveType DEF CommentChar, More, Advance
<1>7. CASE EndComment
  BY <1>7, MoveType DEF EndComment
<1>8. CASE StringChar
  <2>1. pos + 1 \in 1..Len(text)
    BY <1>8 DEF StringChar, More
  <2>2. <<Char>> \in Seq(STRING)
    BY <2>1, CharIsString DEF Char
  <2>3. buffer' \in Seq(STRING)
    BY <1>8, <1>a, <2>2, KeepType DEF StringChar
  <2>4. QED
    BY <1>8, <2>1, <2>3, MoveType DEF StringChar, Advance
<1>9. CASE Escape
  <2>1. pos + 1 \in 1..Len(text) /\ pos + 2 \in 1..Len(text)
    BY <1>9 DEF Escape
  <2>2. Char \in STRING /\ text[pos + 2] \in STRING
    BY <2>1, CharIsString DEF Char
  <2>3. <<text[pos + 2]>> \in Seq(STRING) /\ <<Char, text[pos + 2]>> \in Seq(STRING)
    BY <2>2
  <2>4. buffer' \in Seq(STRING)
    BY <1>9, <1>a, <2>3, KeepType DEF Escape
  <2>5. QED
    BY <1>9, <2>1, <2>4, MoveType DEF Escape, Advance
<1>10. CASE EndString
  <2> DEFINE t == Token("string", buffer, pos + 1)
  <2>1. /\ UNCHANGED <<text, line, start, buffer>> /\ mode' = "between" /\ pos' = pos + 1
        /\ pos < Len(text) /\ tokens' = Append(tokens, t)
    BY <1>10 DEF EndString, More, Advance
  <2>2. t \in TokenType
    BY TokenHasType DEF TokenTypes
  <2>3. tokens' \in Seq(TokenType)
    BY <2>1, <2>2, AppendProperties
  <2>4. QED
    BY <2>1, <2>3 DEF TypeOK, TokenType
<1>11. CASE InnerQuote
  <2>1. pos + 1 \in 1..Len(text)
    BY <1>11 DEF InnerQuote, More
  <2>2. <<QUOTE>> \in Seq(STRING)
    <3>1. QUOTE \in STRING
      BY <1>11, <2>1, CharIsString DEF InnerQuote, Char
    <3>2. QED
      BY <3>1
  <2>3. buffer' \in Seq(STRING)
    BY <1>11, <1>a, <2>2, KeepType DEF InnerQuote
  <2>4. QED
    BY <1>11, <2>1, <2>3, MoveType DEF InnerQuote, Advance
<1>12. CASE Unterminated
  BY <1>12, MoveType DEF Unterminated
<1>13. CASE UNCHANGED vars
  BY <1>13 DEF vars, TypeOK
<1>14. QED
  BY <1>1, <1>2, <1>3, <1>4, <1>5, <1>6, <1>7, <1>8, <1>9, <1>10, <1>11, <1>12, <1>13 DEF Next

(* The stream never reads past the end of the file, and every token has a  *)
(* type, a place and a line (tokens.c).                                    *)
THEOREM StreamTyped == Spec => []TypeOK
BY InitType, NextType, PTL DEF Spec

-----------------------------------------------------------------------------
(* Strings. *)

(* Of the characters f..p of a string, no backslash waits for the next:    *)
(* behind the last that is not a backslash there is an even number.        *)
Settled(f, p) ==
  \E k \in f..p :
    /\ text[k] # BACKSLASH \/ k = f
    /\ \A i \in k + 1..p : text[i] = BACKSLASH
    /\ (p - k) % 2 = 0

Unclosed(f, p) == \A j \in f + 1..p : ~Closes(f, j)

WholeString(t) ==
  t.type = "string" =>
    /\ text[t.from] = QUOTE /\ SpaceBefore(t.from)
    /\ Closes(t.from, t.to)
    /\ \A j \in t.from + 1..t.to - 1 : ~Closes(t.from, j)

(* The inductive invariant: in a string, every quote read so far has been  *)
(* looked at, and no backslash is left over.                               *)
StringInv ==
  /\ mode = "string" =>
       /\ start.from \in 1..pos /\ text[start.from] = QUOTE /\ SpaceBefore(start.from)
       /\ Settled(start.from, pos) /\ Unclosed(start.from, pos)
  /\ mode = "failed" => text[start.from] = QUOTE /\ Unclosed(start.from, Len(text))
  /\ \A t \in Returned : WholeString(t)

LEMMA ClosesIsSettled ==
  ASSUME NEW f \in Nat, NEW j \in Nat
  PROVE  Closes(f, j) <=> /\ f < j /\ j <= Len(text)
                          /\ text[j] = QUOTE /\ SpaceAt(j + 1)
                          /\ Settled(f, j - 1)
<1>1. \A k \in f..j - 1 : j - 1 - k = (j - 1) - k
  OBVIOUS
<1>2. QED
  BY <1>1 DEF Closes, Settled

(* A character that is no backslash. *)
LEMMA SettledBehind ==
  ASSUME NEW f \in Nat, NEW p \in Nat, f <= p, text[p] # BACKSLASH
  PROVE  Settled(f, p)
<1>1. p \in f..p /\ (\A i \in p + 1..p : text[i] = BACKSLASH) /\ (p - p) % 2 = 0
  OBVIOUS
<1>2. QED
  BY <1>1 DEF Settled

(* Two backslashes. *)
LEMMA SettledTwice ==
  ASSUME NEW f \in Nat, NEW p \in Nat, Settled(f, p),
         text[p + 1] = BACKSLASH, text[p + 2] = BACKSLASH
  PROVE  Settled(f, p + 2)
<1>1. PICK k \in f..p : /\ text[k] # BACKSLASH \/ k = f
                        /\ \A i \in k + 1..p : text[i] = BACKSLASH
                        /\ (p - k) % 2 = 0
  BY DEF Settled
<1>2. k \in f..p + 2 /\ ((p + 2) - k) % 2 = 0
  BY <1>1
<1>3. ASSUME NEW i \in k + 1..p + 2 PROVE text[i] = BACKSLASH
  <2>1. i \in k + 1..p \/ i = p + 1 \/ i = p + 2
    OBVIOUS
  <2>2. QED
    BY <1>1, <2>1
<1>4. QED
  BY <1>1, <1>2, <1>3 DEF Settled

(* One backslash is not settled. *)
LEMMA UnsettledBackslash ==
  ASSUME NEW f \in Nat, NEW p \in Nat, f <= p, Settled(f, p), text[p + 1] = BACKSLASH
  PROVE  ~Settled(f, p + 1)
<1> SUFFICES ASSUME Settled(f, p + 1) PROVE FALSE
  OBVIOUS
<1>1. PICK k \in f..p : /\ text[k] # BACKSLASH \/ k = f
                        /\ \A i \in k + 1..p : text[i] = BACKSLASH
                        /\ (p - k) % 2 = 0
  BY DEF Settled
<1>2. PICK l \in f..p + 1 : /\ text[l] # BACKSLASH \/ l = f
                            /\ \A i \in l + 1..p + 1 : text[i] = BACKSLASH
                            /\ (p + 1 - l) % 2 = 0
  BY DEF Settled
<1>3. l \in f..p
  BY <1>2
<1>4. CASE k < l
  <2>1. l \in k + 1..p /\ l # f
    BY <1>3, <1>4
  <2>2. QED
    BY <1>1, <1>2, <2>1
<1>5. CASE l < k
  <2>1. k \in l + 1..p + 1 /\ k # f
    BY <1>3, <1>5
  <2>2. QED
    BY <1>1, <1>2, <2>1
<1>6. CASE k = l
  BY <1>1, <1>2, <1>6
<1>7. QED
  BY <1>3, <1>4, <1>5, <1>6

LEMMA ReturnedAppend ==
  ASSUME TypeOK, NEW t \in TokenType, tokens' = Append(tokens, t)
  PROVE  Returned' = Returned \cup {t}
<1>1. tokens \in Seq(TokenType)
  BY DEF TypeOK, TokenType
<1>2. /\ Len(tokens') = Len(tokens) + 1 /\ Len(tokens) \in Nat
      /\ \A i \in 1..Len(tokens) : tokens'[i] = tokens[i]
      /\ tokens'[Len(tokens) + 1] = t
  BY <1>1, AppendProperties, LenProperties
<1>3. 1..Len(tokens') = (1..Len(tokens)) \cup {Len(tokens) + 1}
  BY <1>2
<1>4. QED
  BY <1>2, <1>3 DEF Returned

LEMMA ReturnedSame == ASSUME UNCHANGED tokens PROVE Returned' = Returned
BY DEF Returned

LEMMA StringsSame ==
  ASSUME UNCHANGED text
  PROVE  /\ \A t : WholeString(t)' <=> WholeString(t)
         /\ \A f, p : Settled(f, p)' <=> Settled(f, p)
         /\ \A f, p : Unclosed(f, p)' <=> Unclosed(f, p)
         /\ \A f : SpaceBefore(f)' <=> SpaceBefore(f)
BY DEF WholeString, Settled, Unclosed, Closes, SpaceBefore, SpaceAt

(* A step that goes to neither of the two modes and returns no token. *)
LEMMA NoStringStep ==
  ASSUME StringInv, UNCHANGED <<text, tokens>>, mode' \notin {"string", "failed"}
  PROVE  StringInv'
<1>1. Returned' = Returned
  BY ReturnedSame
<1>2. \A t : WholeString(t)' <=> WholeString(t)
  BY StringsSame
<1>3. QED
  BY <1>1, <1>2 DEF StringInv

(* A step inside a string. *)
LEMMA StringStep ==
  ASSUME StringInv, UNCHANGED <<text, tokens, start>>, mode' = "string",
         NEW f, f = start.from, f \in 1..pos', text[f] = QUOTE, SpaceBefore(f),
         Settled(f, pos'), Unclosed(f, pos')
  PROVE  StringInv'
<1>1. Returned' = Returned
  BY ReturnedSame
<1>2. \A t : WholeString(t)' <=> WholeString(t)
  BY StringsSame
<1>3. SpaceBefore(start.from)' /\ Settled(start.from, pos)' /\ Unclosed(start.from, pos)'
  BY DEF SpaceBefore, SpaceAt, Settled, Unclosed, Closes
<1>4. QED
  BY <1>1, <1>2, <1>3 DEF StringInv

LEMMA UnclosedNext ==
  ASSUME NEW f \in Nat, NEW p \in Nat, Unclosed(f, p), ~Closes(f, p + 1)
  PROVE  Unclosed(f, p + 1)
<1>1. \A j \in f + 1..p + 1 : j \in f + 1..p \/ j = p + 1
  OBVIOUS
<1>2. QED
  BY <1>1 DEF Unclosed

LEMMA InitStrings == Init => StringInv
<1> SUFFICES ASSUME Init PROVE StringInv
  OBVIOUS
<1>1. mode = "between" /\ tokens = <<>>
  BY DEF Init
<1>2. Returned = {}
  BY <1>1, EmptySeq DEF Returned
<1>3. QED
  BY <1>1, <1>2 DEF StringInv

LEMMA NextStrings == TypeOK /\ WordInv /\ StringInv /\ [Next]_vars => StringInv'
<1> SUFFICES ASSUME TypeOK, WordInv, StringInv, [Next]_vars PROVE StringInv'
  OBVIOUS
<1> text \in Seq(STRING) /\ pos \in 0..Len(text) /\ Len(text) \in Nat /\ pos \in Nat
  BY LenProperties DEF TypeOK
<1> DEFINE f == start.from
<1>a. ASSUME mode = "string"
      PROVE  /\ f \in 1..pos /\ f \in Nat /\ text[f] = QUOTE /\ SpaceBefore(f)
             /\ Settled(f, pos) /\ Unclosed(f, pos)
  BY <1>a DEF StringInv
<1>1. CASE SkipSpace
  BY <1>1, NoStringStep DEF SkipSpace
<1>2. CASE EndOfFile
  BY <1>2, NoStringStep DEF EndOfFile
<1>3. CASE Begin
  <2>1. /\ UNCHANGED <<text, tokens>> /\ mode = "between" /\ pos + 1 <= Len(text)
        /\ text[pos + 1] \notin Space /\ start'.from = pos + 1
    BY <1>3 DEF Begin, More, Char
  <2>2. CASE text[pos + 1] = QUOTE
    <3>1. mode' = "string" /\ pos' = pos + 1
      BY <1>3, <2>2 DEF Begin, Char, Advance
    <3>2. SpaceBefore(pos + 1)
      BY <2>1 DEF WordInv, SpaceBefore, SpaceAt
    <3>3. Settled(pos + 1, pos + 1)
      BY <2>2, SettledBehind DEF QUOTE, BACKSLASH
    <3>4. Unclosed(pos + 1, pos + 1)
      BY DEF Unclosed
    <3>5. Returned' = Returned
      BY <2>1, ReturnedSame
    <3>6. \A t : WholeString(t)' <=> WholeString(t)
      BY <2>1, StringsSame
    <3>7. SpaceBefore(start.from)' /\ Settled(start.from, pos)' /\ Unclosed(start.from, pos)'
      BY <2>1, <3>1, <3>2, <3>3, <3>4 DEF SpaceBefore, SpaceAt, Settled, Unclosed, Closes
    <3>8. start.from' \in 1..pos' /\ (text[start.from])' = QUOTE
      BY <2>1, <2>2, <3>1
    <3>9. QED
      BY <3>1, <3>5, <3>6, <3>7, <3>8 DEF StringInv
  <2>3. CASE text[pos + 1] # QUOTE
    <3>1. mode' = "word"
      BY <1>3, <2>3 DEF Begin, Char
    <3>2. QED
      BY <2>1, <3>1, NoStringStep
  <2>4. QED
    BY <2>2, <2>3
<1>4. CASE WordChar
  BY <1>4, NoStringStep DEF WordChar
<1>5. CASE EndWord
  <2>1. CASE buffer = <<"-", "-">>
    BY <1>5, <2>1, NoStringStep DEF EndWord
  <2>2. CASE buffer # <<"-", "-">>
    <3> DEFINE t == Token(TypeOf(buffer), buffer, pos)
    <3>1. mode' = "between" /\ tokens' = Append(tokens, t) /\ UNCHANGED text
      BY <1>5, <2>2 DEF EndWord
    <3>2. t \in TokenType
      BY TypeOfType, TokenHasType
    <3>3. Returned' = Returned \cup {t}
      BY <3>1, <3>2, ReturnedAppend
    <3>4. TypeOf(buffer) # "string"
      <4>1. \A s \in DOMAIN Specials : Specials[s] # "string"
        BY SpecialTypes
      <4>2. QED
        BY <4>1 DEF TypeOf
    <3>5. WholeString(t)
      BY <3>4 DEF WholeString, Token
    <3>6. \A u : WholeString(u)' <=> WholeString(u)
      BY <3>1, StringsSame
    <3>7. QED
      BY <3>1, <3>3, <3>5, <3>6 DEF StringInv
  <2>3. QED
    BY <2>1, <2>2
<1>6. CASE CommentChar
  BY <1>6, NoStringStep DEF CommentChar
<1>7. CASE EndComment
  BY <1>7, NoStringStep DEF EndComment
<1>8. CASE StringChar
  <2>1. /\ UNCHANGED <<text, tokens, start, mode>> /\ mode = "string" /\ pos' = pos + 1
        /\ text[pos + 1] \notin {QUOTE, BACKSLASH}
    BY <1>8 DEF StringChar, Char, Advance
  <2>2. Settled(f, pos + 1)
    BY <1>a, <2>1, SettledBehind
  <2>3. Unclosed(f, pos + 1)
    BY <1>a, <2>1, UnclosedNext DEF Closes
  <2>4. QED
    BY <1>a, <2>1, <2>2, <2>3, StringStep
<1>9. CASE Escape
  <2>1. /\ UNCHANGED <<text, tokens, start, mode>> /\ mode = "string" /\ pos' = pos + 2
        /\ text[pos + 1] = BACKSLASH
    BY <1>9 DEF Escape, Char, Advance
  <2>2. Unclosed(f, pos + 1)
    BY <1>a, <2>1, UnclosedNext DEF Closes, QUOTE, BACKSLASH
  <2>3. ~Settled(f, pos + 1)
    BY <1>a, <2>1, UnsettledBackslash
  <2>4. ~Closes(f, pos + 2)
    <3>1. PICK q \in Nat : q = pos + 2
      OBVIOUS
    <3>2. Closes(f, q) => Settled(f, q - 1)
      BY <1>a, <2>1, ClosesIsSettled
    <3>3. q - 1 = pos + 1
      BY <3>1
    <3>4. QED
      BY <2>3, <3>1, <3>2, <3>3
  <2>5. Unclosed(f, pos + 2)
    <3>1. PICK p \in Nat : p = pos + 1
      OBVIOUS
    <3>2. p + 1 = pos + 2
      BY <3>1
    <3>3. Unclosed(f, p) /\ ~Closes(f, p + 1)
      BY <2>2, <2>4, <3>1, <3>2
    <3>4. Unclosed(f, p + 1)
      BY <1>a, <2>1, <3>3, UnclosedNext
    <3>5. QED
      BY <3>2, <3>4
  <2>6. Settled(f, pos + 2)
    <3>1. CASE text[pos + 2] = BACKSLASH
      BY <1>a, <2>1, <3>1, SettledTwice
    <3>2. CASE text[pos + 2] # BACKSLASH
      <4>1. pos + 2 \in Nat /\ f <= pos + 2
        BY <1>a, <2>1
      <4>2. QED
        BY <1>a, <2>1, <3>2, <4>1, SettledBehind
    <3>3. QED
      BY <3>1, <3>2
  <2>7. QED
    BY <1>a, <2>1, <2>5, <2>6, StringStep
<1>10. CASE EndString
  <2> DEFINE t == Token("string", buffer, pos + 1)
  <2>1. /\ UNCHANGED text /\ mode = "string" /\ mode' = "between" /\ pos + 1 <= Len(text)
        /\ text[pos + 1] = QUOTE /\ SpaceAt(pos + 2) /\ tokens' = Append(tokens, t)
    BY <1>10 DEF EndString, More, Char
  <2>2. t \in TokenType
    BY TokenHasType DEF TokenTypes
  <2>3. Returned' = Returned \cup {t}
    BY <2>1, <2>2, ReturnedAppend
  <2>4. Closes(f, pos + 1)
    <3>1. pos + 1 \in Nat /\ (pos + 1) - 1 = pos /\ (pos + 1) + 1 = pos + 2 /\ f < pos + 1
      BY <1>a, <2>1
    <3>2. QED
      BY <1>a, <2>1, <3>1, ClosesIsSettled
  <2>5. t.from = f /\ t.to = pos + 1
    BY DEF Token
  <2>6. \A j \in f + 1..(pos + 1) - 1 : ~Closes(f, j)
    BY <1>a, <2>1 DEF Unclosed
  <2>7. WholeString(t)
    BY <1>a, <2>1, <2>4, <2>5, <2>6 DEF WholeString
  <2>8. \A u : WholeString(u)' <=> WholeString(u)
    BY <2>1, StringsSame
  <2>9. QED
    BY <2>1, <2>3, <2>7, <2>8 DEF StringInv
<1>11. CASE InnerQuote
  <2>1. /\ UNCHANGED <<text, tokens, start, mode>> /\ mode = "string" /\ pos' = pos + 1
        /\ text[pos + 1] = QUOTE /\ ~SpaceAt(pos + 2)
    BY <1>11 DEF InnerQuote, Char, Advance
  <2>2. Settled(f, pos + 1)
    BY <1>a, <2>1, SettledBehind DEF QUOTE, BACKSLASH
  <2>3. Unclosed(f, pos + 1)
    <3>1. (pos + 1) + 1 = pos + 2
      OBVIOUS
    <3>2. QED
      BY <1>a, <2>1, <3>1, UnclosedNext DEF Closes
  <2>4. QED
    BY <1>a, <2>1, <2>2, <2>3, StringStep
<1>12. CASE Unterminated
  <2>1. /\ UNCHANGED <<text, tokens, start>> /\ mode = "string" /\ mode' = "failed"
        /\ pos = Len(text) \/ (pos + 1 = Len(text) /\ text[pos + 1] = BACKSLASH)
    BY <1>12 DEF Unterminated, More, Char
  <2>2. Unclosed(f, Len(text))
    <3>1. CASE pos = Len(text)
      BY <1>a, <2>1, <3>1
    <3>2. CASE pos + 1 = Len(text) /\ text[pos + 1] = BACKSLASH
      BY <1>a, <2>1, <3>2, UnclosedNext DEF Closes, QUOTE, BACKSLASH
    <3>3. QED
      BY <2>1, <3>1, <3>2
  <2>3. Returned' = Returned
    BY <2>1, ReturnedSame
  <2>4. \A t : WholeString(t)' <=> WholeString(t)
    BY <2>1, StringsSame
  <2>5. Unclosed(start.from, Len(text))' /\ (text[start.from])' = QUOTE
    BY <1>a, <2>1, <2>2 DEF Unclosed, Closes, SpaceAt
  <2>6. QED
    BY <2>1, <2>3, <2>4, <2>5 DEF StringInv
<1>13. CASE UNCHANGED vars
  <2>1. UNCHANGED <<text, tokens, pos, mode, start>>
    BY <1>13 DEF vars
  <2>2. Returned' = Returned
    BY <2>1, ReturnedSame
  <2>3. QED
    BY <2>1, <2>2 DEF StringInv, WholeString, Settled, Unclosed, Closes, SpaceBefore, SpaceAt
<1>14. QED
  BY <1>1, <1>2, <1>3, <1>4, <1>5, <1>6, <1>7, <1>8, <1>9, <1>10, <1>11, <1>12, <1>13 DEF Next

(* Of every file, a string ends at the first quote that a space or the     *)
(* end of the file follows and that is not escaped, however many           *)
(* backslashes there are; the stream fails only where there is no such     *)
(* quote (tokens.c, read_string).                                          *)
THEOREM StringsAreWhole == Spec => []StringsWhole
<1>1. StringInv => StringsWhole
  <2> SUFFICES ASSUME StringInv PROVE StringsWhole
    OBVIOUS
  <2>1. \A t \in Returned : WholeString(t)
    BY DEF StringInv
  <2>2. mode = "failed" => text[start.from] = QUOTE /\ Unclosed(start.from, Len(text))
    BY DEF StringInv
  <2>3. QED
    BY <2>1, <2>2 DEF StringsWhole, WholeString, Unclosed
<1>2. QED
  BY InitType, NextType, InitWords, NextWords, InitStrings, NextStrings, <1>1, PTL DEF Spec

-----------------------------------------------------------------------------
(* Where the tokens are. *)

(* The tokens returned lie one behind the other in what has been read, and *)
(* no word is empty.                                                       *)
PlaceInv ==
  /\ mode \in {"word", "comment", "string", "failed"} => start.from \in 1..pos + 1
  /\ mode = "string" => start.from <= pos
  /\ mode = "word" => start.from <= pos \/ ~SpaceAt(pos + 1)
  /\ \A i \in 1..Len(tokens) :
       /\ tokens[i].from <= tokens[i].to /\ tokens[i].to <= Finished
       /\ 1 <= tokens[i].from
       /\ i > 1 => tokens[i - 1].to < tokens[i].from

LEMMA TokensTyped ==
  ASSUME TypeOK
  PROVE  /\ tokens \in Seq(TokenType) /\ Len(tokens) \in Nat
         /\ \A i \in 1..Len(tokens) :
              tokens[i] \in TokenType /\ tokens[i].from \in Nat /\ tokens[i].to \in Nat
<1>1. tokens \in Seq(TokenType)
  BY DEF TypeOK, TokenType
<1>2. \A i \in 1..Len(tokens) : tokens[i] \in TokenType
  BY <1>1, ElementOfSeq
<1>3. QED
  BY <1>1, <1>2, LenProperties DEF TokenType

(* A step that returns no token. *)
LEMMA QuietPlaces ==
  ASSUME TypeOK, PlaceInv, UNCHANGED <<text, tokens>>, Finished \in Nat, Finished' \in Nat,
         Finished <= Finished',
         mode' \in {"word", "comment", "string", "failed"} => start.from' \in 1..pos' + 1,
         mode' = "string" => start.from' <= pos',
         mode' = "word" => start.from' <= pos' \/ ~SpaceAt(pos' + 1)
  PROVE  PlaceInv'
<1>1. ASSUME NEW i \in 1..Len(tokens)
      PROVE  tokens[i].to <= Finished'
  <2>1. tokens[i].to \in Nat /\ tokens[i].to <= Finished
    BY <1>1, TokensTyped DEF PlaceInv
  <2>2. QED
    BY <2>1
<1>2. (mode = "word" => start.from <= pos \/ ~SpaceAt(pos + 1))'
  BY DEF SpaceAt
<1>3. QED
  BY <1>1, <1>2 DEF PlaceInv

(* A step that returns the token from..to, and goes on behind it. *)
LEMMA AppendPlaces ==
  ASSUME TypeOK, PlaceInv, UNCHANGED text,
         NEW t \in TokenType, tokens' = Append(tokens, t),
         t.from >= 1, Finished < t.from, t.from <= t.to, t.to = pos', Finished \in Nat,
         mode' = "between"
  PROVE  PlaceInv'
<1>1. /\ Len(tokens') = Len(tokens) + 1 /\ Len(tokens) \in Nat
      /\ \A i \in 1..Len(tokens) : tokens'[i] = tokens[i]
      /\ tokens'[Len(tokens) + 1] = t
  BY TokensTyped, AppendProperties
<1>2. Finished' = t.to /\ t.from \in Nat /\ t.to \in Nat
  BY DEF Finished, TokenType
<1>3. ASSUME NEW i \in 1..Len(tokens')
      PROVE  /\ tokens'[i].from <= tokens'[i].to /\ tokens'[i].to <= Finished'
             /\ 1 <= tokens'[i].from
             /\ i > 1 => tokens'[i - 1].to < tokens'[i].from
  <2>1. CASE i \in 1..Len(tokens)
    <3>1. tokens'[i] = tokens[i] /\ (i > 1 => tokens'[i - 1] = tokens[i - 1])
      BY <1>1, <2>1
    <3>2. tokens[i].to \in Nat /\ tokens[i].to <= Finished
      BY <2>1, TokensTyped DEF PlaceInv
    <3>3. tokens[i].to <= Finished'
      BY <1>2, <3>2
    <3>4. QED
      BY <2>1, <3>1, <3>3 DEF PlaceInv
  <2>2. CASE i = Len(tokens) + 1
    <3>1. tokens'[i] = t
      BY <1>1, <2>2
    <3>2. ASSUME i > 1 PROVE tokens'[i - 1].to < t.from
      <4>1. i - 1 \in 1..Len(tokens)
        BY <1>1, <2>2, <3>2
      <4>2. tokens'[i - 1] = tokens[i - 1]
        BY <1>1, <4>1
      <4>3. tokens[i - 1].to \in Nat /\ tokens[i - 1].to <= Finished
        BY <4>1, TokensTyped DEF PlaceInv
      <4>4. QED
        BY <1>2, <4>2, <4>3
    <3>3. QED
      BY <1>2, <3>1, <3>2
  <2>3. QED
    BY <1>1, <2>1, <2>2
<1>4. QED
  BY <1>3 DEF PlaceInv

LEMMA InitPlaces == Init => PlaceInv
<1> SUFFICES ASSUME Init PROVE PlaceInv
  OBVIOUS
<1>1. mode = "between" /\ Len(tokens) = 0
  BY EmptySeq DEF Init
<1>2. QED
  BY <1>1 DEF PlaceInv

LEMMA NextPlaces == TypeOK /\ PlaceInv /\ [Next]_vars => PlaceInv'
<1> SUFFICES ASSUME TypeOK, PlaceInv, [Next]_vars PROVE PlaceInv'
  OBVIOUS
<1> /\ pos \in 0..Len(text) /\ Len(text) \in Nat /\ pos \in Nat
    /\ start.from \in Nat \ {0}
  BY LenProperties DEF TypeOK
<1> Finished \in Nat
  BY DEF Finished
<1>1. CASE SkipSpace
  <2>1. mode = "between" /\ mode' = "between" /\ pos' = pos + 1 /\ UNCHANGED <<text, tokens>>
    BY <1>1 DEF SkipSpace, Advance
  <2>2. QED
    BY <2>1, QuietPlaces DEF Finished
<1>2. CASE EndOfFile
  <2>1. mode = "between" /\ mode' = "end" /\ UNCHANGED <<text, tokens, pos>>
    BY <1>2 DEF EndOfFile
  <2>2. QED
    BY <2>1, QuietPlaces DEF Finished
<1>3. CASE Begin
  <2>1. /\ mode = "between" /\ mode' \in {"word", "string"} /\ start'.from = pos + 1
        /\ UNCHANGED <<text, tokens>> /\ pos < Len(text) /\ text[pos + 1] \notin Space
        /\ pos' = IF mode' = "string" THEN pos + 1 ELSE pos
    BY <1>3 DEF Begin, Advance, More, Char
  <2>2. Finished' = Finished
    BY <2>1 DEF Finished
  <2>3. ~SpaceAt(pos + 1)
    BY <2>1 DEF SpaceAt
  <2>4. QED
    BY <2>1, <2>2, <2>3, QuietPlaces
<1>4. CASE WordChar
  <2>1. mode = "word" /\ mode' = "word" /\ pos' = pos + 1 /\ UNCHANGED <<text, tokens, start>>
    BY <1>4 DEF WordChar, Advance
  <2>2. start.from \in 1..pos + 1 /\ Finished' = Finished
    BY <2>1 DEF PlaceInv, Finished
  <2>3. QED
    BY <2>1, <2>2, QuietPlaces
<1>5. CASE EndWord
  <2>1. mode = "word" /\ SpaceAt(pos + 1) /\ UNCHANGED <<text, pos, start>>
    BY <1>5 DEF EndWord
  <2>2. CASE buffer = <<"-", "-">>
    <3>1. mode' = "comment" /\ UNCHANGED tokens
      BY <1>5, <2>2 DEF EndWord
    <3>2. start.from \in 1..pos + 1 /\ Finished' = Finished
      BY <2>1, <3>1 DEF PlaceInv, Finished
    <3>3. QED
      BY <2>1, <3>1, <3>2, QuietPlaces
  <2>3. CASE buffer # <<"-", "-">>
    <3> DEFINE t == Token(TypeOf(buffer), buffer, pos)
    <3>1. mode' = "between" /\ tokens' = Append(tokens, t)
      BY <1>5, <2>3 DEF EndWord
    <3>2. t \in TokenType
      BY TypeOfType, TokenHasType
    <3>3. t.from = start.from /\ t.to = pos
      BY DEF Token
    <3>4. start.from <= pos /\ Finished = start.from - 1
      BY <2>1 DEF PlaceInv, Finished
    <3>5. QED
      BY <2>1, <3>1, <3>2, <3>3, <3>4, AppendPlaces
  <2>4. QED
    BY <2>2, <2>3
<1>6. CASE CommentChar
  <2>1. /\ mode = "comment" /\ mode' \in {"comment", "between"} /\ pos' = pos + 1
        /\ UNCHANGED <<text, tokens, start>>
    BY <1>6 DEF CommentChar, Advance
  <2>2. start.from \in 1..pos + 1 /\ Finished <= Finished' /\ Finished' \in Nat
    BY <2>1 DEF PlaceInv, Finished
  <2>3. QED
    BY <2>1, <2>2, QuietPlaces
<1>7. CASE EndComment
  <2>1. /\ mode = "comment" /\ mode' = "between" /\ UNCHANGED <<text, tokens, pos>>
    BY <1>7 DEF EndComment
  <2>2. Finished <= Finished' /\ Finished' \in Nat
    BY <2>1 DEF PlaceInv, Finished
  <2>3. QED
    BY <2>1, <2>2, QuietPlaces
<1>8. CASE StringChar
  <2>1. /\ mode = "string" /\ mode' = "string" /\ pos' = pos + 1
        /\ UNCHANGED <<text, tokens, start>>
    BY <1>8 DEF StringChar, Advance
  <2>2. start.from \in 1..pos + 1 /\ start.from <= pos /\ Finished' = Finished
    BY <2>1 DEF PlaceInv, Finished
  <2>3. QED
    BY <2>1, <2>2, QuietPlaces
<1>9. CASE Escape
  <2>1. /\ mode = "string" /\ mode' = "string" /\ pos' = pos + 2
        /\ UNCHANGED <<text, tokens, start>>
    BY <1>9 DEF Escape, Advance
  <2>2. start.from \in 1..pos + 1 /\ start.from <= pos /\ Finished' = Finished
    BY <2>1 DEF PlaceInv, Finished
  <2>3. QED
    BY <2>1, <2>2, QuietPlaces
<1>10. CASE EndString
  <2> DEFINE t == Token("string", buffer, pos + 1)
  <2>1. /\ UNCHANGED text /\ mode = "string" /\ mode' = "between" /\ pos' = pos + 1
        /\ tokens' = Append(tokens, t)
    BY <1>10 DEF EndString, Advance
  <2>2. t \in TokenType
    BY TokenHasType DEF TokenTypes
  <2>3. t.from = start.from /\ t.to = pos + 1
    BY DEF Token
  <2>4. start.from <= pos /\ Finished = start.from - 1
    BY <2>1 DEF PlaceInv, Finished
  <2>5. QED
    BY <2>1, <2>2, <2>3, <2>4, AppendPlaces
<1>11. CASE InnerQuote
  <2>1. /\ mode = "string" /\ mode' = "string" /\ pos' = pos + 1
        /\ UNCHANGED <<text, tokens, start>>
    BY <1>11 DEF InnerQuote, Advance
  <2>2. start.from \in 1..pos + 1 /\ start.from <= pos /\ Finished' = Finished
    BY <2>1 DEF PlaceInv, Finished
  <2>3. QED
    BY <2>1, <2>2, QuietPlaces
<1>12. CASE Unterminated
  <2>1. /\ mode = "string" /\ mode' = "failed" /\ pos' = Len(text)
        /\ UNCHANGED <<text, tokens, start>>
    BY <1>12 DEF Unterminated
  <2>2. start.from \in 1..pos + 1 /\ start.from <= pos /\ Finished' = Finished
    BY <2>1 DEF PlaceInv, Finished
  <2>3. QED
    BY <2>1, <2>2, QuietPlaces
<1>13. CASE UNCHANGED vars
  BY <1>13 DEF vars, PlaceInv, Finished, SpaceAt
<1>14. QED
  BY <1>1, <1>2, <1>3, <1>4, <1>5, <1>6, <1>7, <1>8, <1>9, <1>10, <1>11, <1>12, <1>13 DEF Next

-----------------------------------------------------------------------------
(* Nothing is lost. *)

(* A -- that is a word of its own, in front of which no token is open.     *)
Opens(q) ==
  /\ q + 1 <= Len(text) /\ SubSeq(text, q, q + 1) = <<"-", "-">>
  /\ SpaceBefore(q) /\ SpaceAt(q + 2)
  /\ \A t \in Returned : ~In(q, t)

Unbroken(q, i) == \A k \in q..i : text[k] # NL

Covered(i) == text[i] \in Space \/ Commented(i) \/ \E t \in Returned : In(i, t)

(* The inductive invariant: where a token begins, no comment is open, and  *)
(* what is skipped as a comment is one.                                    *)
LossInv ==
  /\ \A i \in 1..Finished : Covered(i)
  /\ \A t \in Returned : ~Commented(t.from)
  /\ mode = "between" => pos = Len(text) \/ ~Commented(pos)
  /\ mode \in {"word", "string"} => ~Commented(start.from - 1)
  /\ mode = "comment" => Opens(start.from) /\ Unbroken(start.from, pos)

LEMMA CommentedOpens ==
  ASSUME NEW i
  PROVE  Commented(i) <=> \E q \in 1..i : Opens(q) /\ Unbroken(q, i)
BY DEF Commented, Opens, Unbroken

LEMMA ReturnedBefore ==
  ASSUME TypeOK, PlaceInv, NEW t \in Returned
  PROVE  t.from \in Nat /\ t.to \in Nat /\ 1 <= t.from /\ t.from <= t.to /\ t.to <= Finished
<1>1. PICK i \in 1..Len(tokens) : t = tokens[i]
  BY DEF Returned
<1>2. QED
  BY <1>1, TokensTyped DEF PlaceInv

LEMMA CommentsSame ==
  ASSUME UNCHANGED <<text, tokens>>
  PROVE  /\ \A i : Commented(i)' <=> Commented(i)
         /\ \A i : Covered(i)' <=> Covered(i)
         /\ \A i : Opens(i)' <=> Opens(i)
         /\ \A i, j : Unbroken(i, j)' <=> Unbroken(i, j)
         /\ Returned' = Returned
BY DEF Commented, Covered, Opens, Unbroken, Returned, SpaceBefore, SpaceAt

(* One more token closes no comment in front of it and opens none.         *)
LEMMA CommentsAppend ==
  ASSUME UNCHANGED text, NEW t, Returned' = Returned \cup {t}, t.from \in Nat
  PROVE  /\ \A i \in Nat : i < t.from => (Commented(i)' <=> Commented(i))
         /\ \A i \in Nat : Commented(i)' => Commented(i)
<1>1. ASSUME NEW q PROVE Opens(q)' <=> Opens(q) /\ ~In(q, t)
  BY DEF Opens, SpaceBefore, SpaceAt, In
<1>2. ASSUME NEW q, NEW i PROVE Unbroken(q, i)' <=> Unbroken(q, i)
  BY DEF Unbroken
<1>3. ASSUME NEW i PROVE Commented(i)' <=> \E q \in 1..i : Opens(q)' /\ Unbroken(q, i)'
  BY DEF Commented, Opens, Unbroken
<1>4. ASSUME NEW i \in Nat, Commented(i)' PROVE Commented(i)
  BY <1>1, <1>2, <1>3, <1>4, CommentedOpens
<1>5. ASSUME NEW i \in Nat, i < t.from, Commented(i) PROVE Commented(i)'
  <2>1. PICK q \in 1..i : Opens(q) /\ Unbroken(q, i)
    BY <1>5, CommentedOpens
  <2>2. ~In(q, t)
    BY <1>5, <2>1 DEF In
  <2>3. QED
    BY <1>1, <1>2, <1>3, <2>1, <2>2
<1>6. QED
  BY <1>4, <1>5

(* A step that returns a token, behind which the stream goes on.           *)
LEMMA AppendLoses ==
  ASSUME TypeOK, PlaceInv, LossInv, UNCHANGED text,
         NEW t \in TokenType, tokens' = Append(tokens, t),
         mode \in {"word", "string"}, mode' = "between",
         t.from = start.from, t.from >= 1, t.from <= t.to, t.to = pos'
  PROVE  LossInv'
<1>1. Returned' = Returned \cup {t}
  BY ReturnedAppend
<1>2. t.from \in Nat /\ t.to \in Nat
  BY DEF TokenType
<1>3. Finished = t.from - 1 /\ Finished' = t.to
  BY DEF Finished
<1>4. /\ \A i \in Nat : i < t.from => (Commented(i)' <=> Commented(i))
      /\ \A i \in Nat : Commented(i)' => Commented(i)
  BY <1>1, <1>2, CommentsAppend
<1>5. ASSUME NEW i \in t.from..t.to PROVE ~Commented(i)'
  <2>1. SUFFICES ASSUME Commented(i)' PROVE FALSE
    OBVIOUS
  <2>2. PICK q \in 1..i : Opens(q)' /\ Unbroken(q, i)'
    BY <2>1 DEF Commented, Opens, Unbroken
  <2>3. ~In(q, t)
    BY <1>1, <2>2 DEF Opens, In
  <2>4. q \in 1..t.from - 1
    BY <1>2, <2>3 DEF In
  <2>5. Opens(q)
    BY <1>1, <2>2 DEF Opens, SpaceBefore, SpaceAt, In
  <2>6. Unbroken(q, t.from - 1)
    BY <1>2, <2>2, <2>4 DEF Unbroken
  <2>7. Commented(t.from - 1)
    BY <2>4, <2>5, <2>6, CommentedOpens
  <2>8. QED
    BY <2>7 DEF LossInv
<1>6. ASSUME NEW i \in 1..Finished' PROVE Covered(i)'
  <2>1. CASE i < t.from
    <3>1. Covered(i) /\ i \in Nat
      BY <1>2, <1>3, <2>1 DEF LossInv
    <3>2. QED
      BY <1>1, <1>4, <2>1, <3>1 DEF Covered, In
  <2>2. CASE i >= t.from
    <3>1. In(i, t)
      BY <1>2, <1>3, <2>2 DEF In
    <3>2. QED
      BY <1>1, <3>1 DEF Covered, In
  <2>3. QED
    BY <1>2, <1>3, <2>1, <2>2
<1>7. ASSUME NEW u \in Returned' PROVE ~Commented(u.from)'
  <2>1. CASE u \in Returned
    <3>1. u.from \in Nat /\ ~Commented(u.from)
      BY <2>1, ReturnedBefore DEF LossInv
    <3>2. QED
      BY <1>4, <3>1
  <2>2. CASE u = t
    BY <1>2, <1>5, <2>2
  <2>3. QED
    BY <1>1, <2>1, <2>2
<1>8. ~Commented(pos)'
  <2>1. t.to \in t.from..t.to
    BY <1>2
  <2>2. ~Commented(t.to)'
    BY <1>5, <2>1
  <2>3. QED
    BY <2>2 DEF Commented, SpaceBefore, SpaceAt, In, Returned
<1>9. (\A u \in Returned : ~Commented(u.from))'
  BY <1>7
<1>10. QED
  BY <1>6, <1>8, <1>9 DEF LossInv

(* A step that leaves the stream inside a token. *)
LEMMA InsideLoses ==
  ASSUME TypeOK, LossInv, UNCHANGED <<text, tokens>>, Finished' = Finished, Finished \in Nat,
         mode' \in {"word", "string", "failed"},
         mode' \in {"word", "string"} => ~Commented(start.from' - 1)
  PROVE  LossInv'
<1>1. /\ \A i : Commented(i)' <=> Commented(i)
      /\ \A i : Covered(i)' <=> Covered(i)
      /\ Returned' = Returned
  BY CommentsSame
<1>2. (\A i \in 1..Finished : Covered(i))'
  BY <1>1 DEF LossInv
<1>3. (\A t \in Returned : ~Commented(t.from))'
  BY <1>1 DEF LossInv
<1>4. (mode \in {"word", "string"} => ~Commented(start.from - 1))'
  BY <1>1 DEF Commented, SpaceBefore, SpaceAt, In, Returned
<1>5. QED
  BY <1>2, <1>3, <1>4 DEF LossInv

(* A step that goes on between tokens, behind a comment or a space.        *)
LEMMA BetweenLoses ==
  ASSUME TypeOK, LossInv, UNCHANGED <<text, tokens>>, pos' \in Nat,
         mode' \in {"between", "end"},
         mode' = "between" => pos' = Len(text) \/ ~Commented(pos'),
         \A i \in 1..pos' : Covered(i)
  PROVE  LossInv'
<1>1. /\ \A i : Commented(i)' <=> Commented(i)
      /\ \A i : Covered(i)' <=> Covered(i)
      /\ Returned' = Returned
  BY CommentsSame
<1>2. (\A i \in 1..Finished : Covered(i))'
  BY <1>1 DEF Finished
<1>3. (\A t \in Returned : ~Commented(t.from))'
  BY <1>1 DEF LossInv
<1>4. (mode = "between" => pos = Len(text) \/ ~Commented(pos))'
  BY DEF Commented, SpaceBefore, SpaceAt, In, Returned
<1>5. QED
  BY <1>2, <1>3, <1>4 DEF LossInv

(* A -- does not begin with a space. *)
LEMMA OpensHyphen ==
  ASSUME TypeOK, NEW q \in Nat \ {0}, Opens(q)
  PROVE  text[q] \notin Space
<1>1. q \in 1..Len(text) /\ q + 1 \in 1..Len(text) /\ Len(text) \in Nat
  BY LenProperties DEF TypeOK, Opens
<1>2. \A i \in q..q + 1 : text[i] \in STRING
  BY <1>1, ElementOfSeq DEF TypeOK
<1>3. SubSeq(text, q, q + 1)[1] = text[q + 1 - 1]
  BY <1>1, <1>2, SubSeqProperties
<1>4. text[q] = "-"
  <2>1. q + 1 - 1 = q
    OBVIOUS
  <2>2. SubSeq(text, q, q + 1) = <<"-", "-">>
    BY DEF Opens
  <2>3. SubSeq(text, q, q + 1)[1] = "-"
    <3>1. ASSUME NEW s, NEW a, s = <<a, a>> PROVE s[1] = a
      BY <3>1
    <3>2. QED
      BY <2>2, <3>1
  <2>4. QED
    BY <1>3, <2>1, <2>3
<1>5. QED
  BY <1>4 DEF Space, SP, NL

LEMMA InitLoses == Init => LossInv
<1> SUFFICES ASSUME Init PROVE LossInv
  OBVIOUS
<1>1. mode = "between" /\ Len(tokens) = 0 /\ pos = 0
  BY EmptySeq DEF Init
<1>2. Returned = {} /\ Finished = 0
  BY <1>1 DEF Returned, Finished
<1>3. ~Commented(0)
  BY DEF Commented
<1>4. QED
  BY <1>1, <1>2, <1>3 DEF LossInv

LEMMA NextLoses == TypeOK /\ WordInv /\ PlaceInv /\ LossInv /\ [Next]_vars => LossInv'
<1> SUFFICES ASSUME TypeOK, WordInv, PlaceInv, LossInv, [Next]_vars PROVE LossInv'
  OBVIOUS
<1> /\ text \in Seq(STRING) /\ pos \in 0..Len(text) /\ Len(text) \in Nat /\ pos \in Nat
    /\ start.from \in Nat \ {0}
  BY LenProperties DEF TypeOK
<1> Finished \in Nat
  BY DEF Finished
<1> DEFINE f == start.from
<1>1. CASE SkipSpace
  <2>1. /\ mode = "between" /\ mode' = "between" /\ pos' = pos + 1 /\ UNCHANGED <<text, tokens>>
        /\ pos + 1 <= Len(text) /\ text[pos + 1] \in Space
    BY <1>1 DEF SkipSpace, Advance, More, Char
  <2>2. ~Commented(pos)
    BY <2>1 DEF LossInv
  <2>3. ~Commented(pos + 1)
    <3>1. SUFFICES ASSUME Commented(pos + 1) PROVE FALSE
      OBVIOUS
    <3>2. PICK q \in 1..pos + 1 : Opens(q) /\ Unbroken(q, pos + 1)
      BY <3>1, CommentedOpens
    <3>3. q # pos + 1
      BY <2>1, <3>2, OpensHyphen
    <3>4. q \in 1..pos /\ Unbroken(q, pos)
      BY <3>2, <3>3 DEF Unbroken
    <3>5. QED
      BY <2>2, <3>2, <3>4, CommentedOpens
  <2>4. ASSUME NEW i \in 1..pos + 1 PROVE Covered(i)
    <3>1. CASE i = pos + 1
      BY <2>1, <3>1 DEF Covered
    <3>2. CASE i # pos + 1
      BY <2>1, <3>2 DEF LossInv, Finished
    <3>3. QED
      BY <3>1, <3>2
  <2>5. QED
    BY <2>1, <2>3, <2>4, BetweenLoses
<1>2. CASE EndOfFile
  <2>1. mode = "between" /\ mode' = "end" /\ UNCHANGED <<text, tokens, pos>>
    BY <1>2 DEF EndOfFile
  <2>2. \A i \in 1..pos : Covered(i)
    BY <2>1 DEF LossInv, Finished
  <2>3. QED
    BY <2>1, <2>2, BetweenLoses
<1>3. CASE Begin
  <2>1. /\ mode = "between" /\ mode' \in {"word", "string"} /\ start'.from = pos + 1
        /\ UNCHANGED <<text, tokens>> /\ pos < Len(text)
    BY <1>3 DEF Begin, Advance, More
  <2>2. Finished' = Finished
    BY <2>1 DEF Finished
  <2>3. ~Commented(start.from' - 1)
    BY <2>1 DEF LossInv
  <2>4. QED
    BY <2>1, <2>2, <2>3, InsideLoses
<1>4. CASE WordChar
  <2>1. mode = "word" /\ UNCHANGED <<text, tokens, start, mode>>
    BY <1>4 DEF WordChar
  <2>2. Finished' = Finished /\ ~Commented(f - 1)
    BY <2>1 DEF LossInv, Finished
  <2>3. QED
    BY <2>1, <2>2, InsideLoses
<1>5. CASE EndWord
  <2>1. mode = "word" /\ SpaceAt(pos + 1) /\ UNCHANGED <<text, pos, start>>
    BY <1>5 DEF EndWord
  <2>2. f <= pos /\ Finished = f - 1
    BY <2>1 DEF PlaceInv, Finished
  <2>3. CASE buffer = <<"-", "-">>
    <3>1. mode' = "comment" /\ UNCHANGED tokens
      BY <1>5, <2>3 DEF EndWord
    <3>2. SpaceBefore(f) /\ Spaceless(f, pos) /\ buffer = Prefix(f, pos)
      BY <2>1 DEF WordInv
    <3>3. MaxWord \in Nat /\ MaxWord > 2
      BY TokensAssumption
    <3>4. pos = f + 1 /\ SubSeq(text, f, f + 1) = <<"-", "-">>
      <4> DEFINE last == IF pos - f + 1 <= MaxWord THEN pos ELSE f + MaxWord - 1
      <4>1. last \in f..pos
        BY <2>2, <3>3
      <4>2. \A i \in f..last : text[i] \in STRING
        BY <4>1, ElementOfSeq
      <4>3. Len(SubSeq(text, f, last)) = last - f + 1
        <5>1. last \in Int /\ f \in Int /\ f <= last
          BY <4>1
        <5>2. Len(SubSeq(text, f, last)) = IF f <= last THEN last - f + 1 ELSE 0
          BY <4>2, <5>1, SubSeqProperties
        <5>3. QED
          BY <5>1, <5>2
      <4>4. SubSeq(text, f, last) = <<"-", "-">>
        BY <2>3, <3>2 DEF Prefix
      <4>5. last - f + 1 = 2
        BY <4>3, <4>4
      <4>6. last = pos /\ pos = f + 1
        BY <3>3, <4>5
      <4>7. QED
        BY <4>4, <4>6
    <3>5. SpaceAt(f + 2)
      <4>1. f + 2 = pos + 1
        BY <3>4
      <4>2. QED
        BY <2>1, <4>1
    <3>6. \A t \in Returned : ~In(f, t)
      BY <2>2, ReturnedBefore DEF In
    <3>7. Opens(f)
      BY <3>2, <3>4, <3>5, <3>6 DEF Opens
    <3>8. Unbroken(f, pos)
      BY <3>2 DEF Spaceless, Unbroken, Space
    <3>9. Opens(start.from)' /\ Unbroken(start.from, pos)'
      BY <2>1, <3>1, <3>7, <3>8 DEF Opens, Unbroken, SpaceBefore, SpaceAt, Returned, In
    <3>10. Finished' = Finished
      BY <2>1, <2>2, <3>1 DEF Finished
    <3>11. /\ \A i : Commented(i)' <=> Commented(i)
           /\ \A i : Covered(i)' <=> Covered(i)
           /\ Returned' = Returned
      BY <2>1, <3>1, CommentsSame
    <3>12. QED
      BY <3>1, <3>9, <3>10, <3>11 DEF LossInv
  <2>4. CASE buffer # <<"-", "-">>
    <3> DEFINE t == Token(TypeOf(buffer), buffer, pos)
    <3>1. mode' = "between" /\ tokens' = Append(tokens, t)
      BY <1>5, <2>4 DEF EndWord
    <3>2. t \in TokenType
      BY TypeOfType, TokenHasType
    <3>3. t.from = f /\ t.to = pos
      BY DEF Token
    <3>4. QED
      BY <2>1, <2>2, <3>1, <3>2, <3>3, AppendLoses
  <2>5. QED
    BY <2>3, <2>4
<1>6. CASE CommentChar
  <2>1. /\ mode = "comment" /\ pos' = pos + 1 /\ UNCHANGED <<text, tokens, start>>
        /\ mode' = (IF text[pos + 1] = NL THEN "between" ELSE mode) /\ pos + 1 <= Len(text)
    BY <1>6 DEF CommentChar, Advance, More, Char
  <2>2. Opens(f) /\ Unbroken(f, pos) /\ f \in 1..pos + 1 /\ Finished = f - 1
    BY <2>1 DEF LossInv, PlaceInv, Finished
  <2>3. CASE text[pos + 1] = NL
    <3>1. ~Commented(pos + 1)
      BY <2>3 DEF Commented
    <3>2. ASSUME NEW i \in 1..pos + 1 PROVE Covered(i)
      <4>1. CASE i <= f - 1
        BY <2>2, <4>1 DEF LossInv
      <4>2. CASE i \in f..pos
        <5>1. Unbroken(f, i) /\ f \in 1..i
          BY <2>2, <4>2 DEF Unbroken
        <5>2. QED
          BY <2>2, <5>1, CommentedOpens DEF Covered
      <4>3. CASE i = pos + 1
        BY <2>3, <4>3 DEF Covered, Space
      <4>4. QED
        BY <2>2, <4>1, <4>2, <4>3
    <3>3. QED
      BY <2>1, <2>3, <3>1, <3>2, BetweenLoses
  <2>4. CASE text[pos + 1] # NL
    <3>1. mode' = "comment"
      BY <2>1, <2>4
    <3>2. Unbroken(f, pos + 1)
      <4>1. \A k \in f..pos + 1 : k \in f..pos \/ k = pos + 1
        OBVIOUS
      <4>2. QED
        BY <2>2, <2>4, <4>1 DEF Unbroken
    <3>3. Opens(start.from)' /\ Unbroken(start.from, pos)'
      BY <2>1, <2>2, <3>2 DEF Opens, Unbroken, SpaceBefore, SpaceAt, Returned, In
    <3>4. Finished' = Finished
      BY <2>1, <2>2, <3>1 DEF Finished
    <3>5. /\ \A i : Commented(i)' <=> Commented(i)
          /\ \A i : Covered(i)' <=> Covered(i)
          /\ Returned' = Returned
      BY <2>1, CommentsSame
    <3>6. QED
      BY <3>1, <3>3, <3>4, <3>5 DEF LossInv
  <2>5. QED
    BY <2>3, <2>4
<1>7. CASE EndComment
  <2>1. /\ mode = "comment" /\ mode' = "between" /\ UNCHANGED <<text, tokens, pos>>
        /\ pos = Len(text)
    BY <1>7 DEF EndComment, More
  <2>2. Opens(f) /\ Unbroken(f, pos) /\ f \in 1..pos + 1 /\ Finished = f - 1
    BY <2>1 DEF LossInv, PlaceInv, Finished
  <2>3. ASSUME NEW i \in 1..pos PROVE Covered(i)
    <3>1. CASE i <= f - 1
      BY <2>2, <3>1 DEF LossInv
    <3>2. CASE i \in f..pos
      <4>1. Unbroken(f, i) /\ f \in 1..i
        BY <2>2, <3>2 DEF Unbroken
      <4>2. QED
        BY <2>2, <4>1, CommentedOpens DEF Covered
    <3>3. QED
      BY <2>2, <3>1, <3>2
  <2>4. QED
    BY <2>1, <2>3, BetweenLoses
<1>8. CASE StringChar \/ Escape \/ InnerQuote
  <2>1. mode = "string" /\ UNCHANGED <<text, tokens, start, mode>>
    BY <1>8 DEF StringChar, Escape, InnerQuote
  <2>2. Finished' = Finished /\ ~Commented(f - 1)
    BY <2>1 DEF LossInv, Finished
  <2>3. QED
    BY <2>1, <2>2, InsideLoses
<1>9. CASE EndString
  <2> DEFINE t == Token("string", buffer, pos + 1)
  <2>1. /\ UNCHANGED text /\ mode = "string" /\ mode' = "between" /\ pos' = pos + 1
        /\ tokens' = Append(tokens, t)
    BY <1>9 DEF EndString, Advance
  <2>2. t \in TokenType
    BY TokenHasType DEF TokenTypes
  <2>3. t.from = f /\ t.to = pos + 1
    BY DEF Token
  <2>4. f <= pos
    BY <2>1 DEF PlaceInv
  <2>5. QED
    BY <2>1, <2>2, <2>3, <2>4, AppendLoses
<1>10. CASE Unterminated
  <2>1. mode = "string" /\ mode' = "failed" /\ UNCHANGED <<text, tokens, start>>
    BY <1>10 DEF Unterminated
  <2>2. Finished' = Finished
    BY <2>1 DEF Finished
  <2>3. QED
    BY <2>1, <2>2, InsideLoses
<1>11. CASE UNCHANGED vars
  <2>1. UNCHANGED <<text, tokens, pos, mode, start>>
    BY <1>11 DEF vars
  <2>2. /\ \A i : Commented(i)' <=> Commented(i)
        /\ \A i : Covered(i)' <=> Covered(i)
        /\ Returned' = Returned
    BY <2>1, CommentsSame
  <2>3. Finished' = Finished
    BY <2>1 DEF Finished
  <2>4. (\A i \in 1..Finished : Covered(i))'
    BY <2>2, <2>3 DEF LossInv
  <2>5. (\A t \in Returned : ~Commented(t.from))'
    BY <2>2 DEF LossInv
  <2>6. (mode = "between" => pos = Len(text) \/ ~Commented(pos))'
    BY <2>1, <2>2 DEF LossInv
  <2>7. (mode \in {"word", "string"} => ~Commented(start.from - 1))'
    BY <2>1, <2>2 DEF LossInv
  <2>8. (mode = "comment" => Opens(start.from) /\ Unbroken(start.from, pos))'
    BY <2>1, <2>2 DEF LossInv, Opens, Unbroken, SpaceBefore, SpaceAt
  <2>9. QED
    BY <2>4, <2>5, <2>6, <2>7, <2>8 DEF LossInv
<1>12. QED
  BY <1>1, <1>2, <1>3, <1>4, <1>5, <1>6, <1>7, <1>8, <1>9, <1>10, <1>11 DEF Next

(* Every character that has been read is white space, comment or in a      *)
(* token, tokens do not overlap, and none begins in a comment (tokens.c).  *)
THEOREM NothingIsLost == Spec => []NothingLost
<1>1. TypeOK /\ PlaceInv /\ LossInv => NothingLost
  <2> SUFFICES ASSUME TypeOK, PlaceInv, LossInv PROVE NothingLost
    OBVIOUS
  <2>1. ASSUME NEW i \in 1..Len(tokens) PROVE ~Commented(tokens[i].from)
    BY <2>1 DEF LossInv, Returned
  <2>2. QED
    BY <2>1 DEF NothingLost, LossInv, PlaceInv, Covered
<1>2. QED
  BY InitType, NextType, InitWords, NextWords, InitPlaces, NextPlaces, InitLoses, NextLoses,
     <1>1, PTL DEF Spec

-----------------------------------------------------------------------------
(* Lines. *)

(* The newlines up to n that are in no token. *)
Newlines(n) == {i \in 1..n : text[i] = NL /\ ~\E u \in Returned : In(i, u)}

(* The inductive invariant: the line is counted up to where the stream is, *)
(* or up to where the token that is open began.                            *)
LineInv ==
  /\ mode \in {"between", "comment"} => line = 1 + Cardinality(Newlines(pos))
  /\ mode \in {"word", "string"} =>
       /\ line = 1 + Cardinality(Newlines(start.from - 1)) /\ start.line = line
       /\ text[start.from] # NL
  /\ \A t \in Returned : t.line = 1 + Cardinality(Newlines(t.from))

LEMMA NewlinesFinite ==
  ASSUME NEW n \in Int
  PROVE  IsFiniteSet(Newlines(n)) /\ Cardinality(Newlines(n)) \in Nat
<1>1. IsFiniteSet(1..n)
  BY FS_Interval
<1>2. Newlines(n) \in SUBSET (1..n)
  BY DEF Newlines
<1>3. IsFiniteSet(Newlines(n))
  BY <1>1, <1>2, FS_Subset
<1>4. QED
  BY <1>3, FS_CardinalityType

(* One character further, outside of the tokens. *)
LEMMA NewlinesNext ==
  ASSUME NEW n \in Nat, ~\E u \in Returned : In(n + 1, u)
  PROVE  Cardinality(Newlines(n + 1)) =
           IF text[n + 1] = NL THEN Cardinality(Newlines(n)) + 1 ELSE Cardinality(Newlines(n))
<1>1. IsFiniteSet(Newlines(n))
  BY NewlinesFinite
<1>2. 1..n + 1 = (1..n) \cup {n + 1} /\ n + 1 \notin 1..n
  OBVIOUS
<1>3. CASE text[n + 1] = NL
  <2>1. Newlines(n + 1) = Newlines(n) \cup {n + 1} /\ n + 1 \notin Newlines(n)
    BY <1>2, <1>3 DEF Newlines
  <2>2. QED
    BY <1>1, <1>3, <2>1, FS_AddElement
<1>4. CASE text[n + 1] # NL
  <2>1. Newlines(n + 1) = Newlines(n)
    BY <1>2, <1>4 DEF Newlines
  <2>2. QED
    BY <1>4, <2>1
<1>5. QED
  BY <1>3, <1>4

(* No newline among the characters m + 1..n. *)
LEMMA NewlinesSame ==
  ASSUME NEW m \in Nat, NEW n \in Nat, m <= n,
         \A i \in m + 1..n : text[i] # NL
  PROVE  Newlines(n) = Newlines(m)
<1>1. ASSUME NEW i \in 1..n, text[i] = NL PROVE i \in 1..m
  <2>1. i \in 1..m \/ i \in m + 1..n
    OBVIOUS
  <2>2. QED
    BY <1>1, <2>1
<1>2. 1..m \subseteq 1..n
  OBVIOUS
<1>3. QED
  BY <1>1, <1>2 DEF Newlines

LEMMA NoTokenAhead ==
  ASSUME TypeOK, PlaceInv, NEW n \in Nat, n > Finished, Finished \in Nat
  PROVE  ~\E u \in Returned : In(n, u)
BY ReturnedBefore DEF In

LEMMA LinesSame ==
  ASSUME UNCHANGED <<text, tokens>>
  PROVE  Returned' = Returned /\ \A n : Newlines(n)' = Newlines(n)
BY DEF Newlines, Returned

(* A step that returns no token. *)
LEMMA QuietLines ==
  ASSUME LineInv, UNCHANGED <<text, tokens>>,
         mode' \in {"between", "comment"} => line' = 1 + Cardinality(Newlines(pos')),
         mode' \in {"word", "string"} =>
           /\ line' = 1 + Cardinality(Newlines(start.from' - 1)) /\ start.line' = line'
           /\ text[start.from'] # NL
  PROVE  LineInv'
<1>1. Returned' = Returned /\ \A n : Newlines(n)' = Newlines(n)
  BY LinesSame
<1>2. Newlines(pos)' = Newlines(pos') /\ Newlines(start.from - 1)' = Newlines(start.from' - 1)
  BY <1>1 DEF Newlines, Returned
<1>3. (\A t \in Returned : t.line = 1 + Cardinality(Newlines(t.from)))'
  BY <1>1 DEF LineInv
<1>4. QED
  BY <1>2, <1>3 DEF LineInv

(* A step that returns a token, behind which the stream goes on. *)
LEMMA AppendLines ==
  ASSUME TypeOK, PlaceInv, LineInv, UNCHANGED <<text, line>>,
         NEW t \in TokenType, tokens' = Append(tokens, t),
         mode \in {"word", "string"}, mode' = "between",
         t.from = start.from, t.line = start.line, t.from >= 1, t.from <= t.to, t.to = pos'
  PROVE  LineInv'
<1>1. Returned' = Returned \cup {t}
  BY ReturnedAppend
<1>2. t.from \in Nat /\ t.to \in Nat /\ t.from - 1 \in Nat
  BY DEF TokenType
<1>3. Finished = t.from - 1
  BY DEF Finished
<1>4. ASSUME NEW n PROVE Newlines(n)' = {i \in Newlines(n) : ~In(i, t)}
  BY <1>1 DEF Newlines, In
<1>5. ASSUME NEW n \in Nat, n < t.from PROVE Newlines(n)' = Newlines(n)
  <2>1. \A i \in Newlines(n) : i < t.from /\ i \in Nat
    BY <1>2, <1>5 DEF Newlines
  <2>2. ASSUME NEW i \in Newlines(n) PROVE ~In(i, t)
    BY <1>2, <2>1, <2>2 DEF In
  <2>3. {i \in Newlines(n) : ~In(i, t)} = Newlines(n)
    BY <2>2
  <2>4. QED
    BY <1>4, <2>3
<1>6. Newlines(t.to)' = Newlines(t.from - 1)
  <2>1. \A i \in 1..t.to : i \in 1..t.from - 1 \/ i \in t.from..t.to
    BY <1>2
  <2>2. \A i \in 1..t.from - 1 : i \in 1..t.to /\ i \notin t.from..t.to
    BY <1>2
  <2>3. QED
    BY <1>4, <2>1, <2>2 DEF Newlines, In
<1>7. Newlines(t.from)' = Newlines(t.from - 1)
  <2>1. \A i \in 1..t.from : i \in 1..t.from - 1 \/ i \in t.from..t.to
    BY <1>2
  <2>2. \A i \in 1..t.from - 1 : i \in 1..t.from /\ i \notin t.from..t.to
    BY <1>2
  <2>3. QED
    BY <1>4, <2>1, <2>2 DEF Newlines, In
<1>8. line = 1 + Cardinality(Newlines(t.from - 1)) /\ t.line = line
  BY DEF LineInv
<1>9. ASSUME NEW u \in Returned' PROVE u.line = 1 + Cardinality(Newlines(u.from)')
  <2>1. CASE u \in Returned
    <3>1. u.from \in Nat /\ u.from < t.from
      BY <1>2, <1>3, <2>1, ReturnedBefore
    <3>2. QED
      BY <1>5, <2>1, <3>1 DEF LineInv
  <2>2. CASE u = t
    BY <1>7, <1>8, <2>2
  <2>3. QED
    BY <1>1, <2>1, <2>2
<1>10. (\A u \in Returned : u.line = 1 + Cardinality(Newlines(u.from)))'
  BY <1>9
<1>11. (line = 1 + Cardinality(Newlines(pos)))'
  <2>1. Newlines(pos)' = Newlines(t.to)'
    BY DEF Newlines
  <2>2. QED
    BY <1>6, <1>8, <2>1
<1>12. QED
  BY <1>10, <1>11 DEF LineInv

LEMMA InitLines == Init => LineInv
<1> SUFFICES ASSUME Init PROVE LineInv
  OBVIOUS
<1>1. mode = "between" /\ Len(tokens) = 0 /\ pos = 0 /\ line = 1
  BY EmptySeq DEF Init
<1>2. Returned = {} /\ Newlines(0) = {}
  BY <1>1 DEF Returned, Newlines
<1>3. Cardinality({}) = 0
  BY FS_EmptySet
<1>4. QED
  BY <1>1, <1>2, <1>3 DEF LineInv

LEMMA NextLines == TypeOK /\ WordInv /\ PlaceInv /\ LineInv /\ [Next]_vars => LineInv'
<1> SUFFICES ASSUME TypeOK, WordInv, PlaceInv, LineInv, [Next]_vars PROVE LineInv'
  OBVIOUS
<1> /\ pos \in 0..Len(text) /\ Len(text) \in Nat /\ pos \in Nat
    /\ start.from \in Nat \ {0} /\ start.from - 1 \in Nat
  BY LenProperties DEF TypeOK
<1> Finished \in Nat
  BY DEF Finished
<1> Cardinality(Newlines(pos)) \in Nat
  BY NewlinesFinite
<1> DEFINE f == start.from
<1>1. CASE SkipSpace \/ CommentChar
  <2>1. /\ mode \in {"between", "comment"} /\ mode' \in {"between", "comment"}
        /\ pos' = pos + 1 /\ UNCHANGED <<text, tokens>>
        /\ line' = IF text[pos + 1] = NL THEN line + 1 ELSE line
    BY <1>1 DEF SkipSpace, CommentChar, Advance, Char, LineAfter
  <2>2. Finished <= pos
    BY <2>1 DEF Finished, PlaceInv
  <2>3. ~\E u \in Returned : In(pos + 1, u)
    <3>1. pos + 1 \in Nat /\ pos + 1 > Finished
      BY <2>2
    <3>2. QED
      BY <3>1, NoTokenAhead
  <2>4. line = 1 + Cardinality(Newlines(pos))
    BY <2>1 DEF LineInv
  <2>5. line' = 1 + Cardinality(Newlines(pos + 1))
    BY <2>1, <2>3, <2>4, NewlinesNext
  <2>6. QED
    BY <2>1, <2>5, QuietLines
<1>2. CASE EndOfFile
  BY <1>2, QuietLines DEF EndOfFile
<1>3. CASE Begin
  <2>1. /\ mode = "between" /\ mode' \in {"word", "string"} /\ UNCHANGED <<text, tokens, line>>
        /\ start'.from = pos + 1 /\ start'.line = line /\ text[pos + 1] \notin Space
    BY <1>3 DEF Begin, Char
  <2>2. start.from' - 1 = pos /\ text[start.from'] # NL
    BY <2>1 DEF Space
  <2>3. line = 1 + Cardinality(Newlines(pos))
    BY <2>1 DEF LineInv
  <2>4. QED
    BY <2>1, <2>2, <2>3, QuietLines
<1>4. CASE WordChar \/ StringChar \/ Escape \/ InnerQuote
  <2>1. /\ mode \in {"word", "string"} /\ UNCHANGED <<text, tokens, line, start, mode>>
    BY <1>4 DEF WordChar, StringChar, Escape, InnerQuote
  <2>2. QED
    BY <2>1, QuietLines DEF LineInv
<1>5. CASE EndWord
  <2>1. mode = "word" /\ UNCHANGED <<text, pos, start, line>>
    BY <1>5 DEF EndWord
  <2>2. f \in 1..pos + 1 /\ Spaceless(f, pos)
    BY <2>1 DEF WordInv
  <2>3. CASE buffer = <<"-", "-">>
    <3>1. mode' = "comment" /\ UNCHANGED tokens
      BY <1>5, <2>3 DEF EndWord
    <3>2. Newlines(pos) = Newlines(f - 1)
      <4>1. \A i \in (f - 1) + 1..pos : text[i] # NL
        BY <2>2 DEF Spaceless, Space
      <4>2. f - 1 <= pos
        BY <2>2
      <4>3. QED
        BY <4>1, <4>2, NewlinesSame
    <3>3. line = 1 + Cardinality(Newlines(pos))
      BY <2>1, <3>2 DEF LineInv
    <3>4. QED
      BY <2>1, <3>1, <3>3, QuietLines
  <2>4. CASE buffer # <<"-", "-">>
    <3> DEFINE t == Token(TypeOf(buffer), buffer, pos)
    <3>1. mode' = "between" /\ tokens' = Append(tokens, t)
      BY <1>5, <2>4 DEF EndWord
    <3>2. t \in TokenType
      BY TypeOfType, TokenHasType
    <3>3. t.from = f /\ t.to = pos /\ t.line = start.line
      BY DEF Token
    <3>4. f <= pos
      <4>1. f <= pos \/ ~SpaceAt(pos + 1)
        BY <2>1 DEF PlaceInv
      <4>2. SpaceAt(pos + 1)
        BY <1>5 DEF EndWord
      <4>3. QED
        BY <4>1, <4>2
    <3>5. QED
      BY <2>1, <3>1, <3>2, <3>3, <3>4, AppendLines
  <2>5. QED
    BY <2>3, <2>4
<1>6. CASE EndComment
  BY <1>6, QuietLines DEF EndComment, LineInv
<1>7. CASE EndString
  <2> DEFINE t == Token("string", buffer, pos + 1)
  <2>1. /\ UNCHANGED <<text, line>> /\ mode = "string" /\ mode' = "between" /\ pos' = pos + 1
        /\ tokens' = Append(tokens, t)
    BY <1>7 DEF EndString, Advance
  <2>2. t \in TokenType
    BY TokenHasType DEF TokenTypes
  <2>3. t.from = f /\ t.to = pos + 1 /\ t.line = start.line
    BY DEF Token
  <2>4. f <= pos
    BY <2>1 DEF PlaceInv
  <2>5. QED
    BY <2>1, <2>2, <2>3, <2>4, AppendLines
<1>8. CASE Unterminated
  BY <1>8, QuietLines DEF Unterminated
<1>9. CASE UNCHANGED vars
  BY <1>9, QuietLines DEF vars, LineInv
<1>10. QED
  BY <1>1, <1>2, <1>3, <1>4, <1>5, <1>6, <1>7, <1>8, <1>9 DEF Next

(* The line of a token, which error messages give, counts the newlines in  *)
(* front of it, also those of comments, but not those in strings           *)
(* (tokens.c).                                                             *)
THEOREM LinesAreRight == Spec => []LinesRight
<1>1. TypeOK /\ LineInv => LinesRight
  <2> SUFFICES ASSUME LineInv, NEW t \in Returned
               PROVE  t.line = 1 + Cardinality({i \in 1..t.from : text[i] = NL /\ ~\E u \in Returned : In(i, u)})
    BY DEF LinesRight
  <2>1. t.line = 1 + Cardinality(Newlines(t.from))
    BY DEF LineInv
  <2>2. QED
    BY <2>1 DEF Newlines
<1>2. QED
  BY InitType, NextType, InitWords, NextWords, InitPlaces, NextPlaces, InitLines, NextLines,
     <1>1, PTL DEF Spec
=============================================================================
