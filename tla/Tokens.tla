------------------------------- MODULE Tokens -------------------------------
(***************************************************************************)
(* The token stream (src/src/tokens.c): a source file, read character by   *)
(* character, becomes words, numbers, brackets and strings.  A call of     *)
(* token_stream_next begins in mode "between" and returns there, at the    *)
(* end of the file ("end"), or where a string is never closed ("failed").  *)
(* A character is the string of one letter it is, or one of the names      *)
(* below.                                                                  *)
(***************************************************************************)
EXTENDS Integers, Sequences, FiniteSets

CONSTANTS
  DigitValue,  \* the characters that are digits in some base, and their values
  MaxNumber,   \* the largest number of 64 bits
  MaxWord,     \* characters read_word keeps (255)
  MaxString    \* characters read_string keeps (1023)

(* What is kept of a word that is too long is longer than "--".            *)
ASSUME TokensAssumption ==
  /\ DigitValue \in [DOMAIN DigitValue -> Nat] /\ MaxNumber \in Nat
  /\ MaxWord \in Nat /\ MaxWord > 2 /\ MaxString \in Nat

VARIABLES
  text,    \* the file
  pos,     \* characters read so far
  line,    \* stream->line
  mode,
  start,   \* where the token that is being read begins, and stream->line there
  buffer,  \* the characters kept of it
  tokens   \* the tokens returned

vars == <<text, pos, line, mode, start, buffer, tokens>>

SP == "space"
NL == "newline"
QUOTE == "quote"
BACKSLASH == "backslash"
Space == {SP, NL}

Specials ==
  [s \in {<<":">>, <<";">>, <<"(">>, <<")">>, <<"[">>, <<"]">>, <<"$">>} |-> s[1]]

TokenTypes == {"word", "number", "string"} \cup {Specials[s] : s \in DOMAIN Specials}

More == pos < Len(text)
Char == text[pos + 1]
SpaceAt(i) == i <= Len(text) => text[i] \in Space

(* The number that digits write in a base.                                 *)
Value(digits, base) ==
  LET value[i \in 0..Len(digits)] ==
        IF i = 0 THEN 0 ELSE base * value[i - 1] + DigitValue[digits[i]]
  IN  value[Len(digits)]

(* Mutant of Numeral: digits of base ten only.                             *)
NumeralDecimal(word) ==
  LET digits == IF Head(word) \in {"-", "+"} THEN Tail(word) ELSE word
  IN  /\ digits # <<>>
      /\ \A i \in 1..Len(digits) :
           digits[i] \in DOMAIN DigitValue /\ DigitValue[digits[i]] < 10
      /\ Value(digits, 10) <= IF Head(word) = "-" THEN MaxNumber + 1 ELSE MaxNumber

(* What strtoll takes all of, with base 0, without ERANGE: a sign or none, *)
(* 0x or 0X and hexadecimal digits, 0 and octal ones, or decimal ones.     *)
Numeral(word) ==
  LET unsigned == IF Head(word) \in {"-", "+"} THEN Tail(word) ELSE word
      zero   == unsigned # <<>> /\ Head(unsigned) = "0"
      hex    == zero /\ Len(unsigned) > 1 /\ unsigned[2] \in {"x", "X"}
      base   == IF hex THEN 16 ELSE IF zero THEN 8 ELSE 10
      digits == IF hex THEN SubSeq(unsigned, 3, Len(unsigned)) ELSE unsigned
  IN  /\ digits # <<>>
      /\ \A i \in 1..Len(digits) :
           digits[i] \in DOMAIN DigitValue /\ DigitValue[digits[i]] < base
      /\ Value(digits, base) <= IF Head(word) = "-" THEN MaxNumber + 1 ELSE MaxNumber

TypeOf(word) ==
  IF word \in DOMAIN Specials THEN Specials[word]
  ELSE IF word # <<>> /\ Numeral(word) THEN "number" ELSE "word"

(* A token and the characters it has been read from. *)
Token(type, chars, to) ==
  [type |-> type, chars |-> chars, from |-> start.from, to |-> to, line |-> start.line]

(* Mutant of Keep: one character less. *)
KeepLess(chars, max) ==
  LET all == buffer \o chars
  IN  SubSeq(all, 1, IF Len(all) < max THEN Len(all) ELSE max - 1)

(* if (pos < max) buffer[pos++] = c, for each of chars. *)
Keep(chars, max) ==
  LET all == buffer \o chars
  IN  SubSeq(all, 1, IF Len(all) < max THEN Len(all) ELSE max)

LineAfter(c) == IF c = NL THEN line + 1 ELSE line

Init ==
  /\ text \in Seq(STRING)
  /\ pos = 0 /\ line = 1 /\ mode = "between" /\ start = [from |-> 1, line |-> 1]
  /\ buffer = <<>> /\ tokens = <<>>

Advance(n) == pos' = pos + n

(* skip_whitespace *)
SkipSpace ==
  /\ mode = "between"
  /\ More
  /\ Char \in Space
  /\ Advance(1)
  /\ line' = LineAfter(Char)
  /\ UNCHANGED <<text, mode, start, buffer, tokens>>

EndOfFile ==
  /\ mode = "between"
  /\ ~More
  /\ mode' = "end"
  /\ UNCHANGED <<text, pos, line, start, buffer, tokens>>

(* read_word looks at the first character. *)
Begin ==
  /\ mode = "between"
  /\ More
  /\ Char \notin Space
  /\ start' = [from |-> pos + 1, line |-> line]
  /\ buffer' = <<>>
  /\ IF Char = QUOTE
     THEN mode' = "string" /\ Advance(1)
     ELSE mode' = "word" /\ UNCHANGED pos
  /\ UNCHANGED <<text, line, tokens>>

WordChar ==
  /\ mode = "word"
  /\ ~SpaceAt(pos + 1)
  /\ buffer' = Keep(<<Char>>, MaxWord)
  /\ Advance(1)
  /\ UNCHANGED <<text, line, mode, start, tokens>>

(* Mutant of EndWord: the character that ended the word is lost. *)
EndWordEats ==
  /\ mode = "word"
  /\ SpaceAt(pos + 1)
  /\ pos' = IF More THEN pos + 1 ELSE pos
  /\ IF buffer = <<"-", "-">>
     THEN mode' = "comment" /\ UNCHANGED tokens
     ELSE mode' = "between" /\ tokens' = Append(tokens, Token(TypeOf(buffer), buffer, pos))
  /\ UNCHANGED <<text, line, start, buffer>>

EndWord ==
  /\ mode = "word"
  /\ SpaceAt(pos + 1)
  /\ IF buffer = <<"-", "-">>
     THEN mode' = "comment" /\ UNCHANGED tokens
     ELSE mode' = "between" /\ tokens' = Append(tokens, Token(TypeOf(buffer), buffer, pos))
  /\ UNCHANGED <<text, pos, line, start, buffer>>

(* Mutants of CommentChar and EndComment: the newline is not counted; the  *)
(* end of the file is not looked for.                                      *)
CommentCharUncounted ==
  /\ mode = "comment"
  /\ More
  /\ Advance(1)
  /\ mode' = IF Char = NL THEN "between" ELSE mode
  /\ UNCHANGED <<text, line, start, buffer, tokens>>

EndCommentNever ==
  /\ mode = "comment"
  /\ ~More
  /\ UNCHANGED vars

(* -- makes the rest of its line a comment. *)
CommentChar ==
  /\ mode = "comment"
  /\ More
  /\ Advance(1)
  /\ line' = LineAfter(Char)
  /\ mode' = IF Char = NL THEN "between" ELSE mode
  /\ UNCHANGED <<text, start, buffer, tokens>>

EndComment ==
  /\ mode = "comment"
  /\ ~More
  /\ mode' = "between"
  /\ UNCHANGED <<text, pos, line, start, buffer, tokens>>

(* read_string.  Newlines in a string are not counted. *)
StringChar ==
  /\ mode = "string"
  /\ More
  /\ Char \notin {QUOTE, BACKSLASH}
  /\ buffer' = Keep(<<Char>>, MaxString)
  /\ Advance(1)
  /\ UNCHANGED <<text, line, mode, start, tokens>>

(* Mutant of Escape: the backslash is kept. *)
EscapeKept ==
  /\ mode = "string"
  /\ More
  /\ Char = BACKSLASH
  /\ pos + 2 <= Len(text)
  /\ buffer' = Keep(<<Char, text[pos + 2]>>, MaxString)
  /\ Advance(2)
  /\ UNCHANGED <<text, line, mode, start, tokens>>

(* Escaped quotes and backslashes; before another character the backslash  *)
(* stands for itself.                                                      *)
Escape ==
  /\ mode = "string"
  /\ More
  /\ Char = BACKSLASH
  /\ pos + 2 <= Len(text)
  /\ LET next == text[pos + 2] IN
     buffer' = Keep(IF next \in {QUOTE, BACKSLASH} THEN <<next>> ELSE <<Char, next>>, MaxString)
  /\ Advance(2)
  /\ UNCHANGED <<text, line, mode, start, tokens>>

(* Mutant of EndString: any quote ends the string. *)
EndStringAnywhere ==
  /\ mode = "string"
  /\ More
  /\ Char = QUOTE
  /\ tokens' = Append(tokens, Token("string", buffer, pos + 1))
  /\ mode' = "between"
  /\ Advance(1)
  /\ UNCHANGED <<text, line, start, buffer>>

(* A quote ends the string if a space or the end of the file comes next.   *)
EndString ==
  /\ mode = "string"
  /\ More
  /\ Char = QUOTE
  /\ SpaceAt(pos + 2)
  /\ tokens' = Append(tokens, Token("string", buffer, pos + 1))
  /\ mode' = "between"
  /\ Advance(1)
  /\ UNCHANGED <<text, line, start, buffer>>

InnerQuote ==
  /\ mode = "string"
  /\ More
  /\ Char = QUOTE
  /\ ~SpaceAt(pos + 2)
  /\ buffer' = Keep(<<QUOTE>>, MaxString)
  /\ Advance(1)
  /\ UNCHANGED <<text, line, mode, start, tokens>>

(* Mutant of Unterminated: one character more is read. *)
UnterminatedPast ==
  /\ mode = "string"
  /\ ~More \/ (pos + 1 = Len(text) /\ Char = BACKSLASH)
  /\ mode' = "failed"
  /\ Advance(1)
  /\ UNCHANGED <<text, line, start, buffer, tokens>>

(* The file ends in the string, or behind a backslash in it.               *)
Unterminated ==
  /\ mode = "string"
  /\ ~More \/ (pos + 1 = Len(text) /\ Char = BACKSLASH)
  /\ mode' = "failed"
  /\ pos' = Len(text)
  /\ UNCHANGED <<text, line, start, buffer, tokens>>

Next ==
  \/ SkipSpace \/ EndOfFile \/ Begin
  \/ WordChar \/ EndWord \/ CommentChar \/ EndComment
  \/ StringChar \/ Escape \/ EndString \/ InnerQuote \/ Unterminated

Spec == Init /\ [][Next]_vars /\ WF_vars(Next)

-----------------------------------------------------------------------------
(* Properties. *)

(* The stream keeps its type. *)
TypeOK ==
  /\ text \in Seq(STRING)
  /\ pos \in 0..Len(text)
  /\ line \in Nat \ {0}
  /\ mode \in {"between", "word", "comment", "string", "end", "failed"}
  /\ start \in [from : Nat \ {0}, line : Nat \ {0}]
  /\ buffer \in Seq(STRING)
  /\ tokens \in Seq([type : TokenTypes, chars : Seq(STRING), from : Nat, to : Nat, line : Nat])

(* What has been read completely: up to the token that is being read. *)
Finished == IF mode \in {"between", "end"} THEN pos ELSE start.from - 1
Returned == {tokens[i] : i \in 1..Len(tokens)}
In(i, t) == i \in t.from..t.to

SpaceBefore(i) == i = 1 \/ text[i - 1] \in Space

(* Character i comes after a -- that is a word of its own, on its line.    *)
Commented(i) ==
  \E q \in 1..i :
    /\ q + 1 <= Len(text) /\ SubSeq(text, q, q + 1) = <<"-", "-">>
    /\ SpaceBefore(q) /\ SpaceAt(q + 2)
    /\ \A k \in q..i : text[k] # NL
    /\ \A t \in Returned : ~In(q, t)

(* read_word, read_string and the comments between them leave nothing out: *)
(* what has been read is white space, comment, or part of a token; and     *)
(* nothing is read twice, or as a token in a comment.                      *)
NothingLost ==
  /\ \A i \in 1..Finished :
       text[i] \in Space \/ Commented(i) \/ \E t \in Returned : In(i, t)
  /\ \A i \in 1..Len(tokens) :
       /\ ~Commented(tokens[i].from)
       /\ tokens[i].from <= tokens[i].to /\ tokens[i].to <= Finished
       /\ i > 1 => tokens[i - 1].to < tokens[i].from

(* Words and numbers (read_word) reach from space to space, and what is    *)
(* not kept of one that is too long is at its end; 300 zeros are the       *)
(* number 0 all the same, and a name cut off is the name of another word   *)
(* that begins alike.                                                      *)
WordsWhole ==
  \A t \in Returned : t.type # "string" =>
    /\ SpaceBefore(t.from) /\ SpaceAt(t.to + 1)
    /\ \A i \in t.from..t.to : text[i] \notin Space
    /\ LET whole == SubSeq(text, t.from, t.to)
       IN  IF Len(whole) <= MaxWord THEN t.chars = whole
           ELSE t.chars = SubSeq(whole, 1, MaxWord)

(* The quote at j closes a string that is opened at f: a space comes next, *)
(* and the backslashes in front of it, if any, escape each other.          *)
Closes(f, j) ==
  /\ f < j /\ j <= Len(text)
  /\ text[j] = QUOTE /\ SpaceAt(j + 1)
  /\ \E k \in f..j - 1 :
       /\ text[k] # BACKSLASH \/ k = f
       /\ \A i \in k + 1..j - 1 : text[i] = BACKSLASH
       /\ (j - 1 - k) % 2 = 0

(* A string ends at the first quote that closes it, and read_string fails  *)
(* only if there is none.                                                  *)
StringsWhole ==
  /\ \A t \in Returned : t.type = "string" =>
       /\ text[t.from] = QUOTE /\ SpaceBefore(t.from)
       /\ Closes(t.from, t.to)
       /\ \A j \in t.from + 1..t.to - 1 : ~Closes(t.from, j)
  /\ mode = "failed" =>
       /\ text[start.from] = QUOTE
       /\ \A j \in start.from + 1..Len(text) : ~Closes(start.from, j)

(* The line of a token is one more than the newlines in front of it, but   *)
(* for those in strings.                                                   *)
LinesRight ==
  \A t \in Returned :
    t.line = 1 + Cardinality({i \in 1..t.from : text[i] = NL /\ ~\E u \in Returned : In(i, u)})

(* A source file is read to its end. *)
ReadsOn == <>(mode \in {"end", "failed"})
=============================================================================
