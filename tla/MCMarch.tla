------------------------------- MODULE MCMarch -------------------------------
(***************************************************************************)
(* What a source text means, read off its tokens, for comparison with what *)
(* compiling, linking and running it leaves on the data stack; and the     *)
(* source files of the runs of module March.                               *)
(***************************************************************************)
EXTENDS March, MCCompiler
LOCAL INSTANCE FiniteSetsExt

(* Stacks of the meaning are sequences of numbers and maps; an array of    *)
(* numbers is a map from its indexes.  A program may also trap.            *)
NoMap == [k \in {} |-> 0]
Number(n)  == [n |-> n, map |-> NoMap]
MapItem(f) == [n |-> 0, map |-> f]
ArrayItem(s) == MapItem([k \in 0..Len(s) - 1 |-> s[k + 1].n])
Trapped    == <<Number(2^WordBits)>>

Last(s) == s[Len(s)]
Drop(s, n) == SubSeq(s, 1, Len(s) - n)
Wrap(n) == V!WrapWord(n)
Truth(b) == IF b THEN -1 ELSE 0

Closing(toks, mark) == FirstOf({i \in 1..Len(toks) : toks[i].t = mark})
From(toks, i) == SubSeq(toks, i, Len(toks))

(* The body of word `name' in text. *)
BodyOf(text, name) ==
  LET start == FirstOf({i \in 1..Len(text) : text[i] = Mark(":") /\ text[i + 1].s = name})
      end   == FirstOf({i \in start..Len(text) : text[i].t = ";"})
  IN  SubSeq(text, start + 2, end - 1)

IsDefined(text, name) == \E i \in 1..Len(text) - 1 : text[i] = Mark(":") /\ text[i + 1].s = name

(* Words are sets of bits, and sets of bits words. *)
Places == 0..WordBits - 1
Bits(n) == {k \in Places : ((n % 2^WordBits) \div 2^k) % 2 = 1}
WordOf(bits) == Wrap(SumSet({2^k : k \in bits}))
Shift(n) == (n % 2^WordBits) % WordBits

(* The division that rounds towards zero. *)
Divides(a, b, q) ==
  LET r == a - b * q
      Size(n) == IF n < 0 THEN -n ELSE n
  IN  Size(r) < Size(b) /\ (r # 0 => (r < 0 <=> a < 0))
QuotientOf(a, b) == CHOOSE q \in -(2^WordBits)..2^WordBits : Divides(a, b, q)

Operation(w, a, b) ==
  CASE w = "+"   -> Wrap(a + b)
    [] w = "-"   -> Wrap(a - b)
    [] w = "*"   -> Wrap(a * b)
    [] w = "/"   -> QuotientOf(a, b)
    [] w = "mod" -> a - b * QuotientOf(a, b)
    [] w = "and" -> WordOf(Bits(a) \cap Bits(b))
    [] w = "or"  -> WordOf(Bits(a) \cup Bits(b))
    [] w = "xor" -> WordOf((Bits(a) \cup Bits(b)) \ (Bits(a) \cap Bits(b)))
    [] w = "<<"  -> WordOf({k \in Places : k - Shift(b) \in Bits(a)})
    [] w = ">>"  -> WordOf({k \in Places : k + Shift(b) \in Bits(a)})
    [] w = ">>>" -> WordOf({k \in Places : Min({k + Shift(b), WordBits - 1}) \in Bits(a)})
    [] w = "="    -> Truth(a = b)
    [] w = "<>"   -> Truth(a # b)
    [] w = "<"    -> Truth(a < b)
    [] w = ">"    -> Truth(b < a)
    [] w = "<="   -> Truth(~(b < a))
    [] w = ">="   -> Truth(~(a < b))
    [] w = "land" -> Truth(a # 0 /\ b # 0)
    [] w = "lor"  -> Truth(~(a = 0 /\ b = 0))

(* Words without quotations: the documented stack effects.                 *)
Effect(w, d) ==
  LET n == Len(d)
      a == d[n - 1].n
      b == d[n].n
      Push(m, v) == Append(Drop(d, m), v)
      m2 == d[n - 1].map
  IN
  CASE w = "dup"   -> Append(d, d[n])
    [] w \in {"drop", "free", "march.map.free"} -> Drop(d, 1)
    [] w = "_"     -> d
    [] w = "over"  -> Append(d, d[n - 1])
    [] w = "swap"  -> Drop(d, 2) \o <<d[n], d[n - 1]>>
    [] w = "true"  -> Push(0, Number(-1))
    [] w = "false" -> Push(0, Number(0))
    [] w \in {"0=", "lnot"} -> Push(1, Number(Truth(b = 0)))
    [] w = "0<"    -> Push(1, Number(Truth(b < 0)))
    [] w = "0>"    -> Push(1, Number(Truth(b > 0)))
    [] w = "not"   -> Push(1, Number(WordOf(Places \ Bits(b))))
    [] w = "march.map.new"    -> Push(0, MapItem(NoMap))
    [] w \in {"march.map.get", "march.array.at"} -> Push(2, Number(IF b \in DOMAIN m2 THEN m2[b] ELSE 0))
    [] w \in {"march.map.size", "march.array.length"} -> Push(1, Number(Cardinality(DOMAIN d[n].map)))
    [] w = "march.map.remove" -> Push(2, MapItem([k \in DOMAIN m2 \ {b} |-> m2[k]]))
    [] w = "march.map.set" ->
         LET m3 == d[n - 2].map
         IN  Push(3, MapItem([k \in DOMAIN m3 \cup {a} |-> IF k = a THEN b ELSE m3[k]]))
    [] w \in {"/", "mod"} /\ (b = 0 \/ (a = Wrap(2^(WordBits - 1)) /\ b = -1)) -> Trapped
    [] OTHER -> Push(2, Number(Operation(w, a, b)))

(* The stack that toks leave when they start with stack d, with the loop   *)
(* counters and what >r has put aside in `loops', after the quotations     *)
(* `quots' have been read.                                                 *)
RECURSIVE Run(_, _, _, _, _), Repeat(_, _, _, _, _), Until(_, _, _, _, _)

Run(text, toks, quots, d, loops) ==
  IF toks = <<>> \/ d = Trapped THEN d ELSE
  LET t    == Head(toks)
      rest == Tail(toks)
      Go(e) == Run(text, rest, <<>>, e, loops)
      Do(q, e) == Run(text, q, <<>>, e, loops)
  IN  CASE t.t = "num" -> Go(Append(d, Number(t.n)))
        [] t.t = "str" -> Go(Append(d, Number(0)))
        [] t.t = "(" -> Run(text, From(rest, Closing(rest, ")") + 1),
                            Append(quots, SubSeq(rest, 1, Closing(rest, ")") - 1)), d, loops)
        [] t.t = "[" -> LET items == Run(text, SubSeq(rest, 1, Closing(rest, "]") - 1), <<>>, <<>>, loops)
                        IN  Run(text, From(rest, Closing(rest, "]") + 1), <<>>,
                                Append(d, ArrayItem(items)), loops)
        [] t.s = "if" -> Go(Do(IF Last(d).n # 0 THEN quots[1] ELSE quots[2], Drop(d, 1)))
        [] t.s = "times" /\ Len(quots) = 1 -> Go(Repeat(text, quots[1], Last(d).n, Drop(d, 1), loops))
        [] t.s = "times" /\ Len(quots) = 2 -> Go(Until(text, quots[1], quots[2], d, loops))
        [] t.s = "execute" -> Go(Do(quots[1], d))
        [] t.s \in {"i0", "r@"} -> Go(Append(d, Last(loops)))
        [] t.s = ">r" -> Run(text, rest, <<>>, Drop(d, 1), Append(loops, Last(d)))
        [] t.s = "r>" -> Run(text, rest, <<>>, Append(d, Last(loops)), Drop(loops, 1))
        [] t.s = "rdrop" -> Run(text, rest, <<>>, d, Drop(loops, 1))
        [] t.t = "word" /\ IsDefined(text, t.s) -> Go(Do(BodyOf(text, t.s), d))
        [] OTHER -> Go(Effect(t.s, d))

(* n times, counting down to 0. *)
Repeat(text, body, n, d, loops) ==
  IF n = 0 THEN d
  ELSE Repeat(text, body, n - 1, Run(text, body, <<>>, d, Append(loops, Number(n - 1))), loops)

(* The body, then the condition, until that leaves something not zero.     *)
Until(text, cond, body, d, loops) ==
  LET e == Run(text, cond, <<>>, Run(text, body, <<>>, d, loops), loops)
  IN  IF Last(e).n # 0 THEN Drop(e, 1) ELSE Until(text, cond, body, Drop(e, 1), loops)

Numbers(stack) == [i \in 1..Len(stack) |-> Number(stack[i].n)]
Meaning(name) == Run(program, BodyOf(program, name), <<>>, Numbers(given), <<>>)
MeaningOfTarget == Meaning(dict[target].name)

(* A word leaves on the data stack what its text means, on the first run,  *)
(* which compiles and links it, and on every later one; the machine traps  *)
(* where the text divides by zero or beyond a word, and leaves its code    *)
(* and its stacks nowhere.                                                 *)
RunsAsWritten ==
  /\ vm = "fault" => MeaningOfTarget = Trapped
  /\ phase = "ready" /\ target # 0 =>
       LET m == MeaningOfTarget
       IN  m # Trapped /\ ds = [i \in 1..Len(m) |-> V!IntVal(m[i].n)] /\ rs = <<>>

-----------------------------------------------------------------------------
(* Source files. *)

NamesFH == {"f", "h"}

(* g adds to a number; f and h may call it. *)
Callee == Typed(Sig(<<"i64">>, <<"i64">>), "g", <<Num(31), Word("+")>>)

Straight ==
  { <<Num(a), Num(-32)>> \o b : a \in {31},
      b \in [1..3 -> {Word("g"), Word("dup"), Word("over"), Word("-"), Word("<")}] }

(* Pairs of branches that leave equally many values. *)
Branches ==
  {<<<<>>, <<Word("g")>>>>, <<<<Word("g"), Word("g")>>, <<>>>>,
   <<<<Num(2)>>, <<Num(3), Word("g")>>>>, <<<<Word("drop"), Num(2)>>, <<>>>>}
   \cup [1..2 -> {<<Num(2), Num(3)>>, <<Word("dup"), Word("g")>>}]

WithIf ==
  { <<Num(4), Num(a)>> \o Quote(b[1]) \o Quote(b[2]) \o <<Word("if")>> \o tail :
      a \in {0, -1}, b \in Branches, tail \in {<<>>, <<Num(5)>>, <<Word("g")>>} }

LoopBodies == SeqsUpTo({Word("i0"), Word("g"), Word("+"), Num(31)}, 2)

WithTimes ==
  { <<Num(4), Num(n)>> \o Quote(b) \o <<Word("times")>> \o tail :
      n \in {0, 1, 4}, b \in LoopBodies, tail \in {<<>>, <<Word("dup")>>} }

WithUntil ==
  { <<Num(n)>> \o Quote(c) \o Quote(b) \o <<Word("times")>> :
      n \in {5}, c \in {<<Word("true")>>, <<Word("dup"), Word("0=")>>, <<Word("dup"), Num(3), Word("=")>>},
      b \in {<<Num(1), Word("-")>>} }
  \cup {<<Num(1)>> \o Quote(<<Word("true")>>) \o Quote(<<>>) \o <<Word("times")>>}

WithExecute ==
  { <<Num(1)>> \o Quote(b) \o <<Word("execute")>> \o tail :
      b \in {<<>>, <<Num(2)>>, <<Num(2), Word("g")>>, <<Word("true"), Num(3)>>},
      tail \in {<<>>, <<Num(6)>>, <<Word("g")>>} }

Strings == {<<Str("s"), Word("drop")>>, <<Num(1), Str("s"), Word("drop"), Str("s"), Word("drop")>>}

MarchSources ==
  {Callee \o Define("f", b) : b \in WithIf \cup WithTimes \cup WithUntil \cup WithExecute \cup Strings}
  \cup {Callee \o Define("f", b) \o Define("h", c) : b \in Straight, c \in {<<Num(1), Word("g")>>}}

(* Every operation at the ends of the range of words and around 0.         *)
MinToks == <<Num(-32), Num(2), Word("<<")>>
Operands ==
  {<<Num(n)>> : n \in {-1, 0, 6, -7}} \cup {MinToks, MinToks \o <<Word("not")>>}

WithOperation ==
  {a \o b \o <<Word(w)>> :
     a, b \in Operands, w \in V!Arithmetic \cup (V!Comparisons \ {"land", "lor"})}
  \cup {a \o <<Word(v)>> \o b \o <<Word("0="), Word(w), Word("lnot")>> :
          a, b \in {<<Num(n)>> : n \in {0, 6, -7}}, v \in {"0>", "0<"}, w \in {"land", "lor"}}

(* What >r puts aside, a word finds there again. *)
WithReturnStack ==
  {<<Num(3), Word(">r"), Num(4)>> \o b \o tail :
     b \in {<<Word("r>")>>, <<Word("r@"), Word("rdrop")>>}, tail \in {<<>>, <<Word("_"), Num(5)>>}}

(* Maps that are built, looked into, and not changed by later versions.    *)
Put(k, v) == <<Num(k), Num(v), Word("march.map.set")>>
Take(k)   == <<Num(k), Word("march.map.remove")>>
Aside(update) == <<Word("dup")>> \o update \o <<Word("drop")>>
Query == {<<Num(k), Word("march.map.get")>> : k \in {1, 3}}
           \cup {<<Word("dup"), Word("march.map.size"), Word(">r"), Word("march.map.free"), Word("r>")>>}

WithMap ==
  {<<Word("march.map.new")>> \o u \o v \o later \o q :
     u \in {Put(1, 10), Take(3)},
     v \in {Put(3, 12), Put(1, 12), Take(1)},
     later \in {<<>>, Aside(Put(1, 14)), Aside(Put(3, 14)), Aside(Take(1))},
     q \in Query}

(* The keys above differ in their second chunk. *)
HashBits == [k \in 0..2^WordBits - 1 |-> [i \in 1..WordBits |-> (k \div 2^(i - 1)) % 2]]

ExecuteSources ==
  MarchSources \cup {Define("f", b) : b \in WithReturnStack \cup WithOperation \cup WithMap}

(* What a well-typed program can do to the machine: put the instruction    *)
(* pointer on the stack and have a primitive leave it in rbx, look into    *)
(* memory nobody has written, take a number for a map, call a block an     *)
(* array.  For the run in which processes die.                             *)
Two(b, c) == Define("f", b) \o Define("g", c)
BlockAs(type) == Typed(Sig(<<>>, <<type>>), "f", <<Num(8), Word("alloc")>>)

WildSources ==
  {Two(<<Word("r@"), Num(2), Word("swap")>>, <<Word("f")>>),
   Two(<<Num(2), Word("r@"), Word("2>r")>>, <<Word("r@"), Word(">r"), Word("2r>")>>),
   Two(<<Num(1), Word("r@"), Num(2), Word("rot")>>, <<Num(8), Word("alloc"), Word("i0"), Word("over"), Word("!")>>),
   Two(<<Num(-1), Word("alloc"), Num(8), Word("alloc"), Word("c@"), Word("free")>>,
       <<Num(1), Num(2), Word("march.map.get")>>),
   BlockAs("array") \o Define("g", <<Word("f"), Num(0), Word("march.array.at")>>),
   BlockAs("array!") \o Define("g", <<Word("f"), Word("march.array.mut.reverse")>>)}

RestartBodies ==
  {<<Num(1), Num(1)>>, <<Num(1), Word("f")>>,
   Quote(<<Num(1)>>) \o Quote(<<Word("f")>>) \o <<Word("execute")>>,
   <<Num(1)>> \o Quote(<<Num(2)>>) \o Quote(<<Num(1)>>) \o <<Word("if")>>}
RestartSources ==
  {Two(b, c) : b \in StoreBodies, c \in RestartBodies} \cup TwinSources \cup WildSources

(* Array literals, and what is asked of them. *)
ArraySources ==
  {Define("f", Array(items) \o <<Word("march.array.length")>>) :
     items \in {<<>>, <<Num(1), Num(2), Num(3)>>}}
=============================================================================
