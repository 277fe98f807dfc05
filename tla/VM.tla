--------------------------------- MODULE VM ---------------------------------
(***************************************************************************)
(* The virtual machine (src/kernel/x86-64): the dispatch loop over linked  *)
(* cells, the data stack, the return stack and the primitives the compiler *)
(* relies on for control.  Register rbx is `ip', rsi is `ds', rdi is `rs'. *)
(* From a jump to what is not code, and from a stack that leaves the       *)
(* memory it owns (nothing checks either end), what happens depends on     *)
(* whatever lies there: the model stops in the state "fault", as it does   *)
(* where the processor traps.                                              *)
(***************************************************************************)
EXTENDS Code

CONSTANTS
  WordBits,   \* bits of a machine word, tag included: a power of two (64)
  MaxData,    \* cells the data stack holds (1023)
  MaxReturn,  \* cells the return stack holds (1023)
  JunkWords,  \* what memory nobody has written may hold
  MapHash     \* the hash of each key of a map (Hash of module Hamt)

VARIABLES
  heap,   \* linked objects (Loader)
  vm,     \* "idle", "running" or "fault"
  entry,  \* the address the bootstrap stream of runner_execute calls
  ip,     \* instruction pointer: object (0 for the bootstrap) and cell
  ds,     \* data stack, top last
  rs,     \* return stack, top last
  nodes   \* nodes of maps (Hamt)

H == INSTANCE Hamt WITH
       Keys <- DOMAIN MapHash, Values <- {}, Hash <- MapHash,
       Histories <- {<<>>}, MaxVersions <- 0, versions <- <<>>

(* Machine words, by what they are good for: a number, the address of an   *)
(* object, a position in code, a map, other memory from malloc.  Of what   *)
(* is not a number, the value matters only where it is compared with 0.    *)
IntVal(n)      == [tag |-> "int",  n |-> n,    pos |-> 0]
AddrVal(addr)  == [tag |-> "addr", n |-> addr, pos |-> 0]
PosVal(p)      == [tag |-> "pos",  n |-> p.obj, pos |-> p.pos]
MapVal(node)   == [tag |-> IF node = 0 THEN "int" ELSE "map", n |-> node, pos |-> 0]
BlockVal       == [tag |-> "block", n |-> 1,  pos |-> 0]
Values == [tag : {"int", "addr", "pos", "map", "block"}, n : Int, pos : Nat]

PowerOfTwo[k \in Nat] == IF k = 0 THEN 1 ELSE 2 * PowerOfTwo[k - 1]

(* n as a signed number of b bits. *)
Signed(n, b) == ((n + PowerOfTwo[b - 1]) % PowerOfTwo[b]) - PowerOfTwo[b - 1]
WrapWord(n) == Signed(n, WordBits)
Unsigned(n) == n % PowerOfTwo[WordBits]
MinWord     == -PowerOfTwo[WordBits - 1]

(* encode_lit shifts the tag in, .do_lit shifts it out: what is left of a  *)
(* number.                                                                 *)
LitValue(n) == Signed(n, WordBits - 2)

Position(obj, pos) == [obj |-> obj, pos |-> pos]

VMInit ==
  vm = "idle" /\ entry = 0 /\ ip = Position(0, 1) /\ ds = <<>> /\ rs = <<>> /\ nodes = <<>>

(* The stream at ip.  The bootstrap calls the entry and exits.             *)
Bootstrap == <<[op |-> "call", s |-> NoName, n |-> entry], [op |-> "exit", s |-> NoName, n |-> 0]>>
StreamOf(obj) == IF obj = 0 THEN Bootstrap ELSE heap[obj].cells
Stream == StreamOf(ip.obj)
Running == vm = "running"
Cell == Stream[ip.pos]
NextIp == Position(ip.obj, ip.pos + 1)
At(op) == Running /\ Cell.op = op
AtPrim(names) == At("prim") /\ Cell.s \in names

TopVal == ds[Len(ds)]
Pop(s, n) == SubSeq(s, 1, Len(s) - n)

Fault == vm' = "fault" /\ UNCHANGED <<heap, entry, ip, ds, rs, nodes>>

(* Go on at p with stacks d and r and map nodes ns, if that is code and    *)
(* they still fit.                                                         *)
ContinueWith(p, d, r, ns) ==
  IF p.pos \notin 1..Len(StreamOf(p.obj)) \/ Len(d) > MaxData \/ Len(r) > MaxReturn
  THEN Fault
  ELSE ip' = p /\ ds' = d /\ rs' = r /\ nodes' = ns /\ UNCHANGED <<heap, vm, entry>>

Continue(p, d, r) == ContinueWith(p, d, r, nodes)

(* vm_run: the stacks are where the last run left them. *)
VMRun(addr) ==
  /\ vm' = "running"
  /\ entry' = addr
  /\ ip' = Position(0, 1)
  /\ UNCHANGED <<heap, ds, rs, nodes>>

(* .do_lit *)
DoLit ==
  /\ At("lit")
  /\ Continue(NextIp, Append(ds, IntVal(LitValue(Cell.n))), rs)

DoAddr ==
  /\ At("addr")
  /\ Continue(NextIp, Append(ds, AddrVal(Cell.n)), rs)

(* The wrapper of a word or quotation, and docol. *)
Docol(addr, d) ==
  IF heap[addr].form = "code"
  THEN Continue(Position(addr, 1), d, Append(rs, PosVal(NextIp)))
  ELSE Fault

DoCall ==
  /\ At("call")
  /\ Docol(Cell.n, ds)

(* .do_exit with an empty return stack: the machine halts. *)
Halt ==
  /\ At("exit")
  /\ rs = <<>>
  /\ vm' = "idle"
  /\ UNCHANGED <<heap, entry, ip, ds, rs, nodes>>

DoExit ==
  /\ At("exit")
  /\ rs # <<>>
  /\ IF rs[Len(rs)].tag = "pos"
     THEN Continue(Position(rs[Len(rs)].n, rs[Len(rs)].pos), ds, Pop(rs, 1))
     ELSE Fault

(* execute: nothing for 0, a jump for anything else. *)
DoExecute ==
  /\ AtPrim({"execute"})
  /\ CASE ds = <<>> -> Fault
       [] ds # <<>> /\ TopVal.tag = "addr" -> Docol(TopVal.n, Pop(ds, 1))
       [] ds # <<>> /\ TopVal.tag = "int" /\ TopVal.n = 0 -> Continue(NextIp, Pop(ds, 1), rs)
       [] OTHER -> Fault

(* The operand of a branch is the cell after it; the offset counts from    *)
(* the cell after that.                                                    *)
Operand == LitValue(Stream[ip.pos + 1].n)
Skip == Position(ip.obj, ip.pos + 2)
Jump == Position(ip.obj, ip.pos + 2 + Operand)
HasOperand == ip.pos + 1 <= Len(Stream) /\ Stream[ip.pos + 1].op = "lit"

DoBranch ==
  /\ AtPrim({"branch"})
  /\ IF HasOperand THEN Continue(Jump, ds, rs) ELSE Fault

(* Mutants of DoZeroBranch: the flag stays on the stack; the jump is taken  *)
(* for the other flags.                                                    *)
DoZeroBranchKeep ==
  /\ AtPrim({"0branch"})
  /\ IF ds # <<>> /\ HasOperand
     THEN Continue(IF TopVal = IntVal(0) THEN Jump ELSE Skip, ds, rs)
     ELSE Fault

DoZeroBranchNot ==
  /\ AtPrim({"0branch"})
  /\ IF ds # <<>> /\ HasOperand
     THEN Continue(IF TopVal = IntVal(0) THEN Skip ELSE Jump, Pop(ds, 1), rs)
     ELSE Fault

DoZeroBranch ==
  /\ AtPrim({"0branch"})
  /\ IF ds # <<>> /\ HasOperand
     THEN Continue(IF TopVal = IntVal(0) THEN Jump ELSE Skip, Pop(ds, 1), rs)
     ELSE Fault

(* The return stack.  r@ and i0 read whatever is on top of it.             *)
DoToR ==
  /\ AtPrim({">r"})
  /\ IF ds = <<>> THEN Fault ELSE Continue(NextIp, Pop(ds, 1), Append(rs, TopVal))

DoFromR ==
  /\ AtPrim({"r>"})
  /\ IF rs = <<>> THEN Fault ELSE Continue(NextIp, Append(ds, rs[Len(rs)]), Pop(rs, 1))

DoRFetch ==
  /\ AtPrim({"r@", "i0"})
  /\ IF rs = <<>> THEN Fault ELSE Continue(NextIp, Append(ds, rs[Len(rs)]), rs)

DoRDrop ==
  /\ AtPrim({"rdrop"})
  /\ IF rs = <<>> THEN Fault ELSE Continue(NextIp, ds, Pop(rs, 1))

-----------------------------------------------------------------------------
(* Primitives that only touch the data stack.  Flags are -1 and 0.         *)
Flag(b) == IntVal(IF b THEN -1 ELSE 0)

Unary       == {"dup", "drop", "_", "free", "0=", "0>", "0<", "not", "lnot"}
Arithmetic  == {"+", "-", "*", "/", "mod", "and", "or", "xor", "<<", ">>", ">>>"}
Comparisons == {"=", "<>", "<", ">", "<=", ">=", "land", "lor"}

(* idiv: the quotient is rounded towards zero. *)
Magnitude(n) == IF n < 0 THEN -n ELSE n
Quotient(a, b) ==
  LET q == Magnitude(a) \div Magnitude(b) IN IF (a < 0) = (b < 0) THEN q ELSE -q

(* The processor looks at as many bits of a shift count as count the bits  *)
(* of a word.                                                              *)
ShiftCount(b) == Unsigned(b) % WordBits

(* The lowest n bits that a and b have in common, for all n; the other     *)
(* operations follow from their sum.                                       *)
BitOf(a, k) == (Unsigned(a) \div PowerOfTwo[k]) % 2
CommonBits(a, b) ==
  LET low[n \in 0..WordBits] ==
        IF n = 0 THEN 0 ELSE low[n - 1] + BitOf(a, n - 1) * BitOf(b, n - 1) * PowerOfTwo[n - 1]
  IN  low

Conjunction(a, b) == CommonBits(a, b)[WordBits]

(* Mutant of ShiftRight: >> copies the sign, as >>> does. *)
ShiftRightSigned(a, n) == a \div PowerOfTwo[n]

ShiftRight(a, n) == Unsigned(a) \div PowerOfTwo[n]

Calculate(p, a, b) ==
  CASE p = "+"   -> a + b
    [] p = "-"   -> a - b
    [] p = "*"   -> a * b
    [] p = "/"   -> Quotient(a, b)
    [] p = "mod" -> a - b * Quotient(a, b)
    [] p = "and" -> Conjunction(a, b)
    [] p = "or"  -> a + b - Conjunction(a, b)
    [] p = "xor" -> a + b - 2 * Conjunction(a, b)
    [] p = "<<"  -> a * PowerOfTwo[ShiftCount(b)]
    [] p = ">>"  -> ShiftRight(a, ShiftCount(b))
    [] p = ">>>" -> a \div PowerOfTwo[ShiftCount(b)]

Compare(p, a, b) ==
  CASE p = "="    -> a = b
    [] p = "<>"   -> a # b
    [] p = "<"    -> a.n < b.n
    [] p = ">"    -> a.n > b.n
    [] p = "<="   -> a.n <= b.n
    [] p = ">="   -> a.n >= b.n
    [] p = "land" -> a # IntVal(0) /\ b # IntVal(0)
    [] p = "lor"  -> a # IntVal(0) \/ b # IntVal(0)

(* A division by zero, or with a quotient that is no word. *)
Traps(p, a, b) == p \in {"/", "mod"} /\ (b = 0 \/ (a = MinWord /\ b = -1))

DataResult(p, s) ==
  LET n == Len(s)
      b == s[n]
      a == s[n - 1]
      Replace(v) == Append(Pop(s, 1), v)
  IN  CASE p = "dup" -> Append(s, b)
        [] p = "_"   -> s
        [] p \in {"drop", "free"} -> Pop(s, 1)
        [] p \in {"0=", "lnot"} -> Replace(Flag(b = IntVal(0)))
        [] p = "0>"   -> Replace(Flag(b.n > 0))
        [] p = "0<"   -> Replace(Flag(b.n < 0))
        [] p = "not"  -> Replace(IntVal(-1 - b.n))
        [] p = "over" -> Append(s, a)
        [] p \in Arithmetic  -> Append(Pop(s, 2), IntVal(WrapWord(Calculate(p, a.n, b.n))))
        [] p \in Comparisons -> Append(Pop(s, 2), Flag(Compare(p, a, b)))

DoData ==
  /\ AtPrim(Unary \cup {"over"} \cup Arithmetic \cup Comparisons)
  /\ IF \/ Len(ds) < (IF Cell.s \in Unary THEN 1 ELSE 2)
        \/ Len(ds) > 1 /\ Traps(Cell.s, ds[Len(ds) - 1].n, TopVal.n)
     THEN Fault
     ELSE Continue(NextIp, DataResult(Cell.s, ds), rs)

(* swap, rot, 2>r and 2r> use rbx, the instruction pointer, as a scratch   *)
(* register: the value they leave in it is where the machine goes on.      *)
GoOn(scratch, d, r) ==
  IF scratch.tag # "pos" THEN Fault ELSE Continue(Position(scratch.n, scratch.pos), d, r)

DoSwap ==
  /\ AtPrim({"swap"})
  /\ LET n == Len(ds) IN
     IF n < 2 THEN Fault
     ELSE GoOn(ds[n - 1], Pop(ds, 2) \o <<ds[n], ds[n - 1]>>, rs)

DoRot ==
  /\ AtPrim({"rot"})
  /\ LET n == Len(ds) IN
     IF n < 3 THEN Fault
     ELSE GoOn(ds[n - 1], Pop(ds, 3) \o <<ds[n - 1], ds[n], ds[n - 2]>>, rs)

DoTwoToR ==
  /\ AtPrim({"2>r"})
  /\ IF Len(ds) < 2 THEN Fault
     ELSE GoOn(TopVal, Pop(ds, 2), rs \o SubSeq(ds, Len(ds) - 1, Len(ds)))

DoTwoFromR ==
  /\ AtPrim({"2r>"})
  /\ IF Len(rs) < 2 THEN Fault
     ELSE GoOn(rs[Len(rs)], ds \o SubSeq(rs, Len(rs) - 1, Len(rs)), Pop(rs, 2))

-----------------------------------------------------------------------------
(* Memory.  Addresses below those of malloc and of code are not mapped.    *)
(* Nothing that is stored in a block is ever read back from it (a store    *)
(* leaves the program, see DoStore): its contents stay what they were.     *)
Mapped(v) == v.tag # "int"

(* A negative size is larger than any memory. *)
DoAlloc ==
  /\ AtPrim({"alloc"})
  /\ IF ds = <<>> THEN Fault
     ELSE Continue(NextIp, Append(Pop(ds, 1), IF TopVal.n < 0 THEN IntVal(0) ELSE BlockVal), rs)

(* The length of an array or string is in its first word. *)
DoFetch ==
  /\ AtPrim({"@", "c@", "march.array.length", "str-length"})
  /\ IF ds = <<>> \/ ~Mapped(TopVal) THEN Fault
     ELSE \E w \in JunkWords :
            Continue(NextIp, Append(Pop(ds, 1), IntVal(IF Cell.s = "c@" THEN w % 256 ELSE w)), rs)

(* ( value address -- ), with the value in rbx.                            *)
DoStore ==
  /\ AtPrim({"!", "c!"})
  /\ IF Len(ds) < 2 \/ TopVal.tag # "block" THEN Fault
     ELSE GoOn(ds[Len(ds) - 1], Pop(ds, 2), rs)

(* 0 beyond the length, whatever the length is found to be. *)
DoArrayAt ==
  /\ AtPrim({"march.array.at"})
  /\ IF Len(ds) < 2 \/ ~Mapped(ds[Len(ds) - 1]) THEN Fault
     ELSE \E w \in JunkWords \cup {0} : Continue(NextIp, Append(Pop(ds, 2), IntVal(w)), rs)

(* An element set within the block, or not at all; the reversal of an      *)
(* array of one element.                                                   *)
DoInPlace ==
  /\ AtPrim({"march.array.mut.set", "march.array.mut.reverse"})
  /\ LET k == IF Cell.s = "march.array.mut.set" THEN 3 ELSE 1 IN
     /\ Len(ds) >= k /\ Mapped(ds[Len(ds) + 1 - k])
     /\ Continue(NextIp, Pop(ds, k - 1), rs)

(* What walks along an array or a block leaves rdi, the return stack, in   *)
(* it; array.set writes wherever the length found in memory lets it.       *)
DoLeaveStack ==
  /\ AtPrim({"mut", "memcpy", "march.array.concat", "march.array.mut.set",
             "march.array.mut.fill", "march.array.mut.reverse"})
  /\ Fault

-----------------------------------------------------------------------------
(* Maps (Hamt).  A map with nodes that have been freed is no map: what is  *)
(* read there is whatever malloc has put in their place.                   *)
IsMap(v) ==
  \/ v = MapVal(H!NULL)
  \/ v.tag = "map" /\ \A q \in H!Reach(v.n) : H!At(nodes, q) # H!Gone

(* The nth value from the top; a key as hamt sees it.  Keys and values are *)
(* numbers (a pointer put into a map comes back as one).                   *)
Item(n) == ds[Len(ds) + 1 - n]
Key(v) == Unsigned(v.n)

(* Primitive p with k operands, the last of them the map. *)
AtMap(p, k) == AtPrim({p}) /\ Len(ds) >= k /\ IsMap(Item(k))

DoMapFault ==
  \E p \in {<<"march.map.get", 2>>, <<"march.map.set", 3>>, <<"march.map.remove", 2>>,
            <<"march.map.size", 1>>, <<"march.map.free", 1>>} :
    /\ AtPrim({p[1]})
    /\ ~AtMap(p[1], p[2])
    /\ Fault

DoMapNew ==
  /\ AtPrim({"march.map.new"})
  /\ Continue(NextIp, Append(ds, MapVal(H!NULL)), rs)

DoMapGet ==
  /\ AtMap("march.map.get", 2)
  /\ Continue(NextIp, Append(Pop(ds, 2), IntVal(H!Get(Item(2).n, Key(Item(1))))), rs)

DoMapSize ==
  /\ AtMap("march.map.size", 1)
  /\ Continue(NextIp, Append(Pop(ds, 1), IntVal(H!Size(Item(1).n))), rs)

(* Mutant of DoMapSet: the operands in the wrong order. *)
DoMapSetSwapped ==
  /\ AtMap("march.map.set", 3)
  /\ LET r == H!HamtSet(Item(3).n, Key(Item(1)), Item(2).n) IN
     ContinueWith(NextIp, Append(Pop(ds, 3), MapVal(r.node)), rs, r.heap)

DoMapSet ==
  /\ AtMap("march.map.set", 3)
  /\ LET r == H!HamtSet(Item(3).n, Key(Item(2)), Item(1).n) IN
     ContinueWith(NextIp, Append(Pop(ds, 3), MapVal(r.node)), rs, r.heap)

DoMapRemove ==
  /\ AtMap("march.map.remove", 2)
  /\ LET r == H!HamtRemove(Item(2).n, Key(Item(1))) IN
     ContinueWith(NextIp, Append(Pop(ds, 2), MapVal(r.node)), rs, r.heap)

DoMapFree ==
  /\ AtMap("march.map.free", 1)
  /\ ContinueWith(NextIp, Pop(ds, 1), rs,
                  [i \in 1..Len(nodes) |->
                     IF 2 * i \in H!Reach(Item(1).n) THEN H!Gone ELSE nodes[i]])

-----------------------------------------------------------------------------
(* One turn of vm_dispatch that does not halt. *)
VMStep ==
  \/ DoLit \/ DoAddr \/ DoCall \/ DoExit \/ DoExecute \/ DoBranch \/ DoZeroBranch
  \/ DoToR \/ DoFromR \/ DoRFetch \/ DoRDrop \/ DoTwoToR \/ DoTwoFromR
  \/ DoData \/ DoSwap \/ DoRot
  \/ DoAlloc \/ DoFetch \/ DoStore \/ DoArrayAt \/ DoInPlace \/ DoLeaveStack
  \/ DoMapFault \/ DoMapNew \/ DoMapGet \/ DoMapSize \/ DoMapSet \/ DoMapRemove \/ DoMapFree
=============================================================================
