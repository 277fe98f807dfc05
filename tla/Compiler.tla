------------------------------ MODULE Compiler ------------------------------
(***************************************************************************)
(* The March compiler (src/src/compiler.c) as the runner drives it         *)
(* (src/src/runner.c).                                                     *)
(*                                                                         *)
(* A source file is read token by token: definitions only CAPTURE their    *)
(* tokens (into the definition, or into the innermost quotation of a       *)
(* global stack).  Code is generated later, when the runner asks for a     *)
(* word: the captured tokens are compiled against a stack of types, and    *)
(* every call of a user word compiles that word for the types at the call  *)
(* site, recursively.  The recursion of the C code is the sequence         *)
(* `frames'; its last element holds comp->cells, comp->blob and the type   *)
(* stack, the others what the C functions have saved in local variables.   *)
(***************************************************************************)
EXTENDS Dictionary

CONSTANTS
  Sources,       \* the token sequences a source file may consist of
  Names,         \* the words the runner may be asked for
  GarbageTypes,  \* what a type read from memory nobody has set may be
  MaxRestarts,   \* bound: processes that die and are started again
  MaxFrames,     \* calls of the recursive compile functions the C stack holds
  MaxDefs,       \* MAX_WORD_DEFS
  MaxQuotDepth,  \* MAX_QUOT_DEPTH
  MaxTypeStack,  \* MAX_TYPE_STACK
  MaxQuotRefs,   \* MAX_QUOT_REFS
  MaxArrayDepth, \* MAX_ARRAY_DEPTH
  MaxSpecs       \* MAX_SPECIALIZATIONS

(* Tokens.  A whole declaration "$ ins -> outs ;", of words, is one token; *)
(* BadDecl is one that names an unknown type.  Mark(m) is a delimiter.     *)
(* PutLit and PutPrim are in no source: they are the code of an array      *)
(* literal that is still to be emitted.                                    *)
Token(t, s, n, sig) == [t |-> t, s |-> s, n |-> n, sig |-> sig]
Num(n)    == Token("num", NoName, n, PlaceholderSig)
Str(s)    == Token("str", s, 0, PlaceholderSig)
Word(s)   == Token("word", s, 0, PlaceholderSig)
Mark(m)   == Token(m, NoName, 0, PlaceholderSig)
PutLit(n)  == Token("lit", NoName, n, PlaceholderSig)
PutPrim(s) == Token("prim", s, 0, PlaceholderSig)
Decl(sig) == Token("$", NoName, 0, sig)
BadDecl   == Token("bad$", NoName, 0, PlaceholderSig)
TokenSet  == [t : {"num", "str", "word", ":", ";", "(", ")", "[", "]", "$", "bad$",
                   "lit", "prim"},
              s : STRING, n : Int, sig : Sigs]

ASSUME ConstantsAssumption ==
  /\ Sources \subseteq Seq(TokenSet)
  /\ Names \subseteq STRING
  /\ GarbageTypes \subseteq Types
  /\ MaxRestarts \in Nat /\ MaxFrames \in Nat \ {0} /\ MaxDefs \in Nat
  /\ MaxQuotDepth \in Nat /\ MaxTypeStack \in Nat /\ MaxQuotRefs \in Nat
  /\ MaxArrayDepth \in Nat /\ MaxSpecs \in Nat

VARIABLES
  phase,       \* what the process is doing
  dict,        \* user entries of the dictionary, newest first
  defs,        \* word_defs: name and captured tokens of each definition
  quotStack,   \* quot_stack: captured quotations, top last
  bufDepth,    \* buffer_stack_depth: "(" not yet closed
  pendingSig,  \* pending_type_sig (PlaceholderSig when there is none)
  current,     \* the definition being captured
  blobs,       \* the blob table, kept on disk
  specs,       \* the specialization cache
  quotRefs,    \* pending_quot_count
  markers,     \* array_marker_stack: type stack depths at "[" not yet closed
  frames,      \* the compilations in progress, innermost last
  target,      \* index in dict of the word runner_execute was asked for
  src,         \* the source tokens not read yet
  restarts     \* processes that have died so far

vars == <<phase, dict, defs, quotStack, bufDepth, pendingSig, current, blobs,
          specs, quotRefs, markers, frames, target, src, restarts>>

sourceVars  == <<dict, defs, bufDepth, pendingSig, current, src>>
compileVars == <<blobs, specs, quotRefs, markers, frames, target>>

Phases == {"file", "def", "ready", "compile", "link", "failed", "crashed"}

Quotations == [toks : Seq(TokenSet), home : Nat]
Compiled   == [cells : Seq(Cells), blob : Seq(Items), outs : Seq(Types)]
Ops        == {"none", "mat", "if", "times", "until", "call"}
Frames     == [def : Nat, ins : Seq(Types), toks : Seq(TokenSet),
               cells : Seq(Cells), blob : Seq(Items), types : Seq(Types),
               op : Ops, quots : Seq(Quotations), done : Seq(Compiled)]
Specs      == [name : STRING, ins : Seq(Types), cid : Nat, def : Nat]
Defs       == [name : STRING, toks : Seq(TokenSet)]
Currents   == [name : STRING, toks : Seq(TokenSet), ins : Seq(Types), outs : Seq(Types)]

NoCurrent == [name |-> NoName, toks |-> <<>>, ins |-> <<>>, outs |-> <<>>]

TypeOK ==
  /\ phase \in Phases
  /\ dict \in Seq(Entries)
  /\ defs \in Seq(Defs)
  /\ quotStack \in Seq(Quotations)
  /\ bufDepth \in Nat
  /\ pendingSig \in Sigs
  /\ current \in Currents
  /\ blobs \in Seq(Rows)
  /\ specs \in Seq(Specs)
  /\ quotRefs \in Nat
  /\ markers \in Seq(Nat)
  /\ frames \in Seq(Frames)
  /\ target \in Nat
  /\ src \in Seq(TokenSet)
  /\ restarts \in Nat

(* compiler_create, compiler_register_primitives: a fresh process.         *)
Init ==
  /\ phase = "file" /\ dict = <<>> /\ defs = <<>> /\ quotStack = <<>>
  /\ bufDepth = 0 /\ pendingSig = PlaceholderSig /\ current = NoCurrent
  /\ specs = <<>> /\ quotRefs = 0 /\ markers = <<>> /\ frames = <<>> /\ target = 0
  /\ src \in Sources
  /\ blobs = <<>>
  /\ restarts = 0

(* Any error return: the message is printed, every caller returns false,   *)
(* and marchc exits.  Rows that were stored stay stored.                   *)
Fail == /\ phase' = "failed"
        /\ UNCHANGED <<sourceVars, quotStack, compileVars, restarts>>

-----------------------------------------------------------------------------
(* Reading the source file. *)

At(p, marks) == phase = p /\ src # <<>> /\ Head(src).t \in marks

CompileTypeSigDecl ==
  /\ At("file", {"$"})
  /\ pendingSig' = Head(src).sig
  /\ src' = Tail(src)
  /\ UNCHANGED <<phase, dict, defs, bufDepth, current, quotStack, compileVars, restarts>>

(* compiler_compile_file ignores any other token between definitions ... *)
SkipToken ==
  /\ At("file", {"str", ";", "(", ")", "[", "]"})
  /\ src' = Tail(src)
  /\ UNCHANGED <<phase, dict, defs, bufDepth, pendingSig, current, quotStack, compileVars,
                 restarts>>

(* ... but not a number or a word, a signature it cannot parse, or a ":"   *)
(* that no word follows.                                                   *)
HasName == Len(src) >= 2 /\ src[2].t = "word"

SourceError ==
  /\ \/ At("file", {"num", "word", "bad$"})
     \/ At("file", {":"}) /\ ~HasName
  /\ Fail

(* compile_definition, up to its token loop. *)
BeginDefinition ==
  /\ At("file", {":"})
  /\ HasName
  /\ phase' = "def"
  /\ current' = [name |-> src[2].s, toks |-> <<>>,
                 ins |-> pendingSig.ins, outs |-> pendingSig.outs]
  /\ pendingSig' = PlaceholderSig
  /\ src' = Tail(Tail(src))
  /\ UNCHANGED <<dict, defs, bufDepth, quotStack, compileVars, restarts>>

(* "(": a new quotation on the global stack.  home is a history variable:  *)
(* the number of the definition it was written in.                         *)
CompileLparen ==
  /\ At("def", {"("})
  /\ Len(quotStack) < MaxQuotDepth
  /\ quotStack' = Append(quotStack, [toks |-> <<>>, home |-> Len(defs) + 1])
  /\ bufDepth' = bufDepth + 1
  /\ src' = Tail(src)
  /\ UNCHANGED <<phase, dict, defs, pendingSig, current, compileVars, restarts>>

(* Mutant of CompileRparen: ")" is not matched with "(". *)
CompileRparenUnchecked ==
  /\ At("def", {")"})
  /\ bufDepth' = bufDepth - 1
  /\ src' = Tail(src)
  /\ UNCHANGED <<phase, dict, defs, pendingSig, current, quotStack, compileVars, restarts>>

(* ")": the quotation stays on the stack for the word that consumes it. *)
CompileRparen ==
  /\ At("def", {")"})
  /\ quotStack # <<>> /\ bufDepth > 0
  /\ bufDepth' = bufDepth - 1
  /\ src' = Tail(src)
  /\ UNCHANGED <<phase, dict, defs, pendingSig, current, quotStack, compileVars, restarts>>

(* "(" when the stack is full, ")" without "(". *)
ParenError ==
  /\ \/ At("def", {"("}) /\ Len(quotStack) >= MaxQuotDepth
     \/ At("def", {")"}) /\ (quotStack = <<>> \/ bufDepth = 0)
  /\ Fail

(* A signature declaration is none in a definition, which ends at its ";". *)
(* The types in front of that are captured with the "$", where compiling   *)
(* fails, and are not modelled.                                            *)
RestOfDefinition ==
  IF Head(src).t \in {"$", "bad$"} THEN <<Mark(";")>> \o Tail(src) ELSE Tail(src)

(* Any other token: into the quotation on top of the stack while one is    *)
(* open, else into the definition.                                         *)
CaptureToken ==
  /\ At("def", {"num", "str", "word", ":", "[", "]", "$", "bad$"})
  /\ IF bufDepth > 0
     THEN /\ quotStack' = [quotStack EXCEPT ![Len(quotStack)].toks = Append(@, Head(src))]
          /\ UNCHANGED current
     ELSE /\ current' = [current EXCEPT !.toks = Append(@, Head(src))]
          /\ UNCHANGED quotStack
  /\ src' = RestOfDefinition
  /\ UNCHANGED <<phase, dict, defs, bufDepth, pendingSig, compileVars, restarts>>

(* ";" or the end of the file: the definition is stored and the word       *)
(* becomes visible, uncompiled.                                            *)
AtEndOfDefinition == phase = "def" /\ (src # <<>> => Head(src).t = ";")

EndDefinition ==
  /\ AtEndOfDefinition
  /\ Len(defs) < MaxDefs
  /\ phase' = "file"
  /\ defs' = Append(defs, [name |-> current.name, toks |-> current.toks])
  /\ dict' = <<Entry(current.name, Sig(current.ins, current.outs), "word", NoName, NoName,
                     Len(defs) + 1)>> \o dict
  /\ current' = NoCurrent
  /\ src' = IF src = <<>> THEN src ELSE Tail(src)
  /\ UNCHANGED <<bufDepth, pendingSig, quotStack, compileVars, restarts>>

TooManyDefinitions ==
  /\ AtEndOfDefinition
  /\ Len(defs) >= MaxDefs
  /\ Fail

EndOfFile ==
  /\ phase = "file"
  /\ src = <<>>
  /\ phase' = "ready"
  /\ UNCHANGED <<sourceVars, quotStack, compileVars, restarts>>

-----------------------------------------------------------------------------
(* Frames and the type stack. *)

Top == frames[Len(frames)]
SetTop(f) == [frames EXCEPT ![Len(frames)] = f]
PopFrame == SubSeq(frames, 1, Len(frames) - 1)

NewFrame(def, ins, types, toks) ==
  [def |-> def, ins |-> ins, toks |-> toks, cells |-> <<>>, blob |-> <<>>,
   types |-> types, op |-> "none", quots |-> <<>>, done |-> <<>>]

(* push_type once for each of ts: what does not fit is dropped, with a     *)
(* message and no error.                                                   *)
PushTypes(types, ts) ==
  LET all == types \o ts IN
  IF Len(all) <= MaxTypeStack THEN all ELSE SubSeq(all, 1, MaxTypeStack)

(* The head token of frame f has been compiled to `cells' and `items' and  *)
(* leaves the type stack `types'.                                          *)
Emit(f, cells, items, types) ==
  [f EXCEPT !.cells = @ \o cells, !.blob = @ \o items, !.types = types,
            !.toks = Tail(@), !.op = "none", !.quots = <<>>, !.done = <<>>]

(* What looking a primitive up by name emits: whatever is at the head of   *)
(* its chain.                                                              *)
XtOf(name)   == Xt(DictLookup(dict, name).addr)
PrimOf(name) == Prim(DictLookup(dict, name).prim)

(* word_compile_with_context and quot_compile_with_context recurse on the  *)
(* C stack.                                                                *)
Enter(caller, callee) ==
  IF Len(frames) >= MaxFrames
  THEN /\ phase' = "crashed"
       /\ UNCHANGED frames
  ELSE /\ frames' = Append(SetTop(caller), callee)
       /\ UNCHANGED phase

Compiling == phase = "compile" /\ frames # <<>>
Idle      == Compiling /\ Top.op = "none"
AtToken   == Idle /\ Top.toks # <<>>
Tok       == Head(Top.toks)

-----------------------------------------------------------------------------
(* Literals. *)

(* A literal in both encodings, in a row of its own. *)
EmitLiteral(n, types) ==
  /\ blobs' = StoreBlob(blobs, BLOB_DATA, LitData(n))
  /\ frames' = SetTop(Emit(Top, <<Lit(n)>>,
                           <<Ref(BLOB_DATA, CidOf(blobs, LitData(n)))>>, types))
  /\ UNCHANGED <<phase, sourceVars, quotStack, specs, quotRefs, markers, target, restarts>>

CompileNumber ==
  /\ AtToken
  /\ Tok.t = "num"
  /\ EmitLiteral(Tok.n, PushTypes(Top.types, <<"i64">>))

CompileString ==
  /\ AtToken
  /\ Tok.t = "str"
  /\ blobs' = StoreBlob(blobs, BLOB_STRING, StrData(Tok.s))
  /\ frames' = SetTop(Emit(Top, <<Lit(0)>>,
                           <<Ref(BLOB_DATA, CidOf(blobs, StrData(Tok.s)))>>,
                           PushTypes(Top.types, <<"str">>)))
  /\ UNCHANGED <<phase, sourceVars, quotStack, specs, quotRefs, markers, target, restarts>>

UnexpectedToken ==
  /\ AtToken
  /\ Tok.t \in {":", "$", "bad$"}
  /\ Fail

-----------------------------------------------------------------------------
(* Array literals.  "[" remembers how deep the type stack is; whatever "]" *)
(* finds above that depth is an element.  The depths are kept from one     *)
(* word, and one quotation, to the next.                                   *)

CompileLbracket ==
  /\ AtToken
  /\ Tok.t = "["
  /\ Len(markers) < MaxArrayDepth
  /\ markers' = Append(markers, Len(Top.types))
  /\ frames' = SetTop(Emit(Top, <<>>, <<>>, Top.types))
  /\ UNCHANGED <<phase, sourceVars, quotStack, blobs, specs, quotRefs, target, restarts>>

(* type_id_t. *)
TypeIds == <<"i64", "u64", "f64", "ptr", "bool", "str", "str!", "array", "array!", "any",
             "a", "b", "c">>

TypeNumber(type) ==
  LET ids == {i \in 1..Len(TypeIds) : TypeIds[i] = type}
  IN  IF ids = {} THEN 0 ELSE CHOOSE i \in ids : TRUE

ASSUME ArrayWordsAssumption ==
  {"alloc", "dup", "!", "+", "swap", "c!", ">r", "r@", "r>"} \subseteq STRING

(* An array has a header of 32 bytes, then its elements.                   *)
EmptyArrayCode ==
  <<PutLit(32), PutPrim("alloc"), PutPrim("dup"), PutLit(0), PutPrim("!")>>

HeaderCode(count, type) ==
  <<PutLit(32 + count * 8), PutPrim("alloc"),
    PutPrim("dup"), PutLit(count), PutPrim("!"),
    PutPrim("dup"), PutLit(8), PutPrim("+"), PutLit(8), PutPrim("swap"), PutPrim("c!"),
    PutPrim("dup"), PutLit(16), PutPrim("+"), PutLit(TypeNumber(type)), PutPrim("!"),
    PutPrim(">r")>>

(* Element i, counted from 0; the last, which is on top, comes first.      *)
StoreElement(i) ==
  <<PutPrim("r@"), PutLit(32 + i * 8), PutPrim("+"), PutPrim("swap"), PutPrim("!")>>

StoreElements(count) ==
  [k \in 1..5 * count |-> StoreElement(count - 1 - ((k - 1) \div 5))[((k - 1) % 5) + 1]]

ArrayCode(count, type) ==
  IF count = 0 THEN EmptyArrayCode
  ELSE HeaderCode(count, type) \o StoreElements(count) \o <<PutPrim("r>")>>

(* "]" finds count elements above the depth that "[" has remembered.  It   *)
(* may find fewer types than that: then count is negative, the stack is    *)
(* raised over types nobody has set, and the element type is one of those. *)
Marker   == markers[Len(markers)]
Count    == Len(Top.types) - Marker
Elements == SubSeq(Top.types, Marker + 1, Len(Top.types))

ElementTypes ==
  CASE Count > 0 -> {Elements[1]}
    [] Count = 0 -> {UNKNOWN}
    [] Count < 0 -> GarbageTypes

Raised == {Top.types \o ts : ts \in [1..-Count -> GarbageTypes]}
TypesAtMarker == IF Count >= 0 THEN {SubSeq(Top.types, 1, Marker)} ELSE Raised

(* The code replaces the token; EmitLit and EmitPrim emit it.              *)
CompileRbracket ==
  /\ AtToken
  /\ Tok.t = "]"
  /\ markers # <<>>
  /\ \A i \in 1..Len(Elements) : Elements[i] = Elements[1]
  /\ markers' = SubSeq(markers, 1, Len(markers) - 1)
  /\ \E type \in ElementTypes, types \in TypesAtMarker :
       frames' = SetTop([Top EXCEPT !.toks = ArrayCode(Count, type) \o Tail(@),
                                    !.types = PushTypes(types, <<"array">>)])
  /\ UNCHANGED <<phase, sourceVars, quotStack, blobs, specs, quotRefs, target, restarts>>

(* "[" too deep, "]" without "[", elements of different types. *)
ArrayError ==
  /\ AtToken
  /\ \/ Tok.t = "[" /\ Len(markers) >= MaxArrayDepth
     \/ Tok.t = "]" /\ markers = <<>>
     \/ /\ Tok.t = "]" /\ markers # <<>>
        /\ \E i \in 1..Len(Elements) : Elements[i] # Elements[1]
  /\ Fail

EmitLit ==
  /\ AtToken
  /\ Tok.t = "lit"
  /\ EmitLiteral(Tok.n, Top.types)

EmitPrim ==
  /\ AtToken
  /\ Tok.t = "prim"
  /\ frames' = SetTop(Emit(Top, <<XtOf(Tok.s)>>, <<PrimOf(Tok.s)>>, Top.types))
  /\ UNCHANGED <<phase, sourceVars, quotStack, blobs, specs, quotRefs, target, markers,
                 restarts>>

-----------------------------------------------------------------------------
(* compile_word. *)

AtWord == AtToken /\ Tok.t = "word"
HeadEntry == DictLookup(dict, Tok.s)

(* Pending quotations become run-time values before a word that is not     *)
(* immediate ...                                                           *)
MustMaterialize == HeadEntry.kind # "imm" /\ quotStack # <<>> /\ bufDepth = 0

AtResolved == AtWord /\ HeadEntry # NoEntry /\ ~MustMaterialize

(* ... and the types they push take part in the overload resolution. *)
Resolved == DictLookupTyped(dict, Tok.s, Top.types)

WordError ==
  /\ AtWord
  /\ HeadEntry = NoEntry \/ (~MustMaterialize /\ Resolved = NoEntry)
  /\ Fail

(* A primitive. *)
CompilePrimitive ==
  /\ AtResolved
  /\ Resolved.kind = "prim"
  /\ IF ~SignatureApplies(Resolved, Top.types)
     THEN Fail
     ELSE /\ frames' = SetTop(Emit(Top, <<Xt(Resolved.addr)>>, <<Prim(Resolved.prim)>>,
                                   PushTypes(Below(Top.types, Len(Resolved.ins)),
                                             Outputs(Resolved, Top.types))))
          /\ UNCHANGED <<phase, sourceVars, quotStack, blobs, specs, quotRefs,
                         markers, target, restarts>>

-----------------------------------------------------------------------------
(* Calls of user words: monomorphization and the specialization cache. *)

CallInputs == TopOf(Top.types, Len(Resolved.ins))

(* specialization_lookup compares the name and the concrete input types. *)
SpecHits(name, ins) ==
  {i \in 1..Len(specs) : specs[i].name = name /\ specs[i].ins = ins}

FirstOf(S) == CHOOSE i \in S : \A j \in S : i <= j

(* The end of compile_word for a user word: apply the declared signature   *)
(* (not what the compiled body leaves) and emit the call.                  *)
EmitCall(f, entry, cid) ==
  Emit(f, <<Xt(NoName)>>, <<Ref(BLOB_WORD, cid)>>,
       PushTypes(Below(f.types, Len(entry.ins)), Outputs(entry, f.types)))

CallHit ==
  /\ AtResolved
  /\ Resolved.kind = "word"
  /\ SpecHits(Tok.s, CallInputs) # {}
  /\ IF ~SignatureApplies(Resolved, Top.types)
     THEN Fail
     ELSE /\ frames' = SetTop(EmitCall(Top, Resolved,
                                specs[FirstOf(SpecHits(Tok.s, CallInputs))].cid))
          /\ UNCHANGED <<phase, sourceVars, quotStack, blobs, specs, quotRefs,
                         markers, target, restarts>>

CallMiss ==
  /\ AtResolved
  /\ Resolved.kind = "word"
  /\ SpecHits(Tok.s, CallInputs) = {}
  /\ Enter([Top EXCEPT !.op = "call"],
           NewFrame(Resolved.def, CallInputs, PushTypes(<<>>, CallInputs),
                    defs[Resolved.def].toks))
  /\ UNCHANGED <<sourceVars, quotStack, blobs, specs, quotRefs, markers, target, restarts>>

(* Mutant of WordDone: a word is not finished while some "(" is open. *)
WordDoneClosed ==
  Idle /\ Top.toks = <<>> /\ Top.def # 0 /\ quotStack = <<>> /\ bufDepth = 0

(* A word frame is finished when its tokens are and no quotation is left.  *)
WordDone == Idle /\ Top.toks = <<>> /\ Top.def # 0 /\ quotStack = <<>>

(* Mutant of SpecStore: the input types are left out of the key. *)
SpecStoreUnkeyed(name, ins, cid, def) ==
  IF Len(specs) >= MaxSpecs THEN specs
  ELSE Append(specs, [name |-> name, ins |-> <<>>, cid |-> cid, def |-> def])

(* specialization_store: a full cache is not an error. *)
SpecStore(name, ins, cid, def) ==
  IF Len(specs) >= MaxSpecs THEN specs
  ELSE Append(specs, [name |-> name, ins |-> ins, cid |-> cid, def |-> def])

(* word_compile_with_context returns to compile_word. *)
FinishCall ==
  /\ WordDone
  /\ Len(frames) > 1
  /\ LET code   == CodeData(Top.blob)
         cid    == CidOf(blobs, code)
         caller == frames[Len(frames) - 1]
         name   == Head(caller.toks).s
         entry  == DictLookupTyped(dict, name, caller.types)
     IN  /\ blobs' = StoreBlob(blobs, BLOB_WORD, code)
         /\ specs' = SpecStore(name, Top.ins, cid, entry.def)
         /\ IF ~SignatureApplies(entry, caller.types)
            THEN phase' = "failed" /\ UNCHANGED frames
            ELSE /\ frames' = [PopFrame EXCEPT ![Len(frames) - 1] =
                                 EmitCall(caller, entry, cid)]
                 /\ UNCHANGED phase
  /\ UNCHANGED <<sourceVars, quotStack, quotRefs, markers, target, restarts>>

-----------------------------------------------------------------------------
(* Quotations.  A consumer takes its quotations from the global stack and  *)
(* compiles them one after the other with the types at the point of use.   *)

(* Mutant of LeaveQuots: one quotation too few is popped. *)
LeaveQuotsOne(n) == SubSeq(quotStack, 1, Len(quotStack) - n + 1)

(* The n quotations on top of the stack, lowest first, and the rest. *)
TakeQuots(n) == SubSeq(quotStack, Len(quotStack) - n + 1, Len(quotStack))
LeaveQuots(n) == SubSeq(quotStack, 1, Len(quotStack) - n)

Consume(n, op, quots, types) ==
  /\ frames' = SetTop([Top EXCEPT !.op = op, !.quots = quots, !.types = types])
  /\ quotStack' = LeaveQuots(n)
  /\ UNCHANGED <<phase, sourceVars, blobs, specs, quotRefs, markers, target, restarts>>

(* One turn of the loop of materialize_quotations, in front of a word that *)
(* is not immediate or at the end of a word.                               *)
BeginMaterialize ==
  /\ Idle
  /\ quotStack # <<>>
  /\ \/ AtWord /\ HeadEntry # NoEntry /\ MustMaterialize
     \/ Top.toks = <<>> /\ Top.def # 0
  /\ Consume(1, "mat", TakeQuots(1), Top.types)

(* quot_compile_with_context: an empty context for a value, the types of   *)
(* the consumer for code that is inlined.                                  *)
EnterQuotation ==
  /\ Compiling
  /\ Len(Top.done) < Len(Top.quots)
  /\ LET ctx == IF Top.op = "mat" THEN <<>> ELSE Top.types
     IN  Enter(Top, NewFrame(0, ctx, ctx, Top.quots[Len(Top.done) + 1].toks))
  /\ UNCHANGED <<sourceVars, quotStack, blobs, specs, quotRefs, markers, target, restarts>>

FinishQuotation ==
  /\ Idle
  /\ Len(frames) > 1
  /\ Top.toks = <<>> /\ Top.def = 0
  /\ frames' = [PopFrame EXCEPT ![Len(frames) - 1].done =
                  Append(@, [cells |-> Append(Top.cells, Exit), blob |-> Top.blob,
                             outs |-> Top.types])]
  /\ UNCHANGED <<phase, sourceVars, quotStack, blobs, specs, quotRefs, markers, target, restarts>>

(* All quotations of the pending operation are compiled. *)
Ready(op) == Compiling /\ Top.op = op /\ Len(Top.done) = Len(Top.quots)

(* The rest of the loop body of materialize_quotations.  The token in      *)
(* front of which it happens is still to be compiled.                      *)
FinishMaterialize ==
  /\ Ready("mat")
  /\ LET code == CodeData(Top.done[1].blob) IN
     /\ blobs' = StoreBlob(blobs, BLOB_QUOTATION, code)
     /\ IF quotRefs >= MaxQuotRefs
        THEN phase' = "failed" /\ UNCHANGED <<frames, quotRefs>>
        ELSE /\ quotRefs' = quotRefs + 1
             /\ frames' = SetTop([Top EXCEPT
                  !.cells = Append(@, Lit(0)),
                  !.blob = Append(@, Ref(BLOB_QUOTATION, CidOf(blobs, code))),
                  !.types = PushTypes(@, <<"ptr">>),
                  !.op = "none", !.quots = <<>>, !.done = <<>>])
             /\ UNCHANGED phase
  /\ UNCHANGED <<sourceVars, quotStack, specs, markers, target, restarts>>

-----------------------------------------------------------------------------
(* Immediate words. *)

AtImmediate(names) == AtResolved /\ Resolved.kind = "imm" /\ Tok.s \in names

CompileBool ==
  /\ AtImmediate({"true", "false"})
  /\ EmitLiteral(IF Tok.s = "true" THEN -1 ELSE 0, PushTypes(Top.types, <<"i64">>))

(* The effect of a stack word on the type stack. *)
StackEffect(name, ts) ==
  LET n == Len(ts) IN
  CASE name = "drop" -> SubSeq(ts, 1, n - 1)
    [] name = "dup"  -> Append(ts, ts[n])
    [] name = "over" -> Append(ts, ts[n - 1])
    [] name = "swap" -> [ts EXCEPT ![n - 1] = ts[n], ![n] = ts[n - 1]]
    [] name = "rot"  -> [ts EXCEPT ![n - 2] = ts[n - 1], ![n - 1] = ts[n],
                                   ![n] = ts[n - 2]]

(* Mutant of CompileStackWord: dup and over do not ask for room.           *)
CompileStackWordUnchecked ==
  /\ AtImmediate(StackWords)
  /\ frames' = SetTop(Emit(Top, <<XtOf(Tok.s)>>, <<PrimOf(Tok.s)>>,
                           StackEffect(Tok.s, Top.types)))
  /\ UNCHANGED <<phase, sourceVars, quotStack, blobs, specs, quotRefs, markers, target,
                 restarts>>

(* compile_drop, compile_dup, compile_swap, compile_over, compile_rot: the *)
(* primitive is looked up by name again, now without types.  The overload  *)
(* resolution has made sure that the stack is deep enough.                 *)
CompileStackWord ==
  /\ AtImmediate(StackWords)
  /\ IF Tok.s \in {"dup", "over"} /\ Len(Top.types) >= MaxTypeStack
     THEN Fail
     ELSE /\ frames' = SetTop(Emit(Top, <<XtOf(Tok.s)>>, <<PrimOf(Tok.s)>>,
                                   StackEffect(Tok.s, Top.types)))
          /\ UNCHANGED <<phase, sourceVars, quotStack, blobs, specs, quotRefs,
                         markers, target, restarts>>

(* if without two quotations or a flag, times without a quotation.  (times *)
(* always finds a value on the stack: its signature asks for one.)         *)
ControlError ==
  \/ /\ AtImmediate({"if"})
     /\ Len(quotStack) < 2 \/ Top.types = <<>>
     /\ Fail
  \/ /\ AtImmediate({"times"})
     /\ quotStack = <<>>
     /\ Fail

BeginIf ==
  /\ AtImmediate({"if"})
  /\ Len(quotStack) >= 2
  /\ Top.types # <<>>
  /\ Consume(2, "if", TakeQuots(2), Below(Top.types, 1))

(* compile_times_dispatch: two quotations make an until loop. *)
BeginTimes ==
  /\ AtImmediate({"times"})
  /\ Len(quotStack) = 1
  /\ Consume(1, "times", TakeQuots(1), Below(Top.types, 1))

BeginUntil ==
  /\ AtImmediate({"times"})
  /\ Len(quotStack) >= 2
  /\ Consume(2, "until", TakeQuots(2), Top.types)

(* The code of a compiled quotation without its EXIT.  The item encoding   *)
(* has no EXIT, but its branch offsets are counted in cells.               *)
Body(q) == SubSeq(q.cells, 1, Len(q.cells) - 1)

(* compile_if, legacy cells: the offsets are patched from positions in the *)
(* buffer, which already holds `pos' cells.                                *)
IfCells(pos, t, f) ==
  LET zbranchPos == pos + 1
      branchPos  == zbranchPos + 1 + Len(Body(t)) + 1
      elsePos    == branchPos + 1
      endPos     == elsePos + Len(Body(f))
  IN  <<XtOf("0branch"), Lit(elsePos - zbranchPos - 1)>> \o Body(t)
      \o <<XtOf("branch"), Lit(endPos - branchPos - 1)>> \o Body(f)

(* Mutant of IfItems: the jump to the false branch forgets the branch over *)
(* it.                                                                     *)
IfItemsShort(t, f) ==
  <<PrimOf("0branch"), InlineLit(Len(t.cells) - 1 + 1)>> \o t.blob
  \o <<PrimOf("branch"), InlineLit(Len(f.cells) - 1)>> \o f.blob

IfItems(t, f) ==
  <<PrimOf("0branch"), InlineLit(Len(t.cells) - 1 + 2)>> \o t.blob
  \o <<PrimOf("branch"), InlineLit(Len(f.cells) - 1)>> \o f.blob

(* Both branches have been compiled for the same types; what the true      *)
(* branch leaves is pushed on top of them.                                 *)
CompileIf ==
  /\ Ready("if")
  /\ LET t == Top.done[1]
         f == Top.done[2]
     IN  frames' = SetTop(Emit(Top, IfCells(Len(Top.cells), t, f), IfItems(t, f),
                               PushTypes(Top.types, t.outs)))
  /\ UNCHANGED <<phase, sourceVars, quotStack, blobs, specs, quotRefs, markers, target, restarts>>

(* compile_times: the counter lives on the return stack. *)
TimesCells(pos, b) ==
  LET startPos == pos + 1
      exitPos  == startPos + 2
      backPos  == exitPos + 1 + 4 + Len(Body(b)) + 1
  IN  <<XtOf(">r"), XtOf("r@"), XtOf("0branch"), Lit(backPos + 1 - exitPos - 1),
        XtOf("r>"), Lit(1), XtOf("-"), XtOf(">r")>>
      \o Body(b)
      \o <<XtOf("branch"), Lit(startPos - backPos - 1), XtOf("rdrop")>>

(* Mutant of TimesItems: the jump back is one short. *)
TimesItemsShort(b) ==
  <<PrimOf(">r"), PrimOf("r@"), PrimOf("0branch"), InlineLit(Len(b.cells) - 1 + 6),
    PrimOf("r>"), InlineLit(1), PrimOf("-"), PrimOf(">r")>>
  \o b.blob
  \o <<PrimOf("branch"), InlineLit(-(7 + (Len(b.cells) - 1) + 1)), PrimOf("rdrop")>>

TimesItems(b) ==
  <<PrimOf(">r"), PrimOf("r@"), PrimOf("0branch"), InlineLit(Len(b.cells) - 1 + 6),
    PrimOf("r>"), InlineLit(1), PrimOf("-"), PrimOf(">r")>>
  \o b.blob
  \o <<PrimOf("branch"), InlineLit(-(7 + (Len(b.cells) - 1) + 2)), PrimOf("rdrop")>>

CompileTimes ==
  /\ Ready("times")
  /\ frames' = SetTop(Emit(Top, TimesCells(Len(Top.cells), Top.done[1]),
                           TimesItems(Top.done[1]), Top.types))
  /\ UNCHANGED <<phase, sourceVars, quotStack, blobs, specs, quotRefs, markers, target, restarts>>

(* compile_times_until: body, then condition, repeated until the condition *)
(* leaves a value that is not zero.                                        *)
UntilCells(pos, c, b) ==
  LET startPos == pos
      backPos  == startPos + Len(Body(b)) + Len(Body(c)) + 1
  IN  Body(b) \o Body(c) \o <<XtOf("0branch"), Lit(startPos - backPos - 1)>>

UntilItems(c, b) ==
  b.blob \o c.blob
  \o <<PrimOf("0branch"), InlineLit(-((Len(b.cells) - 1) + (Len(c.cells) - 1) + 1 + 1))>>

CompileTimesUntil ==
  /\ Ready("until")
  /\ LET c == Top.done[1]
         b == Top.done[2]
     IN  frames' = SetTop(Emit(Top, UntilCells(Len(Top.cells), c, b), UntilItems(c, b),
                               Top.types))
  /\ UNCHANGED <<phase, sourceVars, quotStack, blobs, specs, quotRefs, markers, target, restarts>>

-----------------------------------------------------------------------------
(* runner_execute. *)

DictIndex(name) == FirstOf({i \in 1..Len(dict) : dict[i].name = name})
IsUserWord(name) == \E i \in 1..Len(dict) : dict[i].name = name

(* The first run of a word compiles it.  As many input types as its        *)
(* signature has are read from an array nobody has written.                *)
RunnerCompile(name) ==
  /\ phase = "ready"
  /\ IsUserWord(name)
  /\ dict[DictIndex(name)].cid = 0
  /\ target' = DictIndex(name)
  /\ phase' = "compile"
  /\ LET entry == dict[DictIndex(name)] IN
     \E ins \in [1..Len(entry.ins) -> GarbageTypes] :
       frames' = <<NewFrame(entry.def, ins, PushTypes(<<>>, ins), defs[entry.def].toks)>>
  /\ UNCHANGED <<sourceVars, quotStack, blobs, specs, quotRefs, markers, restarts>>

(* The compiled word is stored and its entry remembers the row. *)
FinishRun ==
  /\ WordDone
  /\ Len(frames) = 1
  /\ blobs' = StoreBlob(blobs, BLOB_WORD, CodeData(Top.blob))
  /\ dict' = [dict EXCEPT ![target].cid = CidOf(blobs, CodeData(Top.blob))]
  /\ phase' = "link"
  /\ frames' = <<>>
  /\ UNCHANGED <<defs, bufDepth, pendingSig, current, src, quotStack, specs, quotRefs,
                 markers, target, restarts>>

(* Later runs use the row. *)
RunnerLink(name) ==
  /\ phase = "ready"
  /\ IsUserWord(name)
  /\ dict[DictIndex(name)].cid # 0
  /\ target' = DictIndex(name)
  /\ phase' = "link"
  /\ UNCHANGED <<sourceVars, quotStack, blobs, specs, quotRefs, frames, markers, restarts>>

(* A name no definition has: the legacy loader finds no such word. *)
RunnerError(name) ==
  /\ phase = "ready"
  /\ ~IsUserWord(name)
  /\ Fail

(* loader_link_cid has failed, or it and vm_run have returned.  (Module    *)
(* Loader says what linking does.)                                         *)
RunDone ==
  /\ phase = "link"
  /\ phase' \in {"ready", "failed"}
  /\ UNCHANGED <<sourceVars, quotStack, compileVars, restarts>>

(* The process dies at any moment and another one is started on the same   *)
(* database.                                                               *)
Restart ==
  /\ restarts < MaxRestarts
  /\ restarts' = restarts + 1
  /\ phase' = "file" /\ dict' = <<>> /\ defs' = <<>> /\ quotStack' = <<>>
  /\ bufDepth' = 0 /\ pendingSig' = PlaceholderSig /\ current' = NoCurrent
  /\ specs' = <<>> /\ quotRefs' = 0 /\ markers' = <<>> /\ frames' = <<>> /\ target' = 0
  /\ src' \in Sources
  /\ UNCHANGED blobs

-----------------------------------------------------------------------------
ReadSource ==
  \/ CompileTypeSigDecl \/ SkipToken \/ SourceError
  \/ BeginDefinition \/ CompileLparen \/ CompileRparen \/ ParenError \/ CaptureToken
  \/ EndDefinition \/ TooManyDefinitions
  \/ EndOfFile

CompileStep ==
  \/ CompileNumber \/ CompileString \/ UnexpectedToken
  \/ CompileLbracket \/ CompileRbracket \/ ArrayError \/ EmitLit \/ EmitPrim
  \/ WordError \/ CompilePrimitive \/ CallHit \/ CallMiss \/ FinishCall
  \/ BeginMaterialize \/ EnterQuotation \/ FinishQuotation \/ FinishMaterialize
  \/ CompileBool \/ CompileStackWord \/ ControlError
  \/ BeginIf \/ BeginTimes \/ BeginUntil
  \/ CompileIf \/ CompileTimes \/ CompileTimesUntil
  \/ FinishRun

RunnerExecute ==
  \E name \in Names :
    \/ RunnerCompile(name)
    \/ RunnerLink(name)
    \/ RunnerError(name)

Next == ReadSource \/ CompileStep \/ RunnerExecute \/ RunDone \/ Restart

(* The compiler is sequential code: once called it keeps taking steps. *)
Spec == Init /\ [][Next]_vars /\ WF_vars(CompileStep)

-----------------------------------------------------------------------------
(* Properties. *)

(* Branch offsets are computed from the number of legacy cells and written *)
(* into the item encoding, so the two must stay in step: one cell for each *)
(* item, and the same value wherever the item is an inline literal.        *)
InStep(cells, items) ==
  /\ Len(cells) = Len(items)
  /\ \A i \in 1..Len(items) : items[i].tag = "lit" => cells[i] = Lit(items[i].n)

(* The cells and the items of every compilation in progress, and of every  *)
(* quotation waiting to be inlined (whose cells end in EXIT), are in step. *)
EncodingsInStep ==
  \A i \in 1..Len(frames) :
    /\ InStep(frames[i].cells, frames[i].blob)
    /\ \A k \in 1..Len(frames[i].done) :
         /\ frames[i].done[k].cells # <<>>
         /\ InStep(Body(frames[i].done[k]), frames[i].done[k].blob)

(* In every stored word and quotation each branch is followed by its       *)
(* operand and jumps to an instruction of the same code, or just past its  *)
(* end, where the loader puts the EXIT; never to another branch's operand. *)
BranchNames == {"branch", "0branch"}
IsBranch(item) == item.tag = "prim" /\ item.s \in BranchNames

LandsAt(code, i) ==
  IsBranch(code[i]) =>
    /\ i < Len(code)
    /\ code[i + 1].tag = "lit"
    /\ LET to == i + 2 + code[i + 1].n IN
       /\ to \in 1..Len(code) + 1
       /\ to > 1 => ~IsBranch(code[to - 1])

Lands(code) == \A i \in 1..Len(code) : LandsAt(code, i)

BranchesLand == \A r \in 1..Len(blobs) : Lands(blobs[r].data.code)

(* It is kept if the source leaves the two primitives to the compiler:     *)
(* they are words like any other, and compiled as they are written.        *)
PlainTokens == {tok \in TokenSet : tok.t \in {"word", "prim"} => tok.s \notin BranchNames}
NoRawBranches == Sources \subseteq Seq(PlainTokens)

(* Code that is still being compiled refers only to rows that are already  *)
(* in the table: a process may die after any step and leave no row whose   *)
(* references dangle.                                                      *)
PendingClosed ==
  \A i \in 1..Len(frames) :
    /\ RefsBelow(frames[i].blob, Len(blobs))
    /\ \A k \in 1..Len(frames[i].done) : RefsBelow(frames[i].done[k].blob, Len(blobs))

(* The blob table implements module BlobStore, restarts included. *)
Table == INSTANCE BlobStore WITH rows <- blobs
TableSpec == Table!Spec

(* The loader decides by the kind of the REFERENCE what to do with what    *)
(* the kind of the ROW made of it: a call or an address needs code, a      *)
(* value needs data.  Only a row of four primitives that some literal is   *)
(* too has the kind of whichever was compiled first (db_store_blob).       *)
RefsFitRows ==
  \A r \in 1..Len(blobs) :
    LET code == blobs[r].data.code IN
    \A i \in 1..Len(code) : code[i].tag = "ref" =>
      LET row == blobs[code[i].n]
      IN  Shared(row.data) \/ (code[i].kind \in CodeKinds <=> row.kind \in CodeKinds)

(* It is kept if no source has a string: the rows of strings are stored    *)
(* with the number of a kind of code and referred to as data.              *)
StringFreeTokens == {tok \in TokenSet : tok.t # "str"}
NoStrings == Sources \subseteq Seq(StringFreeTokens)

(* A cached specialization is the one overload resolution selects for its  *)
(* types, although the cache is keyed by the bare name and one name may    *)
(* stand for several definitions.                                          *)
CacheSound ==
  \A i \in 1..Len(specs) :
    DictLookupTyped(dict, specs[i].name, specs[i].ins).def = specs[i].def

(* Every quotation is consumed once: pending_quot_count, which nothing     *)
(* ever resets, cannot pass the depth of the quotation stack, so the check *)
(* against MAX_QUOT_REFS (which is larger) never fails.                    *)
QuotationsUsedOnce == quotRefs + Len(quotStack) <= MaxQuotDepth

(* The compiler exhausts the C stack only on a word that is being compiled *)
(* inside its own compilation.                                             *)
CrashOnlyByRecursion ==
  phase = "crashed" =>
    \E i, j \in 1..Len(frames) : i < j /\ frames[i].def # 0 /\ frames[i].def = frames[j].def

(* Nothing is written past the end of the compiler's tables and stacks     *)
(* (compiler_t): the stack of types is copied, cut, raised, extended by    *)
(* signatures and by branches, and put back, in many places; the others    *)
(* are checked in one.  The buffers for the text of signatures, of 256 and *)
(* 128 characters, are not modelled, and nothing bounds what goes there.   *)
BoundedFrame(f) ==
  /\ Len(f.types) <= MaxTypeStack
  /\ \A k \in 1..Len(f.done) : Len(f.done[k].outs) <= MaxTypeStack

StacksBounded ==
  /\ \A i \in 1..Len(frames) : BoundedFrame(frames[i])
  /\ \A i \in 1..Len(markers) : markers[i] <= MaxTypeStack
  /\ Len(markers) <= MaxArrayDepth
  /\ Len(quotStack) <= MaxQuotDepth
  /\ quotRefs <= MaxQuotRefs
  /\ Len(specs) <= MaxSpecs
  /\ Len(defs) <= MaxDefs

(* Compiling comes to an end. *)
Terminates == phase = "compile" ~> phase # "compile"

(* Stated by the repository, not kept by the code (see the findings).      *)

(* A quotation is consumed by the word it is written in. *)
QuotationsStayHome ==
  \A i \in 1..Len(frames) : \A k \in 1..Len(frames[i].quots) :
    LET words == {j \in 1..i : frames[j].def # 0}
        word  == CHOOSE j \in words : \A m \in words : m <= j
    IN  frames[i].quots[k].home = frames[word].def
=============================================================================
