------------------------------ MODULE StoreProofs ------------------------------
(***************************************************************************)
(* What the compiler generates and writes to the blob table, for every     *)
(* source file, every limit and any number of restarts: the table refines  *)
(* module BlobStore, the two encodings of the code stay in step, every     *)
(* branch lands on an instruction, and every reference is to the kind of   *)
(* row it is used as.                                                      *)
(***************************************************************************)
EXTENDS CompilerProofs

(* Data are code if and only if they are referred to as code, unless the   *)
(* same bytes are both.                                                    *)
FitsData(kind, data) == Shared(data) \/ (kind \in CodeKinds <=> data.form = "code")

(* What is referred to is a row, of the kind it is referred to as.         *)
ItemsFit(code, rows) ==
  \A i \in 1..Len(code) : code[i].tag = "ref" =>
    /\ code[i].n \in 1..Len(rows)
    /\ FitsData(code[i].kind, rows[code[i].n].data)

(* The references of frame f, and of the quotations it has compiled.       *)
ClosedFrame(f, rows) ==
  /\ ItemsFit(f.blob, rows)
  /\ \A k \in 1..Len(f.done) : ItemsFit(f.done[k].blob, rows)

FramesClosed == \A i \in 1..Len(frames) : ClosedFrame(frames[i], blobs)

(* The ids in the specialization cache, which calls are compiled to.       *)
SpecsClosed ==
  \A i \in 1..Len(specs) :
    specs[i].cid \in 1..Len(blobs) /\ FitsData(BLOB_WORD, blobs[specs[i].cid].data)

(* The kind that data of each form are stored with; for strings it is the  *)
(* number of a kind of code.                                               *)
Suits(kind, form) ==
  /\ form = "code" => kind \in CodeKinds
  /\ form = "lit"  => kind \notin CodeKinds

TableClosed ==
  \A r \in 1..Len(blobs) :
    ItemsFit(blobs[r].data.code, blobs) /\ Suits(blobs[r].kind, blobs[r].data.form)

StoreInv == TypeInv /\ FramesClosed /\ SpecsClosed /\ TableClosed

(* Rows are only added. *)
Extends(rows, more) ==
  /\ Len(rows) \in Nat /\ Len(more) \in Nat /\ Len(rows) <= Len(more)
  /\ \A i \in 1..Len(rows) : more[i] = rows[i]

-----------------------------------------------------------------------------
(* References as the table grows.                                          *)

LEMMA RowsCounted == TypeInv => Len(blobs) \in Nat /\ Extends(blobs, blobs)
<1>1. TypeInv => Len(blobs) \in Nat
  BY LenProperties DEF TypeInv, TypeOK
<1>2. QED
  BY <1>1 DEF Extends

LEMMA KindsApart ==
  BLOB_WORD \in CodeKinds /\ BLOB_QUOTATION \in CodeKinds /\ BLOB_DATA \notin CodeKinds
BY DEF CodeKinds, BLOB_WORD, BLOB_QUOTATION, BLOB_DATA

LEMMA DataFits ==
  ASSUME NEW data
  PROVE  /\ data.form = "code" => FitsData(BLOB_WORD, data) /\ FitsData(BLOB_QUOTATION, data)
         /\ data.form # "code" => FitsData(BLOB_DATA, data)
BY KindsApart DEF FitsData

(* Equal bytes fit the same references. *)
LEMMA SameBytesFit ==
  ASSUME NEW d, NEW e, SameBytes(d, e), NEW kind, FitsData(kind, e)
  PROVE  FitsData(kind, d)
<1>1. CASE d = e
  BY <1>1
<1>2. CASE d # e
  <2>1. PICK w \in DOMAIN TagLiterals : {d, e} = {LitData(TagLiterals[w]), CodeData(Prims(w))}
    BY <1>2 DEF SameBytes
  <2>2. d \in {LitData(TagLiterals[w]), CodeData(Prims(w))}
    BY <2>1
  <2>3. Shared(d)
    BY <2>2 DEF Shared
  <2>4. QED
    BY <2>3 DEF FitsData
<1>3. QED
  BY <1>1, <1>2

LEMMA FitIsClosed ==
  ASSUME NEW code, NEW rows, ItemsFit(code, rows)
  PROVE  RefsBelow(code, Len(rows))
BY DEF ItemsFit, RefsBelow

LEMMA FitGrows ==
  ASSUME NEW rows, NEW more, Extends(rows, more), NEW code, ItemsFit(code, rows)
  PROVE  ItemsFit(code, more)
BY DEF ItemsFit, Extends

LEMMA FitConcat ==
  ASSUME NEW c \in Seq(Items), NEW d \in Seq(Items), NEW rows,
         ItemsFit(c, rows), ItemsFit(d, rows)
  PROVE  ItemsFit(c \o d, rows)
BY ConcatProperties DEF ItemsFit

LEMMA FitItem ==
  ASSUME NEW rows
  PROVE  /\ ItemsFit(<<>>, rows)
         /\ \A s : ItemsFit(<<Prim(s)>>, rows)
         /\ \A kind : \A cid \in 1..Len(rows) :
              FitsData(kind, rows[cid].data)
              => ItemsFit(<<Ref(kind, cid)>>, rows)
<1>1. ItemsFit(<<>>, rows)
  BY DEF ItemsFit
<1>2. ASSUME NEW s PROVE ItemsFit(<<Prim(s)>>, rows)
  BY DEF ItemsFit, Prim
<1>3. ASSUME NEW kind, NEW cid \in 1..Len(rows), FitsData(kind, rows[cid].data)
      PROVE  ItemsFit(<<Ref(kind, cid)>>, rows)
  BY <1>3 DEF ItemsFit, Ref
<1>4. QED
  BY <1>1, <1>2, <1>3

LEMMA ClosedGrows ==
  ASSUME NEW f, NEW rows, NEW more, Extends(rows, more), ClosedFrame(f, rows)
  PROVE  ClosedFrame(f, more)
BY FitGrows DEF ClosedFrame

LEMMA AllClosed ==
  ASSUME StoreInv, frames # <<>>
  PROVE  /\ \A i \in 1..Len(frames) : ClosedFrame(frames[i], blobs)
         /\ ClosedFrame(Top, blobs)
<1>1. \A i \in 1..Len(frames) : ClosedFrame(frames[i], blobs)
  BY DEF StoreInv, FramesClosed, ClosedFrame
<1>2. Len(frames) \in 1..Len(frames) /\ Top = frames[Len(frames)]
  BY TopTyped DEF StoreInv, TypeInv
<1>3. QED
  BY <1>1, <1>2

LEMMA EmitClosed ==
  ASSUME NEW f \in Frames, NEW cells, NEW items \in Seq(Items), NEW types,
         NEW rows, NEW more,
         Extends(rows, more), ClosedFrame(f, rows), ItemsFit(items, more)
  PROVE  ClosedFrame(Emit(f, cells, items, types), more)
<1> DEFINE g == Emit(f, cells, items, types)
<1>1. f.blob \in Seq(Items)
  BY DEF Frames
<1>2. ItemsFit(f.blob, more)
  BY FitGrows DEF ClosedFrame
<1>3. ItemsFit(f.blob \o items, more)
  BY <1>1, <1>2, FitConcat
<1>4. g.blob = f.blob \o items /\ g.done = <<>>
  BY DEF Emit, Frames
<1>5. QED
  BY <1>3, <1>4 DEF ClosedFrame

LEMMA SetTopClosed ==
  ASSUME StoreInv, frames # <<>>, NEW g \in Frames, frames' = SetTop(g),
         Extends(blobs, blobs'), ClosedFrame(g, blobs')
  PROVE  FramesClosed'
<1>1. frames \in Seq(Frames) /\ Len(blobs) \in Nat
  BY RowsCounted DEF StoreInv, TypeInv, TypeOK
<1>2. /\ Len(frames') = Len(frames)
      /\ \A i \in 1..Len(frames) : frames'[i] = IF i = Len(frames) THEN g ELSE frames[i]
  BY <1>1, SetTopFrames
<1>3. \A i \in 1..Len(frames) : ClosedFrame(frames[i], blobs')
  BY <1>1, AllClosed, ClosedGrows
<1>4. \A i \in 1..Len(frames') : ClosedFrame(frames'[i], blobs')
  BY <1>2, <1>3
<1>5. QED
  BY <1>4 DEF FramesClosed, ClosedFrame

LEMMA EnterClosed ==
  ASSUME StoreInv, frames # <<>>, NEW g \in Frames, NEW h \in Frames, Enter(g, h),
         UNCHANGED blobs, ClosedFrame(g, blobs), ClosedFrame(h, blobs)
  PROVE  FramesClosed'
<1>1. CASE UNCHANGED frames
  BY <1>1 DEF StoreInv, FramesClosed
<1>2. CASE frames' = Append(SetTop(g), h)
  <2>1. frames \in Seq(Frames) /\ Len(frames) \in Nat
    BY LenProperties DEF StoreInv, TypeInv, TypeOK
  <2> DEFINE fs == Append(SetTop(g), h)
  <2>5. /\ Len(fs) = Len(frames) + 1
        /\ \A i \in 1..Len(frames) + 1 :
             fs[i] = IF i = Len(frames) + 1 THEN h
                     ELSE IF i = Len(frames) THEN g ELSE frames[i]
    BY <2>1, EnterFrames
  <2>2. /\ Len(frames') = Len(frames) + 1
        /\ \A i \in 1..Len(frames) + 1 :
             frames'[i] = IF i = Len(frames) + 1 THEN h
                          ELSE IF i = Len(frames) THEN g ELSE frames[i]
    BY <1>2, <2>5
  <2>3. \A i \in 1..Len(frames) : ClosedFrame(frames[i], blobs)
    BY AllClosed
  <2>4. \A i \in 1..Len(frames') : ClosedFrame(frames'[i], blobs)
    BY <2>1, <2>2, <2>3
  <2>6. QED
    BY <2>4 DEF FramesClosed, ClosedFrame
<1>3. QED
  BY <1>1, <1>2 DEF Enter

LEMMA PopClosed ==
  ASSUME StoreInv, Len(frames) > 1, NEW g \in Frames,
         frames' = [PopFrame EXCEPT ![Len(frames) - 1] = g],
         Extends(blobs, blobs'), ClosedFrame(g, blobs')
  PROVE  FramesClosed'
<1>1. frames \in Seq(Frames) /\ Len(frames) \in Nat /\ Len(blobs) \in Nat
  BY RowsCounted, LenProperties DEF StoreInv, TypeInv, TypeOK
<1>2. /\ Len(frames') = Len(frames) - 1
      /\ \A i \in 1..Len(frames) - 1 :
           frames'[i] = IF i = Len(frames) - 1 THEN g ELSE frames[i]
  BY <1>1, PopFrames
<1>3. frames # <<>>
  BY <1>1, EmptySeq
<1>4. \A i \in 1..Len(frames) - 1 : ClosedFrame(frames[i], blobs')
  BY <1>1, <1>3, AllClosed, ClosedGrows
<1>5. \A i \in 1..Len(frames') : ClosedFrame(frames'[i], blobs')
  BY <1>1, <1>2, <1>4
<1>6. QED
  BY <1>5 DEF FramesClosed, ClosedFrame

-----------------------------------------------------------------------------
(* Storing a row is a step of BlobStore.                                   *)

LEMMA SameRows ==
  /\ Table!Rows = Rows
  /\ \A rows, data : Table!HoldersOf(rows, data) = HoldersOf(rows, data)
  /\ \A code, n : Table!RefsBelow(code, n) <=> RefsBelow(code, n)
<1>1. Table!Rows = Rows
  BY DEF Table!Rows, Table!Data, Table!Items, Table!Kinds, Table!BLOB_WORD,
         Table!BLOB_QUOTATION, Table!BLOB_DATA, Rows, Data, Items, Kinds, BLOB_WORD,
         BLOB_QUOTATION, BLOB_DATA
<1>2. \A rows, data : Table!HoldersOf(rows, data) = HoldersOf(rows, data)
  BY DEF Table!HoldersOf, Table!SameBytes, Table!LitData, Table!CodeData, Table!Prims,
         Table!Prim, Table!NoName, HoldersOf, SameBytes, LitData, CodeData, Prims, Prim, NoName
<1>3. \A code, n : Table!RefsBelow(code, n) <=> RefsBelow(code, n)
  BY DEF Table!RefsBelow, RefsBelow
<1>4. QED
  BY <1>1, <1>2, <1>3

LEMMA StoreIsPut ==
  ASSUME blobs \in Seq(Rows), TableClosed, NEW kind \in Kinds, NEW data \in Data,
         ItemsFit(data.code, blobs), Suits(kind, data.form),
         blobs' = StoreBlob(blobs, kind, data)
  PROVE  /\ [Table!Put]_blobs
         /\ Extends(blobs, blobs') /\ TableClosed'
         /\ CidOf(blobs, data) \in 1..Len(blobs')
         /\ \A k : FitsData(k, data) => FitsData(k, blobs'[CidOf(blobs, data)].data)
<1>1. /\ blobs' \in Seq(Rows) /\ Len(blobs') >= Len(blobs)
      /\ \A i \in 1..Len(blobs) : blobs'[i] = blobs[i]
      /\ CidOf(blobs, data) \in 1..Len(blobs')
      /\ SameBytes(blobs'[CidOf(blobs, data)].data, data)
  BY StoreBlobTyped
<1>a. \A k : FitsData(k, data) => FitsData(k, blobs'[CidOf(blobs, data)].data)
  BY <1>1, SameBytesFit
<1>2. Extends(blobs, blobs')
  BY <1>1, LenProperties DEF Extends
<1>3. CASE HoldersOf(blobs, data) # {}
  <2>1. blobs' = blobs
    BY <1>3 DEF StoreBlob
  <2>2. TableClosed'
    BY <2>1 DEF TableClosed
  <2>3. QED
    BY <1>1, <1>2, <1>a, <2>1, <2>2
<1>4. CASE HoldersOf(blobs, data) = {}
  <2> DEFINE row == [kind |-> kind, data |-> data]
  <2>1. blobs' = Append(blobs, row)
    BY <1>4 DEF StoreBlob
  <2>2. row \in Rows /\ row.data = data /\ row.kind = kind
    BY DEF Rows
  <2> HIDE DEF row
  <2>3. Len(blobs') = Len(blobs) + 1 /\ blobs'[Len(blobs) + 1] = row
    BY <2>1, <2>2, AppendProperties
  <2>4. Table!Put
    <3>1. RefsBelow(data.code, Len(blobs))
      BY FitIsClosed
    <3>2. QED
      BY <1>4, <2>1, <2>2, <2>3, <3>1, SameRows DEF Table!Put, Table!NewRow
  <2>5. ASSUME NEW r \in 1..Len(blobs')
        PROVE  /\ ItemsFit(blobs'[r].data.code, blobs')
               /\ Suits(blobs'[r].kind, blobs'[r].data.form)
    <3>1. CASE r \in 1..Len(blobs)
      <4>1. blobs'[r] = blobs[r]
        BY <1>2, <3>1 DEF Extends
      <4>2. ItemsFit(blobs[r].data.code, blobs) /\ Suits(blobs[r].kind, blobs[r].data.form)
        BY <3>1 DEF TableClosed
      <4>3. ItemsFit(blobs[r].data.code, blobs')
        BY <1>2, <4>2, FitGrows
      <4>4. QED
        BY <4>1, <4>2, <4>3
    <3>2. CASE r \notin 1..Len(blobs)
      <4>1. r = Len(blobs) + 1
        BY <1>2, <2>3, <3>2 DEF Extends
      <4>2. blobs'[r].data = data /\ blobs'[r].kind = kind
        BY <2>2, <2>3, <4>1
      <4>3. ItemsFit(data.code, blobs')
        BY <1>2, FitGrows
      <4>4. QED
        BY <4>2, <4>3
    <3>3. QED
      BY <3>1, <3>2
  <2>6. TableClosed'
    BY <2>5 DEF TableClosed
  <2>7. QED
    BY <1>1, <1>2, <1>a, <2>4, <2>6
<1>5. QED
  BY <1>3, <1>4

-----------------------------------------------------------------------------
(* Steps that store nothing.                                               *)

(* What every step has to do besides keeping the types. *)
Stored == FramesClosed' /\ SpecsClosed' /\ TableClosed' /\ [Table!Put]_blobs

LEMMA NothingStored ==
  ASSUME StoreInv, UNCHANGED <<blobs, specs>>, FramesClosed'
  PROVE  Stored
BY DEF Stored, StoreInv, SpecsClosed, TableClosed

LEMMA NothingCompiled ==
  ASSUME StoreInv, UNCHANGED <<blobs, specs, frames>>
  PROVE  Stored
<1>1. FramesClosed'
  BY DEF StoreInv, FramesClosed
<1>2. QED
  BY <1>1, NothingStored

LEMMA FailStored == ASSUME StoreInv, Fail PROVE Stored
BY NothingCompiled DEF Fail, compileVars

LEMMA ReadSourceStored == ASSUME StoreInv, ReadSource PROVE Stored
<1>1. CASE SourceError \/ ParenError \/ TooManyDefinitions
  BY <1>1, FailStored DEF SourceError, ParenError, TooManyDefinitions
<1>2. CASE CompileTypeSigDecl \/ SkipToken \/ BeginDefinition \/ CompileLparen
             \/ CompileRparen \/ CaptureToken \/ EndDefinition \/ EndOfFile
  BY <1>2, NothingCompiled
     DEF CompileTypeSigDecl, SkipToken, BeginDefinition, CompileLparen, CompileRparen,
         CaptureToken, EndDefinition, EndOfFile, compileVars
<1>3. QED
  BY <1>1, <1>2 DEF ReadSource

LEMMA NewFrameClosed ==
  ASSUME NEW def, NEW ins, NEW types, NEW toks, NEW rows
  PROVE  ClosedFrame(NewFrame(def, ins, types, toks), rows)
<1> DEFINE f == NewFrame(def, ins, types, toks)
<1>1. f.blob = <<>> /\ f.done = <<>>
  BY DEF NewFrame
<1>2. QED
  BY <1>1, FitItem, EmptySeq DEF ClosedFrame

(* A token compiled to items that refer to stored rows only. *)
LEMMA EmitStored ==
  ASSUME StoreInv, frames # <<>>, Top.toks # <<>>,
         NEW cells \in Seq(Cells), NEW items \in Seq(Items), NEW types \in Seq(Types),
         frames' = SetTop(Emit(Top, cells, items, types)),
         Extends(blobs, blobs'), ItemsFit(items, blobs')
  PROVE  FramesClosed'
<1> DEFINE g == Emit(Top, cells, items, types)
<1>1. Top \in Frames /\ Len(blobs) \in Nat
  BY TopTyped, RowsCounted DEF StoreInv, TypeInv
<1>2. g \in Frames
  BY <1>1, EmitOK DEF FrameOK
<1>3. ClosedFrame(g, blobs')
  BY <1>1, AllClosed, EmitClosed
<1> HIDE DEF g
<1>4. frames' = SetTop(g)
  BY DEF g
<1>5. QED
  BY <1>2, <1>3, <1>4, SetTopClosed

LEMMA CompilePrimitiveStored == ASSUME StoreInv, CompilePrimitive PROVE Stored
<1>1. TypeInv /\ AtToken
  BY DEF StoreInv, CompilePrimitive, AtResolved, AtWord
<1>2. CASE ~SignatureApplies(Resolved, Top.types)
  BY <1>2, FailStored DEF CompilePrimitive
<1>3. CASE SignatureApplies(Resolved, Top.types)
  <2> DEFINE types == PushTypes(Below(Top.types, Len(Resolved.ins)),
                                Outputs(Resolved, Top.types))
             items == <<Prim(Resolved.prim)>>
  <2>1. /\ frames' = SetTop(Emit(Top, <<Xt(Resolved.addr)>>, items, types))
        /\ UNCHANGED <<blobs, specs>>
    BY <1>3 DEF CompilePrimitive
  <2>2. Resolved \in Entries /\ Top.types \in Seq(Types) /\ frames # <<>> /\ Top.toks # <<>>
    BY <1>1, AtTokenFacts, IdleFacts, ResolvedFacts
  <2>3. types \in Seq(Types)
    BY <1>3, <2>2, ApplyTyped
  <2>4. Resolved.addr \in STRING /\ Resolved.prim \in STRING
    BY <2>2 DEF Entries
  <2>5. Xt(Resolved.addr) \in Cells /\ Prim(Resolved.prim) \in Items
    BY <2>4, CellsTyped, ItemsTyped, SpellingAssumption
  <2>6. <<Xt(Resolved.addr)>> \in Seq(Cells) /\ items \in Seq(Items)
    BY <2>5
  <2>7. Extends(blobs, blobs') /\ ItemsFit(items, blobs')
    BY <1>1, <2>1, RowsCounted, FitItem
  <2> HIDE DEF types, items
  <2>8. FramesClosed'
    BY <2>1, <2>2, <2>3, <2>6, <2>7, EmitStored
  <2>9. QED
    BY <2>1, <2>8, NothingStored
<1>4. QED
  BY <1>2, <1>3

LEMMA CompileStackWordStored == ASSUME StoreInv, CompileStackWord PROVE Stored
<1>1. TypeInv /\ AtToken /\ Resolved.kind = "imm" /\ Tok.s \in StackWords
  BY DEF StoreInv, CompileStackWord, AtImmediate, AtResolved, AtWord
<1>2. CASE Fail
  BY <1>2, FailStored
<1>3. CASE ~Fail
  <2> DEFINE types == StackEffect(Tok.s, Top.types)
             items == <<PrimOf(Tok.s)>>
  <2>1. /\ frames' = SetTop(Emit(Top, <<XtOf(Tok.s)>>, items, types))
        /\ UNCHANGED <<blobs, specs>>
    BY <1>3 DEF CompileStackWord
  <2>2. Top.types \in Seq(Types) /\ frames # <<>> /\ Top.toks # <<>>
    BY <1>1, AtTokenFacts, IdleFacts
  <2>3. types \in Seq(Types)
    BY <1>1, <2>2, ResolvedFacts, StackEffectTyped
  <2>4. XtOf(Tok.s) \in Cells /\ PrimOf(Tok.s) \in Items
    BY <1>1, LookupEmitsTyped DEF TypeInv, TypeOK
  <2>5. <<XtOf(Tok.s)>> \in Seq(Cells) /\ items \in Seq(Items)
    BY <2>4
  <2>6. Extends(blobs, blobs') /\ ItemsFit(items, blobs')
    BY <1>1, <2>1, RowsCounted, FitItem DEF PrimOf
  <2> HIDE DEF types, items
  <2>7. FramesClosed'
    BY <2>1, <2>2, <2>3, <2>5, <2>6, EmitStored
  <2>8. QED
    BY <2>1, <2>7, NothingStored
<1>4. QED
  BY <1>2, <1>3

LEMMA CallHitStored == ASSUME StoreInv, CallHit PROVE Stored
<1>1. TypeInv /\ AtToken
  BY DEF StoreInv, CallHit, AtResolved, AtWord
<1>2. CASE ~SignatureApplies(Resolved, Top.types)
  BY <1>2, FailStored DEF CallHit
<1>3. CASE SignatureApplies(Resolved, Top.types)
  <2> DEFINE S     == SpecHits(Tok.s, CallInputs)
             cid   == specs[FirstOf(S)].cid
             items == <<Ref(BLOB_WORD, cid)>>
             types == PushTypes(Below(Top.types, Len(Resolved.ins)),
                                Outputs(Resolved, Top.types))
  <2>1. /\ frames' = SetTop(Emit(Top, <<Xt(NoName)>>, items, types))
        /\ UNCHANGED <<blobs, specs>>
    BY <1>3 DEF CallHit, EmitCall
  <2>2. S \subseteq 1..Len(specs) /\ S # {}
    BY DEF CallHit, SpecHits
  <2>3. FirstOf(S) \in 1..Len(specs)
    BY <2>2, FirstOfTyped
  <2>4. cid \in 1..Len(blobs) /\ FitsData(BLOB_WORD, blobs[cid].data)
    BY <2>3 DEF StoreInv, SpecsClosed
  <2> HIDE DEF cid
  <2>5. Resolved \in Entries /\ Top.types \in Seq(Types) /\ frames # <<>> /\ Top.toks # <<>>
    BY <1>1, AtTokenFacts, IdleFacts, ResolvedFacts
  <2>6. types \in Seq(Types)
    BY <1>3, <2>5, ApplyTyped
  <2>7. Xt(NoName) \in Cells /\ Ref(BLOB_WORD, cid) \in Items
    BY <1>1, <2>4, RowsCounted, CellsTyped, ItemsTyped, KindsTyped, SpellingAssumption
  <2>8. <<Xt(NoName)>> \in Seq(Cells) /\ items \in Seq(Items)
    BY <2>7
  <2>9. Extends(blobs, blobs') /\ ItemsFit(items, blobs')
    BY <1>1, <2>1, <2>4, RowsCounted, FitItem
  <2> HIDE DEF types, items
  <2>10. FramesClosed'
    BY <2>1, <2>5, <2>6, <2>8, <2>9, EmitStored
  <2>11. QED
    BY <2>1, <2>10, NothingStored
<1>4. QED
  BY <1>2, <1>3

(* A change of the top frame that leaves its items and results alone. *)
LEMMA RetargetClosed ==
  ASSUME StoreInv, Compiling, NEW op \in Ops, NEW quots \in Seq(Quotations),
         NEW types \in Seq(Types)
  PROVE  LET g == [Top EXCEPT !.op = op, !.quots = quots, !.types = types]
         IN  g \in Frames /\ ClosedFrame(g, blobs)
<1> DEFINE g == [Top EXCEPT !.op = op, !.quots = quots, !.types = types]
<1>1. Top \in Frames /\ ClosedFrame(Top, blobs)
  BY TopTyped, AllClosed DEF StoreInv, TypeInv, Compiling
<1>2. g \in Frames /\ g.blob = Top.blob /\ g.done = Top.done
  BY <1>1 DEF Frames
<1>3. QED
  BY <1>1, <1>2 DEF ClosedFrame

LEMMA CallMissStored == ASSUME StoreInv, CallMiss PROVE Stored
<1> DEFINE g == [Top EXCEPT !.op = "call"]
           h == NewFrame(Resolved.def, CallInputs, PushTypes(<<>>, CallInputs),
                         defs[Resolved.def].toks)
<1>1. TypeInv /\ AtToken /\ Resolved.kind = "word"
  BY DEF StoreInv, CallMiss, AtResolved, AtWord
<1>2. /\ frames # <<>> /\ Top \in Frames /\ Top.types \in Seq(Types)
      /\ Len(Top.types) \in Nat
  BY <1>1, AtTokenFacts, IdleFacts
<1>3. /\ Len(Resolved.ins) \in 0..Len(Top.types)
      /\ Resolved.def \in 1..Len(defs)
  BY <1>1, <1>2, ResolvedFacts
<1>4. g \in Frames /\ g.blob = Top.blob /\ g.done = Top.done
  BY <1>2 DEF Frames, Ops
<1>5. ClosedFrame(g, blobs)
  BY <1>2, <1>4, AllClosed DEF ClosedFrame
<1>6. CallInputs \in Seq(Types) /\ <<>> \in Seq(Types)
  BY <1>2, <1>3, TopOfTyped DEF CallInputs
<1>7. PushTypes(<<>>, CallInputs) \in Seq(Types)
  BY <1>6, PushTypesTyped
<1>8. defs[Resolved.def] \in Defs /\ Resolved.def \in Nat
  BY <1>1, <1>3, ElementOfSeq DEF TypeInv, TypeOK
<1>9. defs[Resolved.def].toks \in Seq(TokenSet)
  BY <1>8 DEF Defs
<1>10. h \in Frames
  BY <1>6, <1>7, <1>8, <1>9, NewFrameOK DEF FrameOK
<1>11. ClosedFrame(h, blobs)
  BY <1>1, NewFrameClosed, RowsCounted
<1>12. Enter(g, h) /\ UNCHANGED <<blobs, specs>>
  BY DEF CallMiss
<1> HIDE DEF g, h
<1>13. FramesClosed'
  BY <1>2, <1>4, <1>5, <1>10, <1>11, <1>12, EnterClosed
<1>14. QED
  BY <1>12, <1>13, NothingStored

LEMMA EnterQuotationStored == ASSUME StoreInv, EnterQuotation PROVE Stored
<1> DEFINE ctx == IF Top.op = "mat" THEN <<>> ELSE Top.types
           k   == Len(Top.done) + 1
           h   == NewFrame(0, ctx, ctx, Top.quots[k].toks)
<1>1. /\ frames # <<>> /\ Top \in Frames /\ Len(Top.done) < Len(Top.quots)
  BY TopTyped DEF EnterQuotation, Compiling, StoreInv, TypeInv
<1>2. /\ Top.types \in Seq(Types) /\ <<>> \in Seq(Types)
      /\ Top.quots \in Seq(Quotations) /\ Len(Top.quots) \in Nat /\ Len(Top.done) \in Nat
  BY <1>1, LenProperties DEF Frames
<1>3. ctx \in Seq(Types)
  BY <1>2
<1>4. Top.quots[k] \in Quotations
  BY <1>1, <1>2, ElementOfSeq
<1>5. Top.quots[k].toks \in Seq(TokenSet)
  BY <1>4 DEF Quotations
<1> HIDE DEF ctx
<1>6. h \in Frames
  BY <1>3, <1>5, NewFrameOK DEF FrameOK
<1>7. ClosedFrame(h, blobs) /\ ClosedFrame(Top, blobs)
  BY <1>1, NewFrameClosed, RowsCounted, AllClosed DEF StoreInv
<1>8. Enter(Top, h) /\ UNCHANGED <<blobs, specs>>
  BY DEF EnterQuotation, ctx
<1> HIDE DEF h
<1>9. FramesClosed'
  BY <1>1, <1>6, <1>7, <1>8, EnterClosed
<1>10. QED
  BY <1>8, <1>9, NothingStored

LEMMA ConsumeStored ==
  ASSUME StoreInv, Idle, NEW n \in 0..Len(quotStack), NEW op \in Ops,
         NEW types \in Seq(Types), Consume(n, op, TakeQuots(n), types)
  PROVE  Stored
<1> DEFINE g == [Top EXCEPT !.op = op, !.quots = TakeQuots(n), !.types = types]
<1>1. TakeQuots(n) \in Seq(Quotations)
  BY TakeQuotsTyped DEF StoreInv, TypeInv, TypeOK
<1>2. g \in Frames /\ ClosedFrame(g, blobs)
  BY <1>1, RetargetClosed DEF Idle
<1>3. frames' = SetTop(g) /\ UNCHANGED <<blobs, specs>>
  BY DEF Consume
<1>4. frames # <<>> /\ Extends(blobs, blobs')
  BY <1>3, RowsCounted DEF StoreInv, Idle, Compiling
<1> HIDE DEF g
<1>5. FramesClosed'
  BY <1>2, <1>3, <1>4, SetTopClosed
<1>6. QED
  BY <1>3, <1>5, NothingStored

LEMMA BeginStored ==
  ASSUME StoreInv, BeginMaterialize \/ BeginIf \/ BeginTimes \/ BeginUntil
  PROVE  Stored
<1>1. TypeInv /\ Idle
  BY DEF StoreInv, BeginMaterialize, BeginIf, BeginTimes, BeginUntil, AtImmediate,
         AtResolved, AtWord, AtToken
<1>2. Top.types \in Seq(Types) /\ Below(Top.types, 1) \in Seq(Types)
  BY <1>1, IdleFacts, BelowTyped
<1>3. Len(quotStack) \in Nat /\ (quotStack # <<>> => Len(quotStack) >= 1)
  BY <1>1, QuotStackDepth
<1>4. {"mat", "if", "times", "until"} \subseteq Ops
  BY DEF Ops
<1>5. CASE BeginMaterialize
  BY <1>1, <1>2, <1>3, <1>4, <1>5, ConsumeStored DEF BeginMaterialize
<1>6. CASE BeginIf
  BY <1>1, <1>2, <1>3, <1>4, <1>6, ConsumeStored DEF BeginIf
<1>7. CASE BeginTimes
  BY <1>1, <1>2, <1>3, <1>4, <1>7, ConsumeStored DEF BeginTimes
<1>8. CASE BeginUntil
  BY <1>1, <1>2, <1>3, <1>4, <1>8, ConsumeStored DEF BeginUntil
<1>9. QED
  BY <1>5, <1>6, <1>7, <1>8

(* The frame under the top one takes the result of the top one.            *)
LEMMA FinishQuotationStored == ASSUME StoreInv, FinishQuotation PROVE Stored
<1> DEFINE n      == Len(frames)
           caller == frames[n - 1]
           result == [cells |-> Append(Top.cells, Exit), blob |-> Top.blob,
                      outs |-> Top.types]
           g      == [caller EXCEPT !.done = Append(@, result)]
<1>1. TypeInv /\ Idle /\ n > 1 /\ n \in Nat /\ frames # <<>>
  <2>1. n > 1 /\ Idle /\ TypeInv
    BY DEF FinishQuotation, StoreInv
  <2>2. QED
    BY <2>1, IdleFacts, LenProperties DEF FramesOK
<1>2. caller \in Frames
  BY <1>1, CallerFacts
<1>3. result \in Compiled /\ result.blob = Top.blob
  <2>1. Exit \in Cells
    BY CellsTyped, SpellingAssumption
  <2>2. Append(Top.cells, Exit) \in Seq(Cells)
    BY <1>1, <2>1, IdleFacts, AppendProperties
  <2>3. QED
    BY <1>1, <2>2, IdleFacts DEF Compiled
<1>4. ClosedFrame(Top, blobs) /\ ClosedFrame(caller, blobs)
  <2>1. n - 1 \in 1..Len(frames)
    BY <1>1
  <2>2. QED
    BY <1>1, <2>1, AllClosed
<1> HIDE DEF result
<1>5. caller.done \in Seq(Compiled)
  BY <1>2 DEF Frames
<1>6. /\ Append(caller.done, result) \in Seq(Compiled)
      /\ Len(Append(caller.done, result)) = Len(caller.done) + 1
      /\ Len(caller.done) \in Nat
      /\ \A k \in 1..Len(caller.done) + 1 :
           Append(caller.done, result)[k] =
             IF k <= Len(caller.done) THEN caller.done[k] ELSE result
  BY <1>3, <1>5, AppendProperties, LenProperties
<1>7. g \in Frames /\ g.done = Append(caller.done, result) /\ g.blob = caller.blob
  BY <1>2, <1>6 DEF Frames
<1>8. ClosedFrame(g, blobs)
  <2>1. ASSUME NEW k \in 1..Len(g.done) PROVE ItemsFit(g.done[k].blob, blobs)
    <3>1. CASE k <= Len(caller.done)
      BY <1>4, <1>6, <1>7, <3>1 DEF ClosedFrame
    <3>2. CASE ~(k <= Len(caller.done))
      BY <1>3, <1>4, <1>6, <1>7, <3>2 DEF ClosedFrame
    <3>3. QED
      BY <3>1, <3>2
  <2>2. QED
    BY <1>4, <1>7, <2>1 DEF ClosedFrame
<1>9. /\ frames' = [PopFrame EXCEPT ![n - 1].done = Append(@, result)]
      /\ UNCHANGED <<blobs, specs>>
  BY DEF FinishQuotation, result
<1>10. PopFrame[n - 1] = caller
  <2>1. frames \in Seq(Frames)
    BY <1>1 DEF TypeInv, TypeOK
  <2>2. n - 1 \in 1..n - 1 /\ n - 1 \in Int /\ 1 \in Int
    BY <1>1
  <2>3. \A i \in 1..n - 1 : frames[i] \in Frames
    BY <1>1, <2>1, ElementOfSeq
  <2>4. QED
    BY <2>2, <2>3, SubSeqProperties DEF PopFrame
<1>11. frames' = [PopFrame EXCEPT ![n - 1] = g]
  BY <1>9, <1>10
<1> HIDE DEF g
<1>12. Extends(blobs, blobs') /\ ClosedFrame(g, blobs')
  BY <1>1, <1>8, <1>9, RowsCounted
<1>13. FramesClosed'
  BY <1>1, <1>7, <1>11, <1>12, PopClosed
<1>14. QED
  BY <1>9, <1>13, NothingStored

-----------------------------------------------------------------------------
(* Control structures: code that is put together from compiled quotations. *)

LEMMA ReadyClosed ==
  ASSUME StoreInv, NEW op \in {"mat", "if", "times", "until"}, Ready(op)
  PROVE  \A k \in 1..QuotsTaken(op) :
           /\ Top.done[k] \in Compiled /\ Top.done[k].blob \in Seq(Items)
           /\ ItemsFit(Top.done[k].blob, blobs)
<1>1. TypeInv /\ frames # <<>>
  BY DEF StoreInv, Ready, Compiling
<1>2. /\ Len(Top.done) = QuotsTaken(op)
      /\ \A k \in 1..QuotsTaken(op) : Top.done[k] \in Compiled
  BY <1>1, ReadyFacts
<1>3. \A k \in 1..Len(Top.done) : ItemsFit(Top.done[k].blob, blobs)
  BY <1>1, AllClosed DEF ClosedFrame
<1>4. QED
  BY <1>2, <1>3 DEF Compiled

LEMMA ControlItemsClosed ==
  ASSUME dict \in Seq(Entries), NEW rows, NEW t \in Compiled, NEW f \in Compiled,
         ItemsFit(t.blob, rows), ItemsFit(f.blob, rows)
  PROVE  /\ ItemsFit(IfItems(t, f), rows)
         /\ ItemsFit(TimesItems(t), rows)
         /\ ItemsFit(UntilItems(t, f), rows)
<1>1. /\ t.blob \in Seq(Items) /\ f.blob \in Seq(Items)
      /\ Len(t.cells) \in Nat /\ Len(f.cells) \in Nat
  BY LenProperties DEF Compiled
<1>2. \A name : PrimOf(name) \in Items /\ PrimOf(name).tag # "ref"
  BY LookupEmitsTyped DEF PrimOf, Prim
<1>3. \A m \in Int : InlineLit(m) \in Items /\ InlineLit(m).tag # "ref"
  BY ItemsTyped, SpellingAssumption DEF InlineLit
<1>4. ASSUME NEW name, NEW m \in Int
      PROVE  /\ <<PrimOf(name), InlineLit(m)>> \in Seq(Items)
             /\ ItemsFit(<<PrimOf(name), InlineLit(m)>>, rows)
  <2>1. <<PrimOf(name), InlineLit(m)>> \in Seq(Items)
    BY <1>2, <1>3
  <2>2. ItemsFit(<<PrimOf(name), InlineLit(m)>>, rows)
    BY <1>2, <1>3 DEF ItemsFit
  <2>3. QED
    BY <2>1, <2>2
<1>5. ItemsFit(IfItems(t, f), rows)
  <2> DEFINE a == Len(t.cells) - 1 + 2
             b == Len(f.cells) - 1
             x == <<PrimOf("0branch"), InlineLit(a)>>
             y == <<PrimOf("branch"), InlineLit(b)>>
  <2>1. a \in Int /\ b \in Int
    BY <1>1
  <2> HIDE DEF a, b
  <2>2. x \in Seq(Items) /\ ItemsFit(x, rows) /\ y \in Seq(Items) /\ ItemsFit(y, rows)
    BY <1>4, <2>1
  <2> HIDE DEF x, y
  <2>3. x \o t.blob \in Seq(Items) /\ ItemsFit(x \o t.blob, rows)
    BY <1>1, <2>2, FitConcat, ConcatProperties
  <2>4. (x \o t.blob) \o y \in Seq(Items) /\ ItemsFit((x \o t.blob) \o y, rows)
    BY <2>2, <2>3, FitConcat, ConcatProperties
  <2>5. ItemsFit(((x \o t.blob) \o y) \o f.blob, rows)
    BY <1>1, <2>4, FitConcat
  <2>6. IfItems(t, f) = ((x \o t.blob) \o y) \o f.blob
    BY DEF IfItems, x, y, a, b
  <2>7. QED
    BY <2>5, <2>6
<1>6. ItemsFit(TimesItems(t), rows)
  <2> DEFINE a == Len(t.cells) - 1 + 6
             b == -(7 + (Len(t.cells) - 1) + 2)
             x == <<PrimOf(">r"), PrimOf("r@"), PrimOf("0branch"), InlineLit(a),
                    PrimOf("r>"), InlineLit(1), PrimOf("-"), PrimOf(">r")>>
             y == <<PrimOf("branch"), InlineLit(b), PrimOf("rdrop")>>
  <2>1. a \in Int /\ b \in Int
    BY <1>1
  <2> HIDE DEF a, b
  <2>2. x \in Seq(Items) /\ y \in Seq(Items)
    BY <1>2, <1>3, <2>1
  <2>3. ItemsFit(x, rows) /\ ItemsFit(y, rows)
    BY <1>2, <1>3, <2>1 DEF ItemsFit
  <2> HIDE DEF x, y
  <2>4. x \o t.blob \in Seq(Items) /\ ItemsFit(x \o t.blob, rows)
    BY <1>1, <2>2, <2>3, FitConcat, ConcatProperties
  <2>5. ItemsFit((x \o t.blob) \o y, rows)
    BY <2>2, <2>3, <2>4, FitConcat
  <2>6. TimesItems(t) = (x \o t.blob) \o y
    BY DEF TimesItems, x, y, a, b
  <2>7. QED
    BY <2>5, <2>6
<1>7. ItemsFit(UntilItems(t, f), rows)
  <2> DEFINE b == -((Len(f.cells) - 1) + (Len(t.cells) - 1) + 1 + 1)
             y == <<PrimOf("0branch"), InlineLit(b)>>
  <2>1. b \in Int
    BY <1>1
  <2> HIDE DEF b
  <2>2. y \in Seq(Items) /\ ItemsFit(y, rows)
    BY <1>4, <2>1
  <2> HIDE DEF y
  <2>3. f.blob \o t.blob \in Seq(Items) /\ ItemsFit(f.blob \o t.blob, rows)
    BY <1>1, FitConcat, ConcatProperties
  <2>4. ItemsFit((f.blob \o t.blob) \o y, rows)
    BY <2>2, <2>3, FitConcat
  <2>5. UntilItems(t, f) = (f.blob \o t.blob) \o y
    BY DEF UntilItems, y, b
  <2>6. QED
    BY <2>4, <2>5
<1>8. QED
  BY <1>5, <1>6, <1>7

LEMMA CompleteStored ==
  ASSUME StoreInv, NEW op \in {"if", "times", "until"}, Ready(op),
         NEW cells \in Seq(Cells), NEW items \in Seq(Items), NEW types \in Seq(Types),
         ItemsFit(items, blobs),
         frames' = SetTop(Emit(Top, cells, items, types)),
         UNCHANGED <<blobs, specs>>
  PROVE  Stored
<1>1. TypeInv
  BY DEF StoreInv
<1>2. frames # <<>> /\ Top.toks # <<>>
  BY <1>1, ReadyFacts
<1>3. Extends(blobs, blobs') /\ ItemsFit(items, blobs')
  BY <1>1, RowsCounted
<1>4. FramesClosed'
  BY <1>2, <1>3, EmitStored
<1>5. QED
  BY <1>4, NothingStored

LEMMA CompileControlStored ==
  ASSUME StoreInv, CompileIf \/ CompileTimes \/ CompileTimesUntil
  PROVE  Stored
<1> DEFINE pos == Len(Top.cells)
           d1  == Top.done[1]
           d2  == Top.done[2]
<1>1. TypeInv /\ dict \in Seq(Entries) /\ Len(blobs) \in Nat
  BY RowsCounted DEF StoreInv, TypeInv, TypeOK
<1>2. QuotsTaken("if") = 2 /\ QuotsTaken("until") = 2 /\ QuotsTaken("times") = 1
  BY DEF QuotsTaken
<1>3. CASE CompileIf
  <2>1. Ready("if")
    BY <1>3 DEF CompileIf
  <2>2. pos \in Nat /\ Top.types \in Seq(Types)
    BY <1>1, <2>1, ReadyFacts
  <2>3. /\ d1 \in Compiled /\ d2 \in Compiled
        /\ ItemsFit(d1.blob, blobs) /\ ItemsFit(d2.blob, blobs)
    BY <1>2, <2>1, ReadyClosed
  <2>4. IfCells(pos, d1, d2) \in Seq(Cells) /\ IfItems(d1, d2) \in Seq(Items)
    BY <1>1, <2>2, <2>3, IfTyped
  <2>5. ItemsFit(IfItems(d1, d2), blobs)
    BY <1>1, <2>3, ControlItemsClosed
  <2>6. PushTypes(Top.types, d1.outs) \in Seq(Types)
    BY <2>2, <2>3, PushTypesTyped DEF Compiled
  <2>7. QED
    BY <1>3, <2>1, <2>4, <2>5, <2>6, CompleteStored DEF CompileIf
<1>4. CASE CompileTimes
  <2>1. Ready("times")
    BY <1>4 DEF CompileTimes
  <2>2. pos \in Nat /\ Top.types \in Seq(Types)
    BY <1>1, <2>1, ReadyFacts
  <2>3. d1 \in Compiled /\ ItemsFit(d1.blob, blobs)
    BY <1>2, <2>1, ReadyClosed
  <2>4. TimesCells(pos, d1) \in Seq(Cells) /\ TimesItems(d1) \in Seq(Items)
    BY <1>1, <2>2, <2>3, TimesTyped
  <2>5. ItemsFit(TimesItems(d1), blobs)
    BY <1>1, <2>3, ControlItemsClosed
  <2>6. QED
    BY <1>4, <2>1, <2>2, <2>4, <2>5, CompleteStored DEF CompileTimes
<1>5. CASE CompileTimesUntil
  <2>1. Ready("until")
    BY <1>5 DEF CompileTimesUntil
  <2>2. pos \in Nat /\ Top.types \in Seq(Types)
    BY <1>1, <2>1, ReadyFacts
  <2>3. /\ d1 \in Compiled /\ d2 \in Compiled
        /\ ItemsFit(d1.blob, blobs) /\ ItemsFit(d2.blob, blobs)
    BY <1>2, <2>1, ReadyClosed
  <2>4. UntilCells(pos, d1, d2) \in Seq(Cells) /\ UntilItems(d1, d2) \in Seq(Items)
    BY <1>1, <2>2, <2>3, UntilTyped
  <2>5. ItemsFit(UntilItems(d1, d2), blobs)
    BY <1>1, <2>3, ControlItemsClosed
  <2>6. QED
    BY <1>5, <2>1, <2>2, <2>4, <2>5, CompleteStored DEF CompileTimesUntil
<1>6. QED
  BY <1>3, <1>4, <1>5

-----------------------------------------------------------------------------
(* Steps that store a row.                                                 *)

LEMMA SpecsKept ==
  ASSUME StoreInv, UNCHANGED specs, Extends(blobs, blobs')
  PROVE  SpecsClosed'
BY DEF StoreInv, SpecsClosed, Extends

(* A literal or a string, and the reference to it. *)
LEMMA EmitDataStored ==
  ASSUME StoreInv, AtToken, NEW kind \in Kinds, NEW data \in Data, data.code = <<>>,
         data.form # "code", Suits(kind, data.form),
         NEW n \in Int, NEW types \in Seq(Types),
         blobs' = StoreBlob(blobs, kind, data),
         frames' = SetTop(Emit(Top, <<Lit(n)>>, <<Ref(BLOB_DATA, CidOf(blobs, data))>>, types)),
         UNCHANGED specs
  PROVE  Stored
<1> DEFINE cid   == CidOf(blobs, data)
           items == <<Ref(BLOB_DATA, cid)>>
<1>1. TypeInv /\ TableClosed /\ blobs \in Seq(Rows)
  BY DEF StoreInv, TypeInv, TypeOK
<1>2. ItemsFit(data.code, blobs)
  BY FitItem
<1>3. /\ [Table!Put]_blobs /\ Extends(blobs, blobs') /\ TableClosed'
      /\ cid \in 1..Len(blobs') /\ FitsData(BLOB_DATA, blobs'[cid].data)
  BY <1>1, <1>2, StoreIsPut, DataFits
<1> HIDE DEF cid
<1>4. Lit(n) \in Cells /\ Ref(BLOB_DATA, cid) \in Items
  BY <1>3, CellsTyped, ItemsTyped, KindsTyped, SpellingAssumption DEF Extends
<1>5. <<Lit(n)>> \in Seq(Cells) /\ items \in Seq(Items)
  BY <1>4
<1>6. ItemsFit(items, blobs')
  BY <1>3, FitItem
<1>7. frames # <<>> /\ Top.toks # <<>>
  BY <1>1, AtTokenFacts, IdleFacts
<1>8. frames' = SetTop(Emit(Top, <<Lit(n)>>, items, types))
  BY DEF cid
<1> HIDE DEF items
<1>9. FramesClosed'
  BY <1>3, <1>5, <1>6, <1>7, <1>8, EmitStored
<1>10. QED
  BY <1>3, <1>9, SpecsKept DEF Stored

LEMMA LiteralStored ==
  ASSUME StoreInv, AtToken, NEW n \in Int, NEW types \in Seq(Types), EmitLiteral(n, types)
  PROVE  Stored
<1>1. /\ LitData(n) \in Data /\ LitData(n).code = <<>> /\ LitData(n).form # "code"
      /\ BLOB_DATA \in Kinds /\ Suits(BLOB_DATA, LitData(n).form)
  BY DataTyped, KindsTyped, KindsApart, SpellingAssumption DEF LitData, Suits
<1>2. QED
  BY <1>1, EmitDataStored DEF EmitLiteral

(* Array literals: their code is emitted one item, and one row, at a time. *)
LEMMA BracketStored == ASSUME StoreInv, CompileLbracket \/ CompileRbracket PROVE Stored
<1>1. TypeInv /\ AtToken /\ UNCHANGED <<blobs, specs>>
  BY DEF StoreInv, CompileLbracket, CompileRbracket
<1>2. /\ frames # <<>> /\ Top \in Frames /\ Top.types \in Seq(Types) /\ Top.toks # <<>>
      /\ Extends(blobs, blobs')
  BY <1>1, AtTokenFacts, IdleFacts, RowsCounted
<1>3. CASE CompileLbracket
  <2>1. /\ <<>> \in Seq(Cells) /\ <<>> \in Seq(Items)
        /\ ItemsFit(<<>>, blobs')
    BY <1>2, EmptySeq, FitItem
  <2>2. FramesClosed'
    BY <1>2, <1>3, <2>1, EmitStored DEF CompileLbracket
  <2>3. QED
    BY <1>1, <2>2, NothingStored
<1>4. CASE CompileRbracket
  <2>1. PICK type \in ElementTypes, types \in TypesAtMarker :
          frames' = SetTop([Top EXCEPT !.toks = ArrayCode(Count, type) \o Tail(@),
                                       !.types = PushTypes(types, <<"array">>)])
    BY <1>4 DEF CompileRbracket
  <2> DEFINE toks == ArrayCode(Count, type) \o Tail(Top.toks)
             ts   == PushTypes(types, <<"array">>)
             g    == [Top EXCEPT !.toks = toks, !.types = ts]
  <2>2. markers # <<>> /\ Tail(Top.toks) \in Seq(TokenSet)
    BY <1>1, <1>4, AtTokenFacts, IdleFacts, HeadTailProperties DEF CompileRbracket
  <2>3. toks \in Seq(TokenSet)
    BY <1>1, <2>2, MarkerTyped, ArrayCodeTyped, ConcatProperties
  <2>4. <<"array">> \in Seq(Types)
    BY DEF Types, ConcreteTypes
  <2>5. ts \in Seq(Types)
    BY <1>1, <2>2, <2>4, MarkerTyped, PushTypesTyped
  <2>6. frames' = SetTop(g)
    BY <2>1
  <2> HIDE DEF toks, ts
  <2>7. g \in Frames /\ g.blob = Top.blob /\ g.done = Top.done
    BY <1>2, <2>3, <2>5 DEF Frames
  <2>8. ClosedFrame(g, blobs')
    BY <1>1, <1>2, <2>7, AllClosed DEF ClosedFrame
  <2> HIDE DEF g
  <2>9. FramesClosed'
    BY <1>2, <2>6, <2>7, <2>8, SetTopClosed
  <2>10. QED
    BY <1>1, <2>9, NothingStored
<1>5. QED
  BY <1>3, <1>4

LEMMA EmitArrayStored == ASSUME StoreInv, EmitLit \/ EmitPrim PROVE Stored
<1>1. TypeInv /\ AtToken
  BY DEF StoreInv, EmitLit, EmitPrim
<1>2. /\ Top.types \in Seq(Types) /\ Tok.n \in Int /\ dict \in Seq(Entries)
      /\ frames # <<>> /\ Top.toks # <<>>
  BY <1>1, AtTokenFacts, IdleFacts DEF TypeInv, TypeOK
<1>3. CASE EmitLit
  BY <1>1, <1>2, <1>3, LiteralStored DEF EmitLit
<1>4. CASE EmitPrim
  <2> DEFINE items == <<PrimOf(Tok.s)>>
  <2>1. /\ frames' = SetTop(Emit(Top, <<XtOf(Tok.s)>>, items, Top.types))
        /\ UNCHANGED <<blobs, specs>>
    BY <1>4 DEF EmitPrim
  <2>2. <<XtOf(Tok.s)>> \in Seq(Cells) /\ items \in Seq(Items)
    BY <1>2, LookupEmitsTyped
  <2>3. Extends(blobs, blobs') /\ ItemsFit(items, blobs')
    BY <1>1, <2>1, RowsCounted, FitItem DEF PrimOf
  <2> HIDE DEF items
  <2>4. FramesClosed'
    BY <1>2, <2>1, <2>2, <2>3, EmitStored
  <2>5. QED
    BY <2>1, <2>4, NothingStored
<1>5. QED
  BY <1>3, <1>4

LEMMA CompileStringStored == ASSUME StoreInv, CompileString PROVE Stored
<1> DEFINE data  == StrData(Tok.s)
           types == PushTypes(Top.types, <<"str">>)
<1>1. AtToken /\ Tok.s \in STRING
  BY AtTokenFacts DEF CompileString, StoreInv
<1>2. /\ data \in Data /\ data.code = <<>> /\ data.form # "code"
      /\ BLOB_STRING \in Kinds /\ Suits(BLOB_STRING, data.form)
  BY <1>1, DataTyped, KindsTyped, SpellingAssumption DEF StrData, Suits
<1>3. types \in Seq(Types) /\ 0 \in Int
  <2>1. <<"str">> \in Seq(Types)
    BY DEF Types, ConcreteTypes
  <2>2. Top.types \in Seq(Types)
    BY <1>1, AtTokenFacts, IdleFacts DEF StoreInv
  <2>3. PushTypes(Top.types, <<"str">>) \in Seq(Types)
    BY <2>1, <2>2, PushTypesTyped
  <2>4. QED
    BY <2>3
<1>4. /\ blobs' = StoreBlob(blobs, BLOB_STRING, data)
      /\ frames' = SetTop(Emit(Top, <<Lit(0)>>, <<Ref(BLOB_DATA, CidOf(blobs, data))>>, types))
      /\ UNCHANGED specs
  BY DEF CompileString
<1> HIDE DEF data, types
<1>5. QED
  BY <1>1, <1>2, <1>3, <1>4, EmitDataStored

LEMMA FinishMaterializeStored == ASSUME StoreInv, FinishMaterialize PROVE Stored
<1> DEFINE body == Top.done[1].blob
           code == CodeData(body)
           cid  == CidOf(blobs, code)
           g    == [Top EXCEPT !.cells = Append(@, Lit(0)),
                               !.blob = Append(@, Ref(BLOB_QUOTATION, cid)),
                               !.types = PushTypes(@, <<"ptr">>),
                               !.op = "none", !.quots = <<>>, !.done = <<>>]
<1>1. /\ TypeInv /\ Ready("mat") /\ QuotsTaken("mat") = 1
      /\ blobs \in Seq(Rows) /\ Len(blobs) \in Nat
  BY RowsCounted DEF StoreInv, TypeInv, TypeOK, FinishMaterialize, QuotsTaken
<1>2. frames # <<>> /\ Top \in Frames
  BY <1>1, ReadyFacts
<1>3. body \in Seq(Items) /\ ItemsFit(body, blobs)
  BY <1>1, ReadyClosed
<1> HIDE DEF body
<1>4. /\ code \in Data /\ BLOB_QUOTATION \in Kinds /\ code.code = body
      /\ code.form = "code" /\ Suits(BLOB_QUOTATION, code.form)
  BY <1>3, DataTyped, KindsTyped, KindsApart, SpellingAssumption DEF CodeData, Suits
<1> HIDE DEF code
<1>5. blobs' = StoreBlob(blobs, BLOB_QUOTATION, code) /\ UNCHANGED specs
  BY DEF FinishMaterialize, code, body
<1>6. /\ [Table!Put]_blobs /\ Extends(blobs, blobs') /\ TableClosed'
      /\ cid \in 1..Len(blobs') /\ FitsData(BLOB_QUOTATION, blobs'[cid].data)
  BY <1>1, <1>3, <1>4, <1>5, StoreIsPut, DataFits DEF StoreInv
<1> HIDE DEF cid
<1>7. CASE quotRefs >= MaxQuotRefs
  <2>1. UNCHANGED frames
    BY <1>7 DEF FinishMaterialize
  <2>2. \A i \in 1..Len(frames) : ClosedFrame(frames[i], blobs')
    BY <1>1, <1>2, <1>6, AllClosed, ClosedGrows
  <2>3. FramesClosed'
    BY <2>1, <2>2 DEF FramesClosed, ClosedFrame
  <2>4. QED
    BY <1>5, <1>6, <2>3, SpecsKept DEF Stored
<1>8. CASE ~(quotRefs >= MaxQuotRefs)
  <2>1. frames' = SetTop(g)
    BY <1>8 DEF FinishMaterialize, code, cid, body
  <2>2. /\ Top.cells \in Seq(Cells) /\ Top.blob \in Seq(Items) /\ Top.types \in Seq(Types)
    BY <1>2 DEF Frames
  <2> DEFINE ref == Ref(BLOB_QUOTATION, cid)
  <2>3. Lit(0) \in Cells /\ ref \in Items
    BY <1>4, <1>6, CellsTyped, ItemsTyped, SpellingAssumption
  <2>4. ItemsFit(<<ref>>, blobs')
    BY <1>6, FitItem
  <2> HIDE DEF ref
  <2>5. /\ Append(Top.cells, Lit(0)) \in Seq(Cells)
        /\ Append(Top.blob, ref) \in Seq(Items)
        /\ Append(Top.blob, ref) = Top.blob \o <<ref>>
        /\ <<ref>> \in Seq(Items)
    BY <2>2, <2>3, AppendProperties, AppendIsConcat
  <2>6. <<"ptr">> \in Seq(Types)
    BY DEF Types, ConcreteTypes
  <2>7. PushTypes(Top.types, <<"ptr">>) \in Seq(Types)
    BY <2>2, <2>6, PushTypesTyped
  <2>8. <<>> \in Seq(Quotations) /\ <<>> \in Seq(Compiled)
    BY EmptySeq
  <2>9. g \in Frames /\ g.blob = Append(Top.blob, ref) /\ g.done = <<>>
    BY <1>2, <2>5, <2>7, <2>8 DEF Frames, Ops, ref
  <2>10. ItemsFit(Top.blob, blobs')
    BY <1>2, <1>6, AllClosed, FitGrows DEF ClosedFrame
  <2>11. ItemsFit(Top.blob \o <<ref>>, blobs')
    BY <1>6, <2>2, <2>4, <2>5, <2>10, FitConcat
  <2>12. ClosedFrame(g, blobs')
    <3>1. ItemsFit(g.blob, blobs')
      BY <2>5, <2>9, <2>11
    <3>2. Len(g.done) = 0
      BY <2>9, EmptySeq
    <3> HIDE DEF g
    <3>3. QED
      BY <3>1, <3>2 DEF ClosedFrame
  <2> HIDE DEF g
  <2>13. FramesClosed'
    BY <1>2, <1>6, <2>1, <2>9, <2>12, SetTopClosed
  <2>14. QED
    BY <1>5, <1>6, <2>13, SpecsKept DEF Stored
<1>9. QED
  BY <1>7, <1>8

(* The finished word is a row, its id goes into the cache and the call     *)
(* into the frame that asked for it.                                       *)
LEMMA FinishCallStored == ASSUME StoreInv, FinishCall PROVE Stored
<1> DEFINE body   == Top.blob
           code   == CodeData(body)
           cid    == CidOf(blobs, code)
           caller == frames[Len(frames) - 1]
           name   == Head(caller.toks).s
           entry  == DictLookupTyped(dict, name, caller.types)
<1>1. TypeInv /\ Idle /\ Len(frames) > 1 /\ Top.def # 0
  BY DEF StoreInv, FinishCall, WordDone
<1>2. /\ blobs \in Seq(Rows) /\ Len(blobs) \in Nat /\ Len(frames) \in Nat
      /\ frames # <<>> /\ body \in Seq(Items)
  BY <1>1, RowsCounted, IdleFacts, LenProperties DEF TypeInv, TypeOK
<1>3. ItemsFit(body, blobs) /\ ClosedFrame(caller, blobs)
  <2>1. Len(frames) - 1 \in 1..Len(frames)
    BY <1>1, <1>2
  <2>2. QED
    BY <1>2, <2>1, AllClosed DEF ClosedFrame
<1> HIDE DEF body
<1>4. /\ code \in Data /\ BLOB_WORD \in Kinds /\ code.code = body
      /\ code.form = "code" /\ Suits(BLOB_WORD, code.form)
  BY <1>2, DataTyped, KindsTyped, KindsApart, SpellingAssumption DEF CodeData, Suits
<1> HIDE DEF code
<1>5. /\ blobs' = StoreBlob(blobs, BLOB_WORD, code)
      /\ specs' = SpecStore(name, Top.ins, cid, entry.def)
  BY DEF FinishCall, code, body
<1>6. /\ [Table!Put]_blobs /\ Extends(blobs, blobs') /\ TableClosed'
      /\ cid \in 1..Len(blobs') /\ FitsData(BLOB_WORD, blobs'[cid].data)
  BY <1>2, <1>3, <1>4, <1>5, StoreIsPut, DataFits DEF StoreInv
<1> HIDE DEF cid
<1>7. /\ caller \in Frames /\ caller.op = "call" /\ caller.toks # <<>>
      /\ caller.toks \in Seq(TokenSet) /\ caller.types \in Seq(Types)
  BY <1>1, CallerFacts DEF FrameOK, Awaits, Frames
<1>8. entry \in Entries
  BY <1>1, <1>7, LookupTypedTyped DEF TypeInv, TypeOK
<1>9. SpecsClosed'
  <2> DEFINE s == [name |-> name, ins |-> Top.ins, cid |-> cid, def |-> entry.def]
  <2>1. specs \in Seq(Specs) /\ s.cid = cid
    BY <1>1 DEF TypeInv, TypeOK
  <2>2. \A i \in 1..Len(specs) : /\ specs[i].cid \in 1..Len(blobs')
                                 /\ FitsData(BLOB_WORD, blobs'[specs[i].cid].data)
    BY <1>6 DEF StoreInv, SpecsClosed, Extends
  <2>3. specs' = specs \/ specs' = Append(specs, s)
    BY <1>5 DEF SpecStore
  <2> HIDE DEF s
  <2>4. CASE specs' = specs
    BY <2>2, <2>4 DEF SpecsClosed
  <2>5. CASE specs' = Append(specs, s)
    <3>1. /\ Len(specs') = Len(specs) + 1 /\ Len(specs) \in Nat
          /\ \A i \in 1..Len(specs) : specs'[i] = specs[i]
          /\ specs'[Len(specs) + 1] = s
      BY <2>1, <2>5, LenProperties
    <3>2. \A i \in 1..Len(specs') : /\ specs'[i].cid \in 1..Len(blobs')
                                    /\ FitsData(BLOB_WORD, blobs'[specs'[i].cid].data)
      BY <1>6, <2>1, <2>2, <3>1
    <3>3. QED
      BY <3>2 DEF SpecsClosed
  <2>6. QED
    BY <2>3, <2>4, <2>5
<1>10. CASE ~SignatureApplies(entry, caller.types)
  <2>1. UNCHANGED frames
    BY <1>10 DEF FinishCall
  <2>2. \A i \in 1..Len(frames) : ClosedFrame(frames[i], blobs')
    BY <1>2, <1>6, AllClosed, ClosedGrows
  <2>3. FramesClosed'
    BY <2>1, <2>2 DEF FramesClosed, ClosedFrame
  <2>4. QED
    BY <1>6, <1>9, <2>3 DEF Stored
<1>11. CASE SignatureApplies(entry, caller.types)
  <2> DEFINE g == EmitCall(caller, entry, cid)
  <2>1. frames' = [PopFrame EXCEPT ![Len(frames) - 1] = g]
    BY <1>11 DEF FinishCall, cid, code, body
  <2> HIDE DEF entry
  <2>2. g \in Frames
    BY <1>6, <1>7, <1>8, <1>11, EmitCallOK DEF FrameOK
  <2>3. Ref(BLOB_WORD, cid) \in Items
    BY <1>4, <1>6, ItemsTyped, SpellingAssumption
  <2>4. <<Ref(BLOB_WORD, cid)>> \in Seq(Items)
        /\ ItemsFit(<<Ref(BLOB_WORD, cid)>>, blobs')
    BY <1>6, <2>3, FitItem
  <2>5. ClosedFrame(g, blobs')
    BY <1>2, <1>3, <1>6, <1>7, <2>4, EmitClosed DEF EmitCall
  <2> HIDE DEF g
  <2>6. FramesClosed'
    BY <1>1, <1>6, <2>1, <2>2, <2>5, PopClosed
  <2>7. QED
    BY <1>6, <1>9, <2>6 DEF Stored
<1>12. QED
  BY <1>10, <1>11

LEMMA FinishRunStored == ASSUME StoreInv, FinishRun PROVE Stored
<1> DEFINE body == Top.blob
           code == CodeData(body)
<1>1. TypeInv /\ Idle
  BY DEF StoreInv, FinishRun, WordDone
<1>2. blobs \in Seq(Rows) /\ frames # <<>> /\ body \in Seq(Items)
  BY <1>1, IdleFacts DEF TypeInv, TypeOK
<1>3. ItemsFit(body, blobs)
  BY <1>2, AllClosed DEF ClosedFrame
<1> HIDE DEF body
<1>4. /\ code \in Data /\ BLOB_WORD \in Kinds /\ code.code = body
      /\ code.form = "code" /\ Suits(BLOB_WORD, code.form)
  BY <1>2, DataTyped, KindsTyped, KindsApart, SpellingAssumption DEF CodeData, Suits
<1> HIDE DEF code
<1>5. blobs' = StoreBlob(blobs, BLOB_WORD, code) /\ frames' = <<>> /\ UNCHANGED specs
  BY DEF FinishRun, code, body
<1>6. [Table!Put]_blobs /\ Extends(blobs, blobs') /\ TableClosed'
  BY <1>2, <1>3, <1>4, <1>5, StoreIsPut DEF StoreInv
<1>7. FramesClosed'
  BY <1>5, EmptySeq DEF FramesClosed
<1>8. QED
  BY <1>5, <1>6, <1>7, SpecsKept DEF Stored

LEMMA CompileStepStored == ASSUME StoreInv, CompileStep PROVE Stored
<1>1. CASE CompileNumber
  <2> DEFINE types == PushTypes(Top.types, <<"i64">>)
  <2>1. AtToken /\ Tok.n \in Int /\ EmitLiteral(Tok.n, types) /\ types \in Seq(Types)
    BY <1>1, AtTokenFacts, PushI64Typed DEF CompileNumber, StoreInv
  <2> HIDE DEF types
  <2>2. QED
    BY <2>1, LiteralStored
<1>2. CASE CompileBool
  <2> DEFINE types == PushTypes(Top.types, <<"i64">>)
  <2>1. AtToken /\ (EmitLiteral(-1, types) \/ EmitLiteral(0, types))
    BY <1>2 DEF CompileBool, AtImmediate, AtResolved, AtWord
  <2>2. types \in Seq(Types)
    BY <2>1, PushI64Typed DEF StoreInv
  <2> HIDE DEF types
  <2>3. QED
    BY <2>1, <2>2, LiteralStored
<1>3. CASE UnexpectedToken \/ ArrayError \/ WordError \/ ControlError
  BY <1>3, FailStored DEF UnexpectedToken, ArrayError, WordError, ControlError
<1>4. QED
  BY <1>1, <1>2, <1>3, BracketStored, EmitArrayStored, CompileStringStored, CompilePrimitiveStored, CallHitStored,
     CallMissStored, FinishCallStored, BeginStored, EnterQuotationStored,
     FinishQuotationStored, FinishMaterializeStored, CompileStackWordStored,
     CompileControlStored, FinishRunStored
     DEF CompileStep

LEMMA RunnerStored == ASSUME StoreInv, RunnerExecute \/ RunDone PROVE Stored
<1>1. CASE RunDone
  BY <1>1, NothingCompiled DEF RunDone, compileVars
<1>2. ASSUME NEW name \in Names, RunnerError(name)
      PROVE  Stored
  BY <1>2, FailStored DEF RunnerError
<1>3. ASSUME NEW name \in Names, RunnerLink(name)
      PROVE  Stored
  BY <1>3, NothingCompiled DEF RunnerLink
<1>4. ASSUME NEW name \in Names, RunnerCompile(name)
      PROVE  Stored
  <2>1. PICK f : /\ ClosedFrame(f, blobs) /\ frames' = <<f>>
                 /\ UNCHANGED <<blobs, specs>>
    BY <1>4, NewFrameClosed DEF RunnerCompile
  <2>2. FramesClosed'
    BY <2>1 DEF FramesClosed, ClosedFrame
  <2>3. QED
    BY <2>1, <2>2, NothingStored
<1>5. QED
  BY <1>1, <1>2, <1>3, <1>4 DEF RunnerExecute

(* A new process starts with the rows and without anything that refers to  *)
(* them.                                                                   *)
LEMMA RestartStored == ASSUME StoreInv, Restart PROVE Stored
<1>1. frames' = <<>> /\ specs' = <<>> /\ UNCHANGED blobs
  BY DEF Restart
<1>2. FramesClosed' /\ SpecsClosed' /\ TableClosed'
  BY <1>1, EmptySeq DEF StoreInv, FramesClosed, SpecsClosed, TableClosed
<1>3. QED
  BY <1>1, <1>2 DEF Stored

LEMMA StoreNext ==
  ASSUME StoreInv, [Next]_vars
  PROVE  StoreInv' /\ [Table!Put]_blobs
<1>1. TypeInv'
  BY NextTyped DEF StoreInv
<1>2. Stored
  <2>1. CASE UNCHANGED vars
    BY <2>1, NothingCompiled DEF vars
  <2>2. QED
    BY <2>1, ReadSourceStored, CompileStepStored, RunnerStored, RestartStored DEF Next
<1>3. QED
  BY <1>1, <1>2 DEF Stored, StoreInv

LEMMA StoreInit == Init => StoreInv
<1> SUFFICES ASSUME Init PROVE StoreInv
  OBVIOUS
<1>1. TypeInv /\ frames = <<>> /\ specs = <<>> /\ blobs = <<>>
  BY InitTyped DEF Init
<1>2. QED
  BY <1>1, EmptySeq DEF StoreInv, FramesClosed, SpecsClosed, TableClosed

-----------------------------------------------------------------------------
(* Whatever is being compiled, and wherever the process dies: code never   *)
(* refers to a row that has not been stored.                               *)
THEOREM ReferencesClosed == Spec => []PendingClosed
<1>1. Init => StoreInv
  BY StoreInit
<1>2. StoreInv /\ [Next]_vars => StoreInv'
  BY StoreNext
<1>3. StoreInv => PendingClosed
  BY FitIsClosed DEF StoreInv, FramesClosed, ClosedFrame, PendingClosed
<1>4. QED
  BY <1>1, <1>2, <1>3, PTL DEF Spec

(* Compiler refines BlobStore: every step, a restart included, leaves the  *)
(* table alone or adds one row, with new data, whose references are to     *)
(* rows already there.                                                     *)
THEOREM StoreRefinement == Spec => TableSpec
<1>1. Init => StoreInv
  BY StoreInit
<1>2. StoreInv /\ [Next]_vars => StoreInv' /\ [Table!Put]_blobs
  BY StoreNext
<1>3. Init => Table!Init
  BY DEF Init, Table!Init
<1>4. QED
  BY <1>1, <1>2, <1>3, PTL DEF Spec, TableSpec, Table!Spec

-----------------------------------------------------------------------------
(* The specialization cache.  What goes into it when a call returns is     *)
(* named by the types its callee was entered with; that overload           *)
(* resolution would select the same definition for those types takes an    *)
(* invariant about every call in progress.                                 *)

(* Frame f waits for a call: h has been entered with the inputs of the     *)
(* entry that resolution selects for f.                                    *)
CalledFor(f, h) ==
  f.op = "call" =>
    LET entry == DictLookupTyped(dict, Head(f.toks).s, f.types) IN
    entry # NoEntry /\ h.ins = TopOf(f.types, Len(entry.ins))

CallsFit == \A i \in 1..Len(frames) - 1 : CalledFor(frames[i], frames[i + 1])

(* While a source is read nothing has been compiled.                       *)
NothingYet == phase \in {"file", "def"} => specs = <<>> /\ frames = <<>>

CacheInv == TypeInv /\ CacheSound /\ CallsFit /\ NothingYet

(* What every step has to do besides keeping the types.                    *)
Cached == CacheSound' /\ CallsFit' /\ NothingYet'

LEMMA CacheShape ==
  ASSUME CacheInv, frames # <<>>
  PROVE  /\ frames \in Seq(Frames) /\ Len(frames) \in Nat \ {0}
         /\ Top \in Frames /\ Top = frames[Len(frames)]
         /\ phase \notin {"file", "def"}
BY TopTyped DEF CacheInv, TypeInv, TypeOK, NothingYet

LEMMA SameCache ==
  ASSUME CacheInv, UNCHANGED <<dict, specs>>
  PROVE  CacheSound'
BY DEF CacheInv, CacheSound

LEMMA NothingCached ==
  ASSUME CacheInv, UNCHANGED <<dict, specs, frames>>,
         phase' \in {"file", "def"} => phase \in {"file", "def"}
  PROVE  Cached
BY SameCache DEF Cached, CacheInv, CallsFit, CalledFor, NothingYet

LEMMA FailCached == ASSUME CacheInv, Fail PROVE Cached
BY NothingCached DEF Fail, sourceVars, compileVars

(* The top frame goes on.                                                  *)
LEMMA TopCached ==
  ASSUME CacheInv, frames # <<>>, NEW g, g.ins = Top.ins, frames' = SetTop(g),
         UNCHANGED <<dict, specs, phase>>
  PROVE  Cached
<1>1. /\ frames \in Seq(Frames) /\ Len(frames) \in Nat \ {0}
      /\ Top = frames[Len(frames)] /\ phase \notin {"file", "def"}
  BY CacheShape
<1>2. /\ Len(frames') = Len(frames)
      /\ \A i \in 1..Len(frames) : frames'[i] = IF i = Len(frames) THEN g ELSE frames[i]
  BY <1>1, SetTopAny
<1>3. ASSUME NEW i \in 1..Len(frames) - 1
      PROVE  CalledFor(frames'[i], frames'[i + 1])
  <2>1. frames'[i] = frames[i] /\ frames'[i + 1].ins = frames[i + 1].ins
    BY <1>1, <1>2
  <2>2. CalledFor(frames[i], frames[i + 1])
    BY DEF CacheInv, CallsFit
  <2>3. QED
    BY <2>1, <2>2 DEF CalledFor
<1>4. CallsFit'
  BY <1>2, <1>3 DEF CallsFit, CalledFor
<1>5. QED
  BY <1>1, <1>4, SameCache DEF Cached, NothingYet

LEMMA EmitCached ==
  ASSUME CacheInv, frames # <<>>, NEW cells, NEW items, NEW types,
         frames' = SetTop(Emit(Top, cells, items, types)),
         UNCHANGED <<dict, specs, phase>>
  PROVE  Cached
<1> DEFINE g == Emit(Top, cells, items, types)
<1>1. g.ins = Top.ins
  BY CacheShape DEF Emit, Frames
<1>2. frames' = SetTop(g)
  OBVIOUS
<1> HIDE DEF g
<1>3. QED
  BY <1>1, <1>2, TopCached

LEMMA EmitLiteralCached ==
  ASSUME CacheInv, AtToken, NEW n, NEW types, EmitLiteral(n, types)
  PROVE  Cached
<1>1. frames # <<>>
  BY DEF AtToken, Idle, Compiling
<1>2. QED
  BY <1>1, EmitCached DEF EmitLiteral, sourceVars

(* The steps that end in Emit.                                             *)
LEMMA TokenCached ==
  ASSUME CacheInv,
         \/ CompileNumber \/ CompileString \/ CompileLbracket \/ EmitLit \/ EmitPrim
         \/ CompilePrimitive \/ CallHit \/ CompileBool \/ CompileStackWord
         \/ CompileIf \/ CompileTimes \/ CompileTimesUntil
  PROVE  Cached
<1>1. frames # <<>>
  BY DEF CompileNumber, CompileString, CompileLbracket, EmitLit, EmitPrim, CompilePrimitive,
         CallHit, CompileBool, CompileStackWord, CompileIf, CompileTimes, CompileTimesUntil,
         AtImmediate, AtResolved, AtWord, AtToken, Idle, Ready, Compiling
<1>2. CASE CompileNumber \/ EmitLit \/ CompileBool
  BY <1>2, EmitLiteralCached
     DEF CompileNumber, EmitLit, CompileBool, AtImmediate, AtResolved, AtWord
<1>3. CASE CompileString \/ CompileLbracket \/ EmitPrim
  BY <1>1, <1>3, EmitCached DEF CompileString, CompileLbracket, EmitPrim, sourceVars
<1>4. CASE CompilePrimitive
  BY <1>1, <1>4, EmitCached, FailCached DEF CompilePrimitive, sourceVars
<1>5. CASE CallHit
  BY <1>1, <1>5, EmitCached, FailCached DEF CallHit, EmitCall, sourceVars
<1>6. CASE CompileStackWord
  BY <1>1, <1>6, EmitCached, FailCached DEF CompileStackWord, sourceVars
<1>7. CASE CompileIf \/ CompileTimes \/ CompileTimesUntil
  BY <1>1, <1>7, EmitCached DEF CompileIf, CompileTimes, CompileTimesUntil, sourceVars
<1>8. QED
  BY <1>2, <1>3, <1>4, <1>5, <1>6, <1>7

LEMMA RbracketCached == ASSUME CacheInv, CompileRbracket PROVE Cached
<1>1. frames # <<>> /\ UNCHANGED <<dict, specs, phase>>
  BY DEF CompileRbracket, AtToken, Idle, Compiling, sourceVars
<1>2. PICK toks, ts : frames' = SetTop([Top EXCEPT !.toks = toks, !.types = ts])
  BY DEF CompileRbracket
<1> DEFINE g == [Top EXCEPT !.toks = toks, !.types = ts]
<1>3. g.ins = Top.ins
  BY <1>1, CacheShape DEF Frames
<1>4. frames' = SetTop(g)
  BY <1>2
<1> HIDE DEF g
<1>5. QED
  BY <1>1, <1>3, <1>4, TopCached

LEMMA ConsumeCached ==
  ASSUME CacheInv, frames # <<>>, NEW n, NEW op, NEW quots, NEW types,
         Consume(n, op, quots, types)
  PROVE  Cached
<1> DEFINE g == [Top EXCEPT !.op = op, !.quots = quots, !.types = types]
<1>1. g.ins = Top.ins
  BY CacheShape DEF Frames
<1>2. frames' = SetTop(g) /\ UNCHANGED <<dict, specs, phase>>
  BY DEF Consume, sourceVars
<1> HIDE DEF g
<1>3. QED
  BY <1>1, <1>2, TopCached

LEMMA BeginCached ==
  ASSUME CacheInv, BeginMaterialize \/ BeginIf \/ BeginTimes \/ BeginUntil
  PROVE  Cached
<1>1. frames # <<>>
  BY DEF BeginMaterialize, BeginIf, BeginTimes, BeginUntil, AtImmediate, AtResolved,
         AtWord, AtToken, Idle, Compiling
<1>2. QED
  BY <1>1, ConsumeCached DEF BeginMaterialize, BeginIf, BeginTimes, BeginUntil

LEMMA FinishMaterializeCached == ASSUME CacheInv, FinishMaterialize PROVE Cached
<1>1. frames # <<>> /\ UNCHANGED <<dict, specs>>
  BY DEF FinishMaterialize, Ready, Compiling, sourceVars
<1>2. CASE quotRefs >= MaxQuotRefs
  BY <1>1, <1>2, NothingCached DEF FinishMaterialize
<1>3. CASE ~(quotRefs >= MaxQuotRefs)
  <2> DEFINE g == [Top EXCEPT
                     !.cells = Append(@, Lit(0)),
                     !.blob = Append(@, Ref(BLOB_QUOTATION,
                                            CidOf(blobs, CodeData(Top.done[1].blob)))),
                     !.types = PushTypes(@, <<"ptr">>),
                     !.op = "none", !.quots = <<>>, !.done = <<>>]
  <2>1. g.ins = Top.ins
    BY <1>1, CacheShape DEF Frames
  <2>2. frames' = SetTop(g) /\ UNCHANGED phase
    BY <1>3 DEF FinishMaterialize
  <2> HIDE DEF g
  <2>3. QED
    BY <1>1, <2>1, <2>2, TopCached
<1>4. QED
  BY <1>2, <1>3

(* A new frame on top: for a call, or for a quotation.                     *)
LEMMA EnterCached ==
  ASSUME CacheInv, frames # <<>>, NEW g, NEW h, g.ins = Top.ins, CalledFor(g, h),
         Enter(g, h), UNCHANGED <<dict, specs>>
  PROVE  Cached
<1>1. /\ frames \in Seq(Frames) /\ Len(frames) \in Nat \ {0}
      /\ Top = frames[Len(frames)] /\ phase \notin {"file", "def"}
  BY CacheShape
<1>2. CASE Len(frames) >= MaxFrames
  BY <1>2, NothingCached DEF Enter
<1>3. CASE ~(Len(frames) >= MaxFrames)
  <2> DEFINE fs == Append(SetTop(g), h)
             n  == Len(frames)
  <2>1. /\ Len(fs) = n + 1
        /\ \A i \in 1..n + 1 :
             fs[i] = IF i = n + 1 THEN h ELSE IF i = n THEN g ELSE frames[i]
    BY <1>1, EnterAny
  <2>2. frames' = fs /\ UNCHANGED phase
    BY <1>3 DEF Enter
  <2> HIDE DEF fs
  <2>3. ASSUME NEW i \in 1..n
        PROVE  CalledFor(fs[i], fs[i + 1])
    <3>1. CASE i = n
      BY <1>1, <2>1, <3>1
    <3>2. CASE i # n
      <4>1. /\ i \in 1..n - 1 /\ fs[i] = frames[i] /\ fs[i + 1].ins = frames[i + 1].ins
        BY <1>1, <2>1, <3>2
      <4>2. CalledFor(frames[i], frames[i + 1])
        BY <4>1 DEF CacheInv, CallsFit
      <4>3. QED
        BY <4>1, <4>2 DEF CalledFor
    <3>3. QED
      BY <3>1, <3>2
  <2>4. CallsFit'
    BY <1>1, <2>1, <2>2, <2>3 DEF CallsFit, CalledFor
  <2>5. QED
    BY <1>1, <2>2, <2>4, SameCache DEF Cached, NothingYet
<1>4. QED
  BY <1>2, <1>3

LEMMA CallMissCached == ASSUME CacheInv, CallMiss PROVE Cached
<1> DEFINE g == [Top EXCEPT !.op = "call"]
           h == NewFrame(Resolved.def, CallInputs, PushTypes(<<>>, CallInputs),
                         defs[Resolved.def].toks)
<1>1. frames # <<>> /\ Resolved.kind = "word" /\ Enter(g, h) /\ UNCHANGED <<dict, specs>>
  BY DEF CallMiss, AtResolved, AtWord, AtToken, Idle, Compiling, sourceVars
<1>2. g.ins = Top.ins /\ g.toks = Top.toks /\ g.types = Top.types
  BY <1>1, CacheShape DEF Frames
<1>3. h.ins = TopOf(Top.types, Len(Resolved.ins))
  BY DEF NewFrame, CallInputs
<1>4. Resolved # NoEntry
  BY <1>1 DEF NoEntry, Entry
<1>5. CalledFor(g, h)
  BY <1>2, <1>3, <1>4 DEF CalledFor, Resolved, Tok
<1> HIDE DEF g, h
<1>6. QED
  BY <1>1, <1>2, <1>5, EnterCached

LEMMA EnterQuotationCached == ASSUME CacheInv, EnterQuotation PROVE Cached
<1>1. /\ frames # <<>> /\ UNCHANGED <<dict, specs>>
      /\ Len(Top.done) < Len(Top.quots)
  BY DEF EnterQuotation, Compiling, sourceVars
<1>2. PICK h : Enter(Top, h)
  BY DEF EnterQuotation
<1>3. Top.op # "call"
  <2>1. FrameOK(Top) /\ Top \in Frames
    BY <1>1, TopTyped DEF CacheInv, TypeInv
  <2>2. Len(Top.done) \in Nat /\ Len(Top.quots) = QuotsTaken(Top.op)
    BY <2>1, LenProperties DEF FrameOK, Frames
  <2>3. QED
    BY <1>1, <2>2 DEF QuotsTaken
<1>4. CalledFor(Top, h)
  BY <1>3 DEF CalledFor
<1>5. QED
  BY <1>1, <1>2, <1>4, EnterCached

(* The top frame returns.                                                  *)
LEMMA PopFits ==
  ASSUME CacheInv, Idle, Len(frames) > 1, NEW g, g.ins = frames[Len(frames) - 1].ins,
         frames' = [PopFrame EXCEPT ![Len(frames) - 1] = g], UNCHANGED dict
  PROVE  CallsFit'
<1> DEFINE n == Len(frames)
<1>1. frames \in Seq(Frames) /\ n \in Nat
  BY CallerFrame DEF CacheInv
<1>2. /\ Len(frames') = n - 1
      /\ \A i \in 1..n - 1 : frames'[i] = IF i = n - 1 THEN g ELSE frames[i]
  BY <1>1, PopAny
<1>3. n - 1 \in Nat /\ Len(frames') - 1 = n - 2
  BY <1>1, <1>2
<1> HIDE DEF n
<1>4. ASSUME NEW i \in 1..n - 2
      PROVE  CalledFor(frames'[i], frames'[i + 1])
  <2>1. i \in 1..n - 1 /\ i # n - 1 /\ i + 1 \in 1..n - 1
    BY <1>1, <1>3
  <2>2. frames'[i] = frames[i]
    BY <1>2, <2>1
  <2>3. frames'[i + 1].ins = frames[i + 1].ins
    <3>1. frames'[i + 1] = IF i + 1 = n - 1 THEN g ELSE frames[i + 1]
      BY <1>2, <2>1
    <3>2. QED
      BY <3>1 DEF n
  <2>4. CalledFor(frames[i], frames[i + 1])
    BY <2>1 DEF CacheInv, CallsFit, n
  <2>5. QED
    BY <2>2, <2>3, <2>4 DEF CalledFor
<1>5. \A i \in 1..n - 2 : CalledFor(frames[i], frames[i + 1])'
  BY <1>4 DEF CalledFor
<1>6. QED
  BY <1>3, <1>5 DEF CallsFit

LEMMA FinishQuotationCached == ASSUME CacheInv, FinishQuotation PROVE Cached
<1> DEFINE caller == frames[Len(frames) - 1]
           g == [caller EXCEPT !.done = Append(@, [cells |-> Append(Top.cells, Exit),
                                                   blob |-> Top.blob, outs |-> Top.types])]
<1>1. TypeInv /\ Idle /\ Len(frames) > 1 /\ UNCHANGED <<dict, specs, phase>> /\ frames # <<>>
  BY DEF FinishQuotation, CacheInv, sourceVars, Idle, Compiling
<1>2. caller \in Frames /\ PopFrame[Len(frames) - 1] = caller
  BY <1>1, CallerFacts, CallerFrame
<1>3. g.ins = caller.ins
  BY <1>2 DEF Frames
<1>4. frames' = [PopFrame EXCEPT ![Len(frames) - 1] = g]
  BY <1>2 DEF FinishQuotation
<1> HIDE DEF g
<1>5. CallsFit'
  BY <1>1, <1>3, <1>4, PopFits
<1>6. NothingYet'
  BY <1>1, CacheShape DEF NothingYet
<1>7. QED
  BY <1>1, <1>5, <1>6, SameCache DEF Cached

LEMMA FinishCallCached == ASSUME CacheInv, FinishCall PROVE Cached
<1> DEFINE n      == Len(frames)
           cid    == CidOf(blobs, CodeData(Top.blob))
           caller == frames[n - 1]
           name   == Head(caller.toks).s
           entry  == DictLookupTyped(dict, name, caller.types)
           s      == [name |-> name, ins |-> Top.ins, cid |-> cid, def |-> entry.def]
<1>1. /\ TypeInv /\ Idle /\ n > 1 /\ Top.def # 0 /\ frames # <<>>
      /\ dict \in Seq(Entries) /\ specs \in Seq(Specs) /\ UNCHANGED dict
      /\ specs' = SpecStore(name, Top.ins, cid, entry.def)
  BY DEF FinishCall, WordDone, CacheInv, TypeInv, TypeOK, sourceVars, Idle, Compiling
<1>2. /\ caller \in Frames /\ caller.op = "call" /\ caller.types \in Seq(Types)
      /\ n \in Nat /\ Top = frames[(n - 1) + 1]
  BY <1>1, CallerFacts, CallerFrame DEF FrameOK, Awaits, Frames
<1>3. entry # NoEntry /\ Top.ins = TopOf(caller.types, Len(entry.ins))
  <2>1. n - 1 \in 1..n - 1
    BY <1>1, <1>2
  <2>2. CalledFor(caller, frames[(n - 1) + 1])
    BY <2>1 DEF CacheInv, CallsFit
  <2>3. QED
    BY <1>2, <2>2 DEF CalledFor
<1>4. DictLookupTyped(dict, name, Top.ins).def = entry.def
  BY <1>1, <1>2, <1>3, LookupOfInputs
<1>5. CacheSound'
  <2>1. specs' = specs \/ specs' = Append(specs, s)
    BY <1>1 DEF SpecStore
  <2>2. DictLookupTyped(dict, s.name, s.ins).def = s.def
    BY <1>4
  <2> HIDE DEF s
  <2>3. CASE specs' = specs
    BY <1>1, <2>3, SameCache
  <2>4. CASE specs' = Append(specs, s)
    <3>1. /\ Len(specs') = Len(specs) + 1 /\ Len(specs) \in Nat
          /\ \A i \in 1..Len(specs) : specs'[i] = specs[i]
          /\ specs'[Len(specs) + 1] = s
      <4> DEFINE T == Specs \cup {s}
      <4>1. specs \in Seq(T) /\ s \in T
        BY <1>1
      <4> HIDE DEF T
      <4>2. QED
        BY <2>4, <4>1, AppendProperties, LenProperties
    <3>2. ASSUME NEW i \in 1..Len(specs')
          PROVE  DictLookupTyped(dict, specs'[i].name, specs'[i].ins).def = specs'[i].def
      BY <2>2, <3>1 DEF CacheInv, CacheSound
    <3>3. QED
      BY <1>1, <3>2 DEF CacheSound
  <2>5. QED
    BY <2>1, <2>3, <2>4
<1>6. CASE ~SignatureApplies(entry, caller.types)
  <2>1. phase' = "failed" /\ UNCHANGED frames
    BY <1>6 DEF FinishCall
  <2>2. CallsFit' /\ NothingYet'
    BY <1>1, <2>1 DEF CacheInv, CallsFit, CalledFor, NothingYet
  <2>3. QED
    BY <1>5, <2>2 DEF Cached
<1>7. CASE SignatureApplies(entry, caller.types)
  <2> DEFINE g == EmitCall(caller, entry, cid)
  <2>1. frames' = [PopFrame EXCEPT ![n - 1] = g] /\ UNCHANGED phase
    BY <1>7 DEF FinishCall
  <2>2. g.ins = caller.ins
    BY <1>2 DEF EmitCall, Emit, Frames
  <2> HIDE DEF g
  <2>3. CallsFit'
    BY <1>1, <2>1, <2>2, PopFits
  <2>4. NothingYet'
    BY <1>1, <2>1, CacheShape DEF NothingYet
  <2>5. QED
    BY <1>5, <2>3, <2>4 DEF Cached
<1>8. QED
  BY <1>6, <1>7

(* The row that is entered in the dictionary when a run has compiled its   *)
(* word leaves overload resolution as it was.                              *)
LEMMA FinishRunCached == ASSUME CacheInv, FinishRun PROVE Cached
<1> DEFINE cid == CidOf(blobs, CodeData(Top.blob))
<1>1. /\ dict \in Seq(Entries) /\ Len(dict) \in Nat
      /\ dict' = [dict EXCEPT ![target].cid = cid]
      /\ frames' = <<>> /\ UNCHANGED specs /\ phase' = "link"
  BY LenProperties DEF FinishRun, CacheInv, TypeInv, TypeOK
<1>2. TypeInv'
  BY FinishRunTyped DEF CacheInv
<1>3. dict' \in Seq(Entries)
  BY <1>2 DEF TypeInv, TypeOK
<1> HIDE DEF cid
<1>4. /\ Len(dict) = Len(dict')
      /\ \A i \in 1..Len(dict) : Alike(dict[i], dict'[i])
  <2>1. CASE target \in 1..Len(dict)
    <3> DEFINE e == [dict[target] EXCEPT !.cid = cid]
               T == Entries \cup {e}
    <3>1. dict[target] \in Entries
      BY <1>1, <2>1, ElementOfSeq
    <3>2. Alike(dict[target], e)
      BY <3>1 DEF Alike, Entries
    <3>3. dict \in Seq(T) /\ e \in T /\ dict' = [dict EXCEPT ![target] = e]
      BY <1>1
    <3> HIDE DEF e, T
    <3>4. /\ Len(dict') = Len(dict)
          /\ \A i \in 1..Len(dict) : dict'[i] = IF i = target THEN e ELSE dict[i]
      BY <2>1, <3>3, ExceptSeq
    <3>5. QED
      BY <3>2, <3>4 DEF Alike
  <2>2. CASE target \notin 1..Len(dict)
    <3>1. dict' = dict
      BY <1>1, <2>2
    <3>2. QED
      BY <3>1 DEF Alike
  <2>3. QED
    BY <2>1, <2>2
<1>5. \A name, ts : DictLookupTyped(dict, name, ts).def = DictLookupTyped(dict', name, ts).def
  BY <1>1, <1>3, <1>4, LookupElsewhere
<1>6. CacheSound'
  <2>1. ASSUME NEW i \in 1..Len(specs)
        PROVE  DictLookupTyped(dict', specs[i].name, specs[i].ins).def = specs[i].def
    <3>1. DictLookupTyped(dict, specs[i].name, specs[i].ins).def = specs[i].def
      BY DEF CacheInv, CacheSound
    <3>2. QED
      BY <1>5, <3>1
  <2>2. QED
    BY <1>1, <2>1 DEF CacheSound
<1>7. CallsFit' /\ NothingYet'
  BY <1>1, EmptySeq DEF CallsFit, NothingYet
<1>8. QED
  BY <1>6, <1>7 DEF Cached

LEMMA CompileStepCached == ASSUME CacheInv, CompileStep PROVE Cached
<1>1. CASE UnexpectedToken \/ ArrayError \/ WordError \/ ControlError
  BY <1>1, FailCached DEF UnexpectedToken, ArrayError, WordError, ControlError
<1>2. QED
  BY <1>1, TokenCached, RbracketCached, BeginCached, FinishMaterializeCached, CallMissCached,
     EnterQuotationCached, FinishQuotationCached, FinishCallCached, FinishRunCached
     DEF CompileStep

LEMMA ReadSourceCached == ASSUME CacheInv, ReadSource PROVE Cached
<1>1. CASE Fail
  BY <1>1, FailCached
<1>2. CASE CompileTypeSigDecl \/ SkipToken \/ BeginDefinition \/ CompileLparen
             \/ CompileRparen \/ CaptureToken \/ EndDefinition \/ EndOfFile
  <2>1. phase \in {"file", "def"} /\ UNCHANGED <<specs, frames>>
    BY <1>2 DEF CompileTypeSigDecl, SkipToken, BeginDefinition, CompileLparen, CompileRparen,
         CaptureToken, EndDefinition, AtEndOfDefinition, EndOfFile, At, compileVars
  <2>2. specs' = <<>> /\ frames' = <<>>
    BY <2>1 DEF CacheInv, NothingYet
  <2>3. QED
    BY <2>2, EmptySeq DEF Cached, CacheSound, CallsFit, NothingYet
<1>3. QED
  BY <1>1, <1>2 DEF ReadSource, SourceError, ParenError, TooManyDefinitions

LEMMA RunnerCached == ASSUME CacheInv, RunnerExecute \/ RunDone PROVE Cached
<1>1. CASE RunDone
  BY <1>1, NothingCached DEF RunDone, sourceVars, compileVars
<1>2. ASSUME NEW name \in Names, RunnerError(name)
      PROVE  Cached
  BY <1>2, FailCached DEF RunnerError
<1>3. ASSUME NEW name \in Names, RunnerLink(name)
      PROVE  Cached
  BY <1>3, NothingCached DEF RunnerLink, sourceVars
<1>4. ASSUME NEW name \in Names, RunnerCompile(name)
      PROVE  Cached
  <2>1. PICK f : frames' = <<f>> /\ UNCHANGED <<dict, specs>> /\ phase' = "compile"
    BY <1>4 DEF RunnerCompile, sourceVars
  <2>2. CallsFit' /\ NothingYet'
    BY <2>1 DEF CallsFit, NothingYet
  <2>3. QED
    BY <2>1, <2>2, SameCache DEF Cached
<1>5. QED
  BY <1>1, <1>2, <1>3, <1>4 DEF RunnerExecute

LEMMA RestartCached == ASSUME CacheInv, Restart PROVE Cached
<1>1. frames' = <<>> /\ specs' = <<>>
  BY DEF Restart
<1>2. QED
  BY <1>1, EmptySeq DEF Cached, CacheSound, CallsFit, NothingYet

LEMMA CacheNext == CacheInv /\ [Next]_vars => CacheInv'
<1> SUFFICES ASSUME CacheInv, [Next]_vars PROVE CacheInv'
  OBVIOUS
<1>1. TypeInv'
  BY NextTyped DEF CacheInv
<1>2. CASE UNCHANGED vars
  <2>1. UNCHANGED <<dict, specs, frames, phase>>
    BY <1>2 DEF vars
  <2>2. Cached
    BY <2>1, NothingCached
  <2>3. QED
    BY <1>1, <2>2 DEF Cached, CacheInv
<1>3. CASE Next
  <2>1. Cached
    BY <1>3, ReadSourceCached, CompileStepCached, RunnerCached, RestartCached DEF Next
  <2>2. QED
    BY <1>1, <2>1 DEF Cached, CacheInv
<1>4. QED
  BY <1>2, <1>3

LEMMA CacheInit == Init => CacheInv
<1> SUFFICES ASSUME Init PROVE CacheInv
  OBVIOUS
<1>1. TypeInv /\ frames = <<>> /\ specs = <<>>
  BY InitTyped DEF Init
<1>2. QED
  BY <1>1, EmptySeq DEF CacheInv, CacheSound, CallsFit, NothingYet

(* For every source, with any number of overloads of one name: what the    *)
(* cache answers for a name and some types is a version of the definition  *)
(* that overload resolution selects for them.                              *)
THEOREM CacheIsSound == Spec => []CacheSound
<1>1. Init => CacheInv
  BY CacheInit
<1>2. CacheInv /\ [Next]_vars => CacheInv'
  BY CacheNext
<1>3. CacheInv => CacheSound
  BY DEF CacheInv
<1>4. QED
  BY <1>1, <1>2, <1>3, PTL DEF Spec


-----------------------------------------------------------------------------
(* Sequences of cells and items that are in step.                          *)

LEMMA InStepConcat ==
  ASSUME NEW c1 \in Seq(Cells), NEW c2 \in Seq(Cells),
         NEW i1 \in Seq(Items), NEW i2 \in Seq(Items),
         InStep(c1, i1), InStep(c2, i2)
  PROVE  InStep(c1 \o c2, i1 \o i2)
<1>1. /\ Len(c1) = Len(i1) /\ Len(c2) = Len(i2) /\ Len(i1) \in Nat /\ Len(i2) \in Nat
  BY LenProperties DEF InStep
<1> DEFINE cs == c1 \o c2
           is == i1 \o i2
<1>2. /\ Len(cs) = Len(i1) + Len(i2) /\ Len(is) = Len(i1) + Len(i2)
      /\ \A i \in 1..Len(i1) + Len(i2) :
           /\ cs[i] = IF i <= Len(i1) THEN c1[i] ELSE c2[i - Len(i1)]
           /\ is[i] = IF i <= Len(i1) THEN i1[i] ELSE i2[i - Len(i1)]
  <2>1. /\ Len(cs) = Len(c1) + Len(c2)
        /\ \A i \in 1..Len(c1) + Len(c2) : cs[i] = IF i <= Len(c1) THEN c1[i] ELSE c2[i - Len(c1)]
    BY ConcatProperties
  <2>2. /\ Len(is) = Len(i1) + Len(i2)
        /\ \A i \in 1..Len(i1) + Len(i2) : is[i] = IF i <= Len(i1) THEN i1[i] ELSE i2[i - Len(i1)]
    BY ConcatProperties
  <2> HIDE DEF cs, is
  <2>3. QED
    BY <1>1, <2>1, <2>2
<1> HIDE DEF cs, is
<1>3. ASSUME NEW i \in 1..Len(i1) + Len(i2), is[i].tag = "lit"
      PROVE  cs[i] = Lit(is[i].n)
  <2>1. CASE i <= Len(i1)
    BY <1>1, <1>2, <1>3, <2>1 DEF InStep
  <2>2. CASE ~(i <= Len(i1))
    <3>1. i - Len(i1) \in 1..Len(i2)
      BY <1>1, <2>2
    <3>2. QED
      BY <1>2, <1>3, <2>2, <3>1 DEF InStep
  <2>3. QED
    BY <2>1, <2>2
<1>4. QED
  BY <1>2, <1>3 DEF InStep, cs, is

(* One cell for one item that is no inline literal, and one pair of equal  *)
(* literals.                                                               *)
LEMMA InStepOne ==
  ASSUME NEW cell, NEW item, item.tag # "lit"
  PROVE  InStep(<<cell>>, <<item>>)
BY DEF InStep

LEMMA InStepNone == InStep(<<>>, <<>>)
BY DEF InStep

LEMMA InStepLiteral ==
  ASSUME NEW n
  PROVE  InStep(<<Lit(n)>>, <<InlineLit(n)>>)
BY DEF InStep, InlineLit

LEMMA InStepPair ==
  ASSUME NEW cell, NEW item, item.tag # "lit", NEW n
  PROVE  InStep(<<cell, Lit(n)>>, <<item, InlineLit(n)>>)
BY DEF InStep, InlineLit

(* The cells of a quotation end in an EXIT that its items do not have.     *)
LEMMA BodyOf ==
  ASSUME NEW q \in Compiled, q.cells # <<>>
  PROVE  /\ Body(q) \in Seq(Cells) /\ Len(Body(q)) = Len(q.cells) - 1
         /\ Len(q.cells) - 1 \in Nat
         /\ \A i \in 1..Len(q.cells) - 1 : Body(q)[i] = q.cells[i]
<1> DEFINE n == Len(q.cells)
<1>1. q.cells \in Seq(Cells) /\ n \in Nat /\ n # 0
  BY EmptySeq, LenProperties DEF Compiled
<1>2. n - 1 \in Int /\ 1 \in Int /\ \A i \in 1..n - 1 : q.cells[i] \in Cells
  BY <1>1, ElementOfSeq
<1>3. /\ SubSeq(q.cells, 1, n - 1) \in Seq(Cells)
      /\ Len(SubSeq(q.cells, 1, n - 1)) = IF 1 <= n - 1 THEN (n - 1) - 1 + 1 ELSE 0
      /\ \A i \in 1..(n - 1) - 1 + 1 : SubSeq(q.cells, 1, n - 1)[i] = q.cells[1 + i - 1]
  BY <1>2, SubSeqProperties
<1>4. Body(q) = SubSeq(q.cells, 1, n - 1)
  BY DEF Body
<1> HIDE DEF n
<1>5. Len(Body(q)) = n - 1 /\ \A i \in 1..n - 1 : Body(q)[i] = q.cells[i]
  BY <1>1, <1>3, <1>4
<1>6. QED
  BY <1>1, <1>3, <1>4, <1>5 DEF n

LEMMA BodyOfFinished ==
  ASSUME NEW cells \in Seq(Cells), NEW blob \in Seq(Items), NEW outs \in Seq(Types),
         InStep(cells, blob)
  PROVE  LET q == [cells |-> Append(cells, Exit), blob |-> blob, outs |-> outs]
         IN  q.cells # <<>> /\ InStep(Body(q), q.blob)
<1> DEFINE q == [cells |-> Append(cells, Exit), blob |-> blob, outs |-> outs]
<1>1. Exit \in Cells
  BY CellsTyped, SpellingAssumption
<1>2. /\ Append(cells, Exit) \in Seq(Cells) /\ Append(cells, Exit) # <<>>
      /\ Len(Append(cells, Exit)) = Len(cells) + 1 /\ Len(cells) \in Nat
      /\ \A i \in 1..Len(cells) : Append(cells, Exit)[i] = cells[i]
  BY <1>1, AppendProperties, LenProperties
<1>3. q \in Compiled /\ q.cells = Append(cells, Exit) /\ q.blob = blob
  BY <1>2 DEF Compiled
<1> HIDE DEF q
<1>4. /\ Len(Body(q)) = Len(q.cells) - 1
      /\ \A i \in 1..Len(q.cells) - 1 : Body(q)[i] = q.cells[i]
  BY <1>2, <1>3, BodyOf
<1>5. Len(Body(q)) = Len(cells) /\ \A i \in 1..Len(cells) : Body(q)[i] = cells[i]
  BY <1>2, <1>3, <1>4
<1>6. InStep(Body(q), blob)
  BY <1>5 DEF InStep
<1>7. QED
  BY <1>2, <1>3, <1>6 DEF q

-----------------------------------------------------------------------------
(* Branches.  A segment that lands by itself lands wherever it is put,     *)
(* unless the item in front of it is a branch.                             *)

LEMMA SegmentLands ==
  ASSUME NEW code, NEW b, NEW p \in Nat, Len(code) \in Nat, Len(b) \in Nat,
         \A j \in 1..Len(b) : b[j] \in Items,
         p + Len(b) <= Len(code), \A j \in 1..Len(b) : code[p + j] = b[j],
         Lands(b), p > 0 => ~IsBranch(code[p]),
         NEW j \in 1..Len(b)
  PROVE  LandsAt(code, p + j)
<1> SUFFICES ASSUME IsBranch(code[p + j])
             PROVE  /\ p + j < Len(code)
                    /\ code[p + j + 1].tag = "lit"
                    /\ LET to == p + j + 2 + code[p + j + 1].n IN
                       /\ to \in 1..Len(code) + 1
                       /\ to > 1 => ~IsBranch(code[to - 1])
  BY DEF LandsAt
<1>1. IsBranch(b[j])
  OBVIOUS
<1>2. /\ j < Len(b) /\ b[j + 1].tag = "lit"
      /\ j + 2 + b[j + 1].n \in 1..Len(b) + 1
      /\ j + 2 + b[j + 1].n > 1 => ~IsBranch(b[(j + 2 + b[j + 1].n) - 1])
  BY <1>1 DEF Lands, LandsAt
<1>3. code[p + j + 1] = b[j + 1]
  <2>1. j < Len(b) /\ j \in Nat
    BY <1>2
  <2>2. j + 1 \in 1..Len(b) /\ p + j + 1 = p + (j + 1)
    BY <2>1
  <2>3. QED
    BY <2>2
<1>4. PICK n \in Int : n = b[j + 1].n
  <2>1. j + 1 \in 1..Len(b)
    BY <1>2
  <2>2. QED
    BY <2>1, \A k \in 1..Len(b) : b[k] \in Items DEF Items
<1> DEFINE at == j + 2 + n
           to == p + j + 2 + code[p + j + 1].n
<1>5. to = p + at /\ at \in 1..Len(b) + 1 /\ (at > 1 => ~IsBranch(b[at - 1]))
  BY <1>2, <1>3, <1>4
<1> HIDE DEF at, to
<1>6. to \in 1..Len(code) + 1
  BY <1>5
<1>7. to > 1 => ~IsBranch(code[to - 1])
  <2>1. CASE at = 1
    BY <1>5, <2>1
  <2>2. CASE at # 1
    <3>1. at - 1 \in 1..Len(b) /\ to - 1 = p + (at - 1) /\ at > 1
      BY <1>5, <2>2
    <3>2. code[p + (at - 1)] = b[at - 1]
      BY <3>1
    <3>3. QED
      BY <1>5, <3>1, <3>2
  <2>3. QED
    BY <2>1, <2>2
<1>8. QED
  BY <1>2, <1>3, <1>6, <1>7 DEF to

(* The last item of such a segment is no branch.                           *)
LEMMA LastLands ==
  ASSUME NEW b, Len(b) \in Nat, Lands(b), Len(b) > 0
  PROVE  ~IsBranch(b[Len(b)])
BY DEF Lands, LandsAt

LEMMA LandsConcat ==
  ASSUME NEW a \in Seq(Items), NEW b \in Seq(Items), Lands(a), Lands(b)
  PROVE  Lands(a \o b)
<1> DEFINE code == a \o b
<1>1. /\ Len(a) \in Nat /\ Len(b) \in Nat
      /\ \A i \in 1..Len(a) : a[i] \in Items
      /\ \A i \in 1..Len(b) : b[i] \in Items
  BY LenProperties, ElementOfSeq
<1>2. /\ Len(code) = Len(a) + Len(b)
      /\ \A i \in 1..Len(a) + Len(b) : code[i] = IF i <= Len(a) THEN a[i] ELSE b[i - Len(a)]
  BY ConcatProperties
<1> HIDE DEF code
<1>3. ASSUME NEW i \in 1..Len(a)
      PROVE  LandsAt(code, i)
  <2>1. PICK p \in Nat : p = 0
    OBVIOUS
  <2>2. \A j \in 1..Len(a) : code[p + j] = a[j]
    BY <1>1, <1>2, <2>1
  <2>3. p + Len(a) <= Len(code) /\ Len(code) \in Nat /\ ~(p > 0)
    BY <1>1, <1>2, <2>1
  <2>4. LandsAt(code, p + i)
    BY <1>1, <2>2, <2>3, SegmentLands
  <2>5. QED
    BY <2>1, <2>4
<1>4. ASSUME NEW i \in 1..Len(b)
      PROVE  LandsAt(code, Len(a) + i)
  <2>1. PICK p \in Nat : p = Len(a)
    BY <1>1
  <2>2. \A j \in 1..Len(b) : code[p + j] = b[j]
    BY <1>1, <1>2, <2>1
  <2>3. p > 0 => ~IsBranch(code[p])
    BY <1>1, <1>2, <2>1, LastLands
  <2>4. p + Len(b) <= Len(code) /\ Len(code) \in Nat
    BY <1>1, <1>2, <2>1
  <2>5. LandsAt(code, p + i)
    BY <1>1, <2>2, <2>3, <2>4, SegmentLands
  <2>6. QED
    BY <2>1, <2>5
<1>5. ASSUME NEW i \in 1..Len(code)
      PROVE  LandsAt(code, i)
  <2>1. CASE i <= Len(a)
    BY <1>1, <1>3, <2>1
  <2>2. CASE ~(i <= Len(a))
    <3>1. i - Len(a) \in 1..Len(b) /\ i = Len(a) + (i - Len(a))
      BY <1>1, <1>2, <2>2
    <3>2. LandsAt(code, Len(a) + (i - Len(a)))
      BY <1>4, <3>1
    <3>3. QED
      BY <3>1, <3>2
  <2>3. QED
    BY <2>1, <2>2
<1>6. QED
  BY <1>5 DEF Lands, code

LEMMA LandsNone == Lands(<<>>)
BY DEF Lands

LEMMA LandsOne ==
  ASSUME NEW item, ~IsBranch(item)
  PROVE  Lands(<<item>>)
BY DEF Lands, LandsAt

-----------------------------------------------------------------------------
(* A primitive that is looked up is what its name says, or none: the       *)
(* entries of definitions have no primitive.                               *)

NoUserPrimitives == \A i \in 1..Len(dict) : dict[i].prim = NoName

LEMMA BuiltinPrimitive == \A b \in BuiltinChains : b[1].prim \in {NoName, b[1].name}
<1>1. \A e \in RegisterPrimitives : e.prim = e.name
  BY DEF RegisterPrimitives, Entry
<1>2. \A e \in ImmediateEntries : e.prim \in {NoName, e.name}
  BY DEF ImmediateEntries, Entry
<1>3. QED
  BY <1>1, <1>2 DEF BuiltinChains

LEMMA CandidatePrimitive ==
  ASSUME NoUserPrimitives, NEW name, NEW c \in Candidates(dict, name)
  PROVE  c[1].prim \in {NoName, name}
<1>1. CASE \E i \in {j \in 1..Len(dict) : dict[j].name = name} : c = <<dict[i], i>>
  BY <1>1 DEF NoUserPrimitives
<1>2. CASE \E b \in {x \in BuiltinChains : x[1].name = name} : c = <<b[1], Len(dict) + b[2]>>
  BY <1>2, BuiltinPrimitive
<1>3. QED
  BY <1>1, <1>2 DEF Candidates

LEMMA LookupPrimitive ==
  ASSUME NoUserPrimitives, NEW name, NEW ts
  PROVE  /\ DictLookup(dict, name).prim \in {NoName, name}
         /\ DictLookupTyped(dict, name, ts).prim \in {NoName, name}
<1>1. NoEntry.prim = NoName
  BY DEF NoEntry, Entry
<1>2. DictLookup(dict, name).prim \in {NoName, name}
  <2> DEFINE C    == Candidates(dict, name)
             best == {c \in C : \A d \in C : c[2] <= d[2]}
  <2>1. CASE best = {}
    BY <1>1, <2>1 DEF DictLookup, EntryOf
  <2>2. CASE best # {}
    <3>1. PICK c \in C : DictLookup(dict, name) = c[1]
      BY <2>2 DEF DictLookup, EntryOf
    <3>2. QED
      BY <3>1, CandidatePrimitive
  <2>3. QED
    BY <2>1, <2>2
<1>3. DictLookupTyped(dict, name, ts).prim \in {NoName, name}
  <2> DEFINE C    == {c \in Candidates(dict, name) : MatchScore(c[1], ts) >= 0}
             best == {c \in C : \A d \in C : Beats(c, d, ts)}
  <2>1. CASE best = {}
    BY <1>1, <2>1 DEF DictLookupTyped, EntryOf
  <2>2. CASE best # {}
    <3>1. PICK c \in C : DictLookupTyped(dict, name, ts) = c[1]
      BY <2>2 DEF DictLookupTyped, EntryOf
    <3>2. QED
      BY <3>1, CandidatePrimitive
  <2>3. QED
    BY <2>1, <2>2
<1>4. QED
  BY <1>2, <1>3

LEMMA NoBranch ==
  ASSUME NEW p, NEW name, p \in {NoName, name}, name \notin BranchNames
  PROVE  ~IsBranch(Prim(p))
BY DEF IsBranch, BranchNames, Prim, NoName

LEMMA NoBranchOf ==
  ASSUME NoUserPrimitives, NEW name, name \notin BranchNames
  PROVE  ~IsBranch(PrimOf(name))
BY LookupPrimitive, NoBranch DEF PrimOf

LEMMA NoBranchLiteral == \A n : ~IsBranch(InlineLit(n)) /\ InlineLit(n).tag = "lit" /\ InlineLit(n).n = n
BY DEF IsBranch, InlineLit

LEMMA NoBranchRef == \A kind, cid : ~IsBranch(Ref(kind, cid)) /\ Ref(kind, cid).tag = "ref"
BY DEF IsBranch, Ref

LEMMA PrimTag == \A name : PrimOf(name).tag = "prim"
BY DEF PrimOf, Prim

-----------------------------------------------------------------------------
(* if, times and until.  A compiled quotation is good if what is inlined   *)
(* of it is in step and lands by itself.                                   *)

Landing(code) == NoRawBranches => Lands(code)

GoodCode(q) == q.cells # <<>> /\ InStep(Body(q), q.blob) /\ Landing(q.blob)

LEMMA GoodCodeLength ==
  ASSUME NEW q \in Compiled, GoodCode(q)
  PROVE  /\ Len(q.cells) - 1 = Len(q.blob) /\ Len(q.blob) \in Nat /\ q.blob \in Seq(Items)
         /\ Body(q) \in Seq(Cells) /\ Len(Body(q)) = Len(q.blob)
<1>1. q.blob \in Seq(Items) /\ Len(q.blob) \in Nat
  BY LenProperties DEF Compiled
<1>2. Body(q) \in Seq(Cells) /\ Len(Body(q)) = Len(q.cells) - 1
  BY BodyOf DEF GoodCode
<1>3. Len(Body(q)) = Len(q.blob)
  BY DEF GoodCode, InStep
<1>4. QED
  BY <1>1, <1>2, <1>3

(* The offsets do not depend on where the code is put.                     *)
LEMMA Offsets ==
  \A pos, m, k \in Int :
    /\ (((pos + 1) + 1 + m + 1) + 1) - (pos + 1) - 1 = m + 2
    /\ (((((pos + 1) + 1 + m + 1) + 1) + k)) - ((pos + 1) + 1 + m + 1) - 1 = k
    /\ ((((pos + 1) + 2) + 1 + 4 + m + 1) + 1) - ((pos + 1) + 2) - 1 = m + 6
    /\ (pos + 1) - (((pos + 1) + 2) + 1 + 4 + m + 1) - 1 = -(7 + m + 2)
    /\ pos - (pos + m + k + 1) - 1 = -(m + k + 1 + 1)
OBVIOUS

LEMMA IfInStep ==
  ASSUME dict \in Seq(Entries), NEW pos \in Nat, NEW t \in Compiled, NEW f \in Compiled,
         GoodCode(t), GoodCode(f)
  PROVE  InStep(IfCells(pos, t, f), IfItems(t, f))
<1> DEFINE m  == Len(t.blob)
           k  == Len(f.blob)
           c1 == <<XtOf("0branch"), Lit(m + 2)>>
           i1 == <<PrimOf("0branch"), InlineLit(m + 2)>>
           c2 == <<XtOf("branch"), Lit(k)>>
           i2 == <<PrimOf("branch"), InlineLit(k)>>
<1>1. /\ m \in Nat /\ k \in Nat /\ Len(t.cells) - 1 = m /\ Len(f.cells) - 1 = k
      /\ Len(Body(t)) = m /\ Len(Body(f)) = k
      /\ Body(t) \in Seq(Cells) /\ Body(f) \in Seq(Cells)
      /\ t.blob \in Seq(Items) /\ f.blob \in Seq(Items)
  BY GoodCodeLength
<1>2. /\ XtOf("0branch") \in Cells /\ XtOf("branch") \in Cells
      /\ PrimOf("0branch") \in Items /\ PrimOf("branch") \in Items
  BY LookupEmitsTyped
<1>3. /\ Lit(m + 2) \in Cells /\ Lit(k) \in Cells
      /\ InlineLit(m + 2) \in Items /\ InlineLit(k) \in Items
  BY <1>1, CellsTyped, ItemsTyped, SpellingAssumption
<1>4. c1 \in Seq(Cells) /\ c2 \in Seq(Cells) /\ i1 \in Seq(Items) /\ i2 \in Seq(Items)
  BY <1>2, <1>3
<1>5. InStep(c1, i1) /\ InStep(c2, i2)
  BY PrimTag, InStepPair
<1>6. InStep(Body(t), t.blob) /\ InStep(Body(f), f.blob)
  BY DEF GoodCode
<1>7. IfItems(t, f) = i1 \o t.blob \o i2 \o f.blob
  <2>1. Len(t.cells) - 1 + 2 = m + 2 /\ Len(f.cells) - 1 = k
    BY <1>1
  <2>2. QED
    BY <2>1 DEF IfItems
<1>8. IfCells(pos, t, f) = c1 \o Body(t) \o c2 \o Body(f)
  <2>1. IfCells(pos, t, f) =
          <<XtOf("0branch"),
            Lit((((pos + 1) + 1 + Len(Body(t)) + 1) + 1) - (pos + 1) - 1)>> \o Body(t)
          \o <<XtOf("branch"),
               Lit((((((pos + 1) + 1 + Len(Body(t)) + 1) + 1) + Len(Body(f))))
                   - ((pos + 1) + 1 + Len(Body(t)) + 1) - 1)>> \o Body(f)
    BY DEF IfCells
  <2>2. /\ (((pos + 1) + 1 + m + 1) + 1) - (pos + 1) - 1 = m + 2
        /\ (((((pos + 1) + 1 + m + 1) + 1) + k)) - ((pos + 1) + 1 + m + 1) - 1 = k
    <3>1. pos \in Int /\ m \in Int /\ k \in Int
      BY <1>1
    <3> HIDE DEF m, k
    <3>2. QED
      BY <3>1, Offsets
  <2>3. Len(Body(t)) = m /\ Len(Body(f)) = k
    BY <1>1
  <2> HIDE DEF m, k
  <2>4. QED
    BY <2>1, <2>2, <2>3
<1> HIDE DEF c1, i1, c2, i2
<1>9. /\ InStep(c1 \o Body(t), i1 \o t.blob)
      /\ c1 \o Body(t) \in Seq(Cells) /\ i1 \o t.blob \in Seq(Items)
  BY <1>1, <1>4, <1>5, <1>6, InStepConcat, ConcatProperties
<1>10. /\ InStep(c1 \o Body(t) \o c2, i1 \o t.blob \o i2)
       /\ c1 \o Body(t) \o c2 \in Seq(Cells) /\ i1 \o t.blob \o i2 \in Seq(Items)
  BY <1>4, <1>5, <1>9, InStepConcat, ConcatProperties
<1>11. InStep(c1 \o Body(t) \o c2 \o Body(f), i1 \o t.blob \o i2 \o f.blob)
  BY <1>1, <1>6, <1>10, InStepConcat
<1>12. QED
  BY <1>7, <1>8, <1>11

LEMMA TimesInStep ==
  ASSUME dict \in Seq(Entries), NEW pos \in Nat, NEW b \in Compiled, GoodCode(b)
  PROVE  InStep(TimesCells(pos, b), TimesItems(b))
<1> DEFINE m  == Len(b.blob)
           c1 == <<XtOf(">r"), XtOf("r@"), XtOf("0branch"), Lit(m + 6),
                   XtOf("r>"), Lit(1), XtOf("-"), XtOf(">r")>>
           i1 == <<PrimOf(">r"), PrimOf("r@"), PrimOf("0branch"), InlineLit(m + 6),
                   PrimOf("r>"), InlineLit(1), PrimOf("-"), PrimOf(">r")>>
           c2 == <<XtOf("branch"), Lit(-(7 + m + 2)), XtOf("rdrop")>>
           i2 == <<PrimOf("branch"), InlineLit(-(7 + m + 2)), PrimOf("rdrop")>>
<1>1. /\ m \in Nat /\ Len(b.cells) - 1 = m /\ Len(Body(b)) = m
      /\ Body(b) \in Seq(Cells) /\ b.blob \in Seq(Items)
  BY GoodCodeLength
<1>2. \A name : XtOf(name) \in Cells /\ PrimOf(name) \in Items
  BY LookupEmitsTyped
<1>3. /\ m + 6 \in Int /\ 1 \in Int /\ -(7 + m + 2) \in Int
  BY <1>1
<1>4. /\ Lit(m + 6) \in Cells /\ Lit(1) \in Cells /\ Lit(-(7 + m + 2)) \in Cells
      /\ InlineLit(m + 6) \in Items /\ InlineLit(1) \in Items /\ InlineLit(-(7 + m + 2)) \in Items
  BY <1>3, CellsTyped, ItemsTyped, SpellingAssumption
<1>5. c1 \in Seq(Cells) /\ c2 \in Seq(Cells) /\ i1 \in Seq(Items) /\ i2 \in Seq(Items)
  BY <1>2, <1>4
<1>6. InStep(c1, i1) /\ InStep(c2, i2)
  BY PrimTag, NoBranchLiteral DEF InStep
<1>7. InStep(Body(b), b.blob)
  BY DEF GoodCode
<1>8. TimesItems(b) = i1 \o b.blob \o i2
  <2>1. Len(b.cells) - 1 + 6 = m + 6 /\ -(7 + (Len(b.cells) - 1) + 2) = -(7 + m + 2)
    BY <1>1
  <2>2. QED
    BY <2>1 DEF TimesItems
<1>9. TimesCells(pos, b) = c1 \o Body(b) \o c2
  <2>1. TimesCells(pos, b) =
          <<XtOf(">r"), XtOf("r@"), XtOf("0branch"),
            Lit(((((pos + 1) + 2) + 1 + 4 + Len(Body(b)) + 1) + 1) - ((pos + 1) + 2) - 1),
            XtOf("r>"), Lit(1), XtOf("-"), XtOf(">r")>>
          \o Body(b)
          \o <<XtOf("branch"),
               Lit((pos + 1) - (((pos + 1) + 2) + 1 + 4 + Len(Body(b)) + 1) - 1),
               XtOf("rdrop")>>
    BY DEF TimesCells
  <2>2. /\ ((((pos + 1) + 2) + 1 + 4 + m + 1) + 1) - ((pos + 1) + 2) - 1 = m + 6
        /\ (pos + 1) - (((pos + 1) + 2) + 1 + 4 + m + 1) - 1 = -(7 + m + 2)
    <3>1. pos \in Int /\ m \in Int
      BY <1>1
    <3> HIDE DEF m
    <3>2. QED
      BY <3>1, 0 \in Int, Offsets
  <2>3. Len(Body(b)) = m
    BY <1>1
  <2> HIDE DEF m
  <2>4. QED
    BY <2>1, <2>2, <2>3
<1> HIDE DEF c1, i1, c2, i2
<1>10. /\ InStep(c1 \o Body(b), i1 \o b.blob)
       /\ c1 \o Body(b) \in Seq(Cells) /\ i1 \o b.blob \in Seq(Items)
  BY <1>1, <1>5, <1>6, <1>7, InStepConcat, ConcatProperties
<1>11. InStep(c1 \o Body(b) \o c2, i1 \o b.blob \o i2)
  BY <1>5, <1>6, <1>10, InStepConcat
<1>12. QED
  BY <1>8, <1>9, <1>11

LEMMA UntilInStep ==
  ASSUME dict \in Seq(Entries), NEW pos \in Nat, NEW c \in Compiled, NEW b \in Compiled,
         GoodCode(c), GoodCode(b)
  PROVE  InStep(UntilCells(pos, c, b), UntilItems(c, b))
<1> DEFINE m  == Len(b.blob)
           k  == Len(c.blob)
           n  == -(m + k + 1 + 1)
           c2 == <<XtOf("0branch"), Lit(n)>>
           i2 == <<PrimOf("0branch"), InlineLit(n)>>
<1>1. /\ m \in Nat /\ k \in Nat /\ Len(b.cells) - 1 = m /\ Len(c.cells) - 1 = k
      /\ Len(Body(b)) = m /\ Len(Body(c)) = k
      /\ Body(b) \in Seq(Cells) /\ Body(c) \in Seq(Cells)
      /\ b.blob \in Seq(Items) /\ c.blob \in Seq(Items)
  BY GoodCodeLength
<1>2. XtOf("0branch") \in Cells /\ PrimOf("0branch") \in Items /\ n \in Int
  BY <1>1, LookupEmitsTyped
<1>3. Lit(n) \in Cells /\ InlineLit(n) \in Items
  <2>1. n \in Int
    BY <1>2
  <2> HIDE DEF n
  <2>2. QED
    BY <2>1, CellsTyped, ItemsTyped, SpellingAssumption
<1>4. c2 \in Seq(Cells) /\ i2 \in Seq(Items)
  <2> HIDE DEF n
  <2>1. QED
    BY <1>2, <1>3
<1>5. InStep(c2, i2)
  BY PrimTag, InStepPair
<1>6. InStep(Body(b), b.blob) /\ InStep(Body(c), c.blob)
  BY DEF GoodCode
<1>7. UntilItems(c, b) = b.blob \o c.blob \o i2
  <2>1. -((Len(b.cells) - 1) + (Len(c.cells) - 1) + 1 + 1) = n
    BY <1>1
  <2>2. QED
    BY <2>1 DEF UntilItems
<1>8. UntilCells(pos, c, b) = Body(b) \o Body(c) \o c2
  <2>1. UntilCells(pos, c, b) =
          Body(b) \o Body(c)
          \o <<XtOf("0branch"), Lit(pos - (pos + Len(Body(b)) + Len(Body(c)) + 1) - 1)>>
    BY DEF UntilCells
  <2>2. pos - (pos + m + k + 1) - 1 = n
    <3>1. pos \in Int /\ m \in Int /\ k \in Int
      BY <1>1
    <3> HIDE DEF m, k
    <3>2. QED
      BY <3>1, Offsets
  <2>3. Len(Body(b)) = m /\ Len(Body(c)) = k
    BY <1>1
  <2> HIDE DEF m, k, n
  <2>4. QED
    BY <2>1, <2>2, <2>3
<1> HIDE DEF c2, i2
<1>9. /\ InStep(Body(b) \o Body(c), b.blob \o c.blob)
      /\ Body(b) \o Body(c) \in Seq(Cells) /\ b.blob \o c.blob \in Seq(Items)
  BY <1>1, <1>6, InStepConcat, ConcatProperties
<1>10. InStep(Body(b) \o Body(c) \o c2, b.blob \o c.blob \o i2)
  BY <1>4, <1>5, <1>9, InStepConcat
<1>11. QED
  BY <1>7, <1>8, <1>10
(* The place of every item in three and in four sequences put together.    *)
ThreeJoined(code, a, b, c) ==
  /\ Len(code) = Len(a) + Len(b) + Len(c)
  /\ \A j \in 1..Len(a) : code[j] = a[j]
  /\ \A j \in 1..Len(b) : code[Len(a) + j] = b[j]
  /\ \A j \in 1..Len(c) : code[Len(a) + Len(b) + j] = c[j]

FourJoined(code, a, b, c, d) ==
  /\ Len(code) = Len(a) + Len(b) + Len(c) + Len(d)
  /\ \A j \in 1..Len(a) : code[j] = a[j]
  /\ \A j \in 1..Len(b) : code[Len(a) + j] = b[j]
  /\ \A j \in 1..Len(c) : code[Len(a) + Len(b) + j] = c[j]
  /\ \A j \in 1..Len(d) : code[Len(a) + Len(b) + Len(c) + j] = d[j]

LEMMA JoinThree ==
  ASSUME NEW a \in Seq(Items), NEW b \in Seq(Items), NEW c \in Seq(Items)
  PROVE  a \o b \o c \in Seq(Items) /\ ThreeJoined(a \o b \o c, a, b, c)
<1> DEFINE ab == a \o b
           code == ab \o c
<1>1. Len(a) \in Nat /\ Len(b) \in Nat /\ Len(c) \in Nat
  BY LenProperties
<1>2. /\ ab \in Seq(Items) /\ Len(ab) = Len(a) + Len(b)
      /\ \A i \in 1..Len(a) + Len(b) : ab[i] = IF i <= Len(a) THEN a[i] ELSE b[i - Len(a)]
  BY ConcatProperties
<1> HIDE DEF ab
<1>3. /\ code \in Seq(Items) /\ Len(code) = Len(ab) + Len(c)
      /\ \A i \in 1..Len(ab) + Len(c) : code[i] = IF i <= Len(ab) THEN ab[i] ELSE c[i - Len(ab)]
  <2>1. ab \in Seq(Items)
    BY <1>2
  <2>2. QED
    BY <2>1, ConcatProperties
<1> HIDE DEF code
<1>4. Len(code) = Len(a) + Len(b) + Len(c)
  BY <1>2, <1>3
<1>5. ASSUME NEW j \in 1..Len(a)
      PROVE  code[j] = a[j]
  BY <1>1, <1>2, <1>3
<1>6. ASSUME NEW j \in 1..Len(b)
      PROVE  code[Len(a) + j] = b[j]
  <2>1. Len(a) + j \in 1..Len(ab) /\ ~(Len(a) + j <= Len(a)) /\ (Len(a) + j) - Len(a) = j
    BY <1>1, <1>2
  <2>2. code[Len(a) + j] = ab[Len(a) + j]
    BY <1>1, <1>2, <1>3, <2>1
  <2>3. ab[Len(a) + j] = b[(Len(a) + j) - Len(a)]
    BY <1>2, <2>1
  <2>4. QED
    BY <2>1, <2>2, <2>3
<1>7. ASSUME NEW j \in 1..Len(c)
      PROVE  code[Len(a) + Len(b) + j] = c[j]
  BY <1>1, <1>2, <1>3
<1>8. ThreeJoined(code, a, b, c)
  BY <1>4, <1>5, <1>6, <1>7 DEF ThreeJoined
<1>9. QED
  BY <1>3, <1>8 DEF code, ab

LEMMA JoinFour ==
  ASSUME NEW a \in Seq(Items), NEW b \in Seq(Items), NEW c \in Seq(Items), NEW d \in Seq(Items)
  PROVE  FourJoined(a \o b \o c \o d, a, b, c, d)
<1> DEFINE abc == a \o b \o c
           code == abc \o d
<1>1. Len(a) \in Nat /\ Len(b) \in Nat /\ Len(c) \in Nat /\ Len(d) \in Nat
  BY LenProperties
<1>2. /\ abc \in Seq(Items) /\ Len(abc) = Len(a) + Len(b) + Len(c)
      /\ \A j \in 1..Len(a) : abc[j] = a[j]
      /\ \A j \in 1..Len(b) : abc[Len(a) + j] = b[j]
      /\ \A j \in 1..Len(c) : abc[Len(a) + Len(b) + j] = c[j]
  <2>1. abc \in Seq(Items) /\ ThreeJoined(abc, a, b, c)
    BY JoinThree
  <2> HIDE DEF abc
  <2>2. QED
    BY <2>1 DEF ThreeJoined
<1> HIDE DEF abc
<1>3. /\ Len(code) = Len(abc) + Len(d)
      /\ \A i \in 1..Len(abc) + Len(d) :
           code[i] = IF i <= Len(abc) THEN abc[i] ELSE d[i - Len(abc)]
  BY <1>2, ConcatProperties
<1> HIDE DEF code
<1>4. /\ \A i \in 1..Len(a) + Len(b) + Len(c) : code[i] = abc[i]
      /\ \A j \in 1..Len(d) : code[Len(a) + Len(b) + Len(c) + j] = d[j]
  <2>1. PICK n \in Nat : n = Len(abc)
    BY <1>1, <1>2
  <2>2. ASSUME NEW i \in 1..n
        PROVE  code[i] = abc[i]
    BY <1>1, <1>3, <2>1
  <2>3. ASSUME NEW j \in 1..Len(d)
        PROVE  code[n + j] = d[j]
    <3>1. n + j \in 1..n + Len(d) /\ ~(n + j <= n) /\ (n + j) - n = j
      BY <1>1
    <3>2. QED
      BY <1>3, <2>1, <3>1
  <2>4. n = Len(a) + Len(b) + Len(c)
    BY <1>2, <2>1
  <2>5. QED
    BY <2>2, <2>3, <2>4
<1>5. \A j \in 1..Len(a) : code[j] = a[j]
  BY <1>1, <1>2, <1>4
<1>6. ASSUME NEW j \in 1..Len(b)
      PROVE  code[Len(a) + j] = b[j]
  <2>1. Len(a) + j \in 1..Len(a) + Len(b) + Len(c)
    BY <1>1
  <2>2. QED
    BY <1>2, <1>4, <2>1
<1>7. \A j \in 1..Len(c) : code[Len(a) + Len(b) + j] = c[j]
  BY <1>1, <1>2, <1>4
<1>8. FourJoined(code, a, b, c, d)
  <2>1. Len(code) = Len(a) + Len(b) + Len(c) + Len(d)
    BY <1>2, <1>3
  <2>2. QED
    BY <1>4, <1>5, <1>6, <1>7, <2>1 DEF FourJoined
<1>9. QED
  BY <1>8 DEF code, abc

(* What a literal in the code is taken for.                                *)
LEMMA BranchLands ==
  ASSUME NEW code, NEW i \in Nat, NEW n \in Int, Len(code) \in Nat,
         i < Len(code), code[i + 1] = InlineLit(n),
         i + 2 + n \in 1..Len(code) + 1,
         i + 2 + n > 1 => ~IsBranch(code[i + 2 + n - 1])
  PROVE  LandsAt(code, i)
BY NoBranchLiteral DEF LandsAt

LEMMA NoBranchLands ==
  ASSUME NEW code, NEW i, ~IsBranch(code[i])
  PROVE  LandsAt(code, i)
BY DEF LandsAt

LEMMA IfLands ==
  ASSUME dict \in Seq(Entries), NEW t \in Compiled, NEW f \in Compiled,
         GoodCode(t), GoodCode(f), Lands(t.blob), Lands(f.blob)
  PROVE  Lands(IfItems(t, f))
<1>1. PICK m \in Nat : m = Len(t.blob)
  BY GoodCodeLength
<1>2. PICK k \in Nat : k = Len(f.blob)
  BY GoodCodeLength
<1> DEFINE i1 == <<PrimOf("0branch"), InlineLit(m + 2)>>
           i2 == <<PrimOf("branch"), InlineLit(k)>>
           code == i1 \o t.blob \o i2 \o f.blob
<1>3. IfItems(t, f) = code
  <2>1. Len(t.cells) - 1 + 2 = m + 2 /\ Len(f.cells) - 1 = k
    BY <1>1, <1>2, GoodCodeLength
  <2>2. QED
    BY <2>1 DEF IfItems
<1>4. /\ t.blob \in Seq(Items) /\ f.blob \in Seq(Items)
      /\ \A j \in 1..m : t.blob[j] \in Items
      /\ \A j \in 1..k : f.blob[j] \in Items
  BY <1>1, <1>2, GoodCodeLength, ElementOfSeq
<1>5. i1 \in Seq(Items) /\ i2 \in Seq(Items)
  <2>1. m + 2 \in Int /\ k \in Int
    OBVIOUS
  <2>2. QED
    BY <2>1, LookupEmitsTyped, ItemsTyped, SpellingAssumption
<1>6. Len(i1) = 2 /\ i1[2] = InlineLit(m + 2) /\ Len(i2) = 2 /\ i2[2] = InlineLit(k)
  OBVIOUS
<1> HIDE DEF i1, i2
<1>7. /\ Len(code) = 2 + m + 2 + k
      /\ code[2] = InlineLit(m + 2) /\ code[m + 4] = InlineLit(k)
      /\ \A j \in 1..m : code[2 + j] = t.blob[j]
      /\ \A j \in 1..k : code[m + 4 + j] = f.blob[j]
  <2>1. /\ Len(code) = 2 + m + 2 + k
        /\ \A j \in 1..2 : code[j] = i1[j]
        /\ \A j \in 1..m : code[2 + j] = t.blob[j]
        /\ \A j \in 1..2 : code[2 + m + j] = i2[j]
        /\ \A j \in 1..k : code[2 + m + 2 + j] = f.blob[j]
    <3>1. FourJoined(code, i1, t.blob, i2, f.blob)
      <4>1. /\ i1 \in Seq(Items) /\ t.blob \in Seq(Items)
            /\ i2 \in Seq(Items) /\ f.blob \in Seq(Items)
        BY <1>4, <1>5
      <4>2. QED
        BY <4>1, JoinFour
    <3>2. Len(i1) = 2 /\ Len(i2) = 2 /\ Len(t.blob) = m /\ Len(f.blob) = k
      BY <1>1, <1>2, <1>6
    <3> HIDE DEF code
    <3>3. QED
      BY <3>1, <3>2 DEF FourJoined
  <2> HIDE DEF code
  <2>2. code[2] = i1[2] /\ code[2 + m + 2] = i2[2]
    BY <2>1
  <2>3. 2 + m + 2 = m + 4
    OBVIOUS
  <2>4. QED
    BY <1>6, <2>1, <2>2, <2>3
<1> HIDE DEF code
<1>8. ~IsBranch(code[2]) /\ ~IsBranch(code[m + 4])
  BY <1>7, NoBranchLiteral
<1>9. LandsAt(code, 1)
  <2>1. PICK n \in Int : n = m + 2
    OBVIOUS
  <2>2. /\ 1 + 2 + n - 1 = m + 4 /\ 1 + 2 + n \in 1..Len(code) + 1 /\ 1 < Len(code)
        /\ Len(code) \in Nat /\ code[1 + 1] = InlineLit(n)
    BY <1>7, <2>1
  <2>3. QED
    BY <1>8, <2>2, BranchLands
<1>10. LandsAt(code, m + 3)
  <2>1. PICK i \in Nat : i = m + 3
    OBVIOUS
  <2>2. /\ i + 2 + k - 1 = m + 4 + k /\ i + 2 + k \in 1..Len(code) + 1 /\ i < Len(code)
        /\ Len(code) \in Nat /\ code[i + 1] = InlineLit(k) /\ k \in Int
    BY <1>7, <2>1
  <2>3. ~IsBranch(code[m + 4 + k])
    <3>1. CASE k = 0
      BY <1>8, <3>1
    <3>2. CASE k # 0
      BY <1>2, <1>7, <3>2, LastLands
    <3>3. QED
      BY <3>1, <3>2
  <2>4. QED
    BY <2>1, <2>2, <2>3, BranchLands
<1>11. ASSUME NEW j \in 1..m
       PROVE  LandsAt(code, 2 + j)
  <2>1. PICK p \in Nat : p = 2
    OBVIOUS
  <2>2. Len(t.blob) = m
    BY <1>1
  <2>3. p + Len(t.blob) <= Len(code) /\ Len(code) \in Nat /\ j \in 1..Len(t.blob)
    BY <1>7, <2>1, <2>2
  <2>4. \A i \in 1..Len(t.blob) : code[p + i] = t.blob[i] /\ t.blob[i] \in Items
    BY <1>4, <1>7, <2>1, <2>2
  <2>5. LandsAt(code, p + j)
    BY <1>8, <2>1, <2>2, <2>3, <2>4, SegmentLands
  <2>6. QED
    BY <2>1, <2>5
<1>12. ASSUME NEW j \in 1..k
       PROVE  LandsAt(code, m + 4 + j)
  <2>1. PICK p \in Nat : p = m + 4
    OBVIOUS
  <2>2. Len(f.blob) = k
    BY <1>2
  <2>3. p + Len(f.blob) <= Len(code) /\ Len(code) \in Nat /\ j \in 1..Len(f.blob)
    BY <1>7, <2>1, <2>2
  <2>4. \A i \in 1..Len(f.blob) : code[p + i] = f.blob[i] /\ f.blob[i] \in Items
    BY <1>4, <1>7, <2>1, <2>2
  <2>5. LandsAt(code, p + j)
    BY <1>8, <2>1, <2>2, <2>3, <2>4, SegmentLands
  <2>6. QED
    BY <2>1, <2>5
<1>13. ASSUME NEW i \in 1..Len(code)
       PROVE  LandsAt(code, i)
  <2>1. \/ i = 1 \/ i = 2 \/ i = m + 3 \/ i = m + 4
        \/ i - 2 \in 1..m /\ i = 2 + (i - 2)
        \/ i - (m + 4) \in 1..k /\ i = m + 4 + (i - (m + 4))
    BY <1>7
  <2>2. CASE i = 2 \/ i = m + 4
    BY <1>8, <2>2, NoBranchLands
  <2>3. CASE i - 2 \in 1..m /\ i = 2 + (i - 2)
    <3>1. PICK j \in 1..m : i = 2 + j
      BY <2>3
    <3>2. QED
      BY <1>11, <3>1
  <2>4. CASE i - (m + 4) \in 1..k /\ i = m + 4 + (i - (m + 4))
    <3>1. PICK j \in 1..k : i = m + 4 + j
      BY <2>4
    <3>2. QED
      BY <1>12, <3>1
  <2>5. QED
    BY <1>9, <1>10, <2>1, <2>2, <2>3, <2>4
<1>14. QED
  BY <1>3, <1>13 DEF Lands

LEMMA TimesLands ==
  ASSUME dict \in Seq(Entries), NoUserPrimitives, NEW b \in Compiled,
         GoodCode(b), Lands(b.blob)
  PROVE  Lands(TimesItems(b))
<1>1. PICK m \in Nat : m = Len(b.blob)
  BY GoodCodeLength
<1> DEFINE i1 == <<PrimOf(">r"), PrimOf("r@"), PrimOf("0branch"), InlineLit(m + 6),
                   PrimOf("r>"), InlineLit(1), PrimOf("-"), PrimOf(">r")>>
           i2 == <<PrimOf("branch"), InlineLit(-(7 + m + 2)), PrimOf("rdrop")>>
           code == i1 \o b.blob \o i2
<1>2. TimesItems(b) = code
  <2>1. Len(b.cells) - 1 + 6 = m + 6 /\ -(7 + (Len(b.cells) - 1) + 2) = -(7 + m + 2)
    BY <1>1, GoodCodeLength
  <2>2. QED
    BY <2>1 DEF TimesItems
<1>3. b.blob \in Seq(Items) /\ \A j \in 1..m : b.blob[j] \in Items
  BY <1>1, GoodCodeLength, ElementOfSeq
<1>4. i1 \in Seq(Items) /\ i2 \in Seq(Items)
  <2>1. m + 6 \in Int /\ 1 \in Int /\ -(7 + m + 2) \in Int
    OBVIOUS
  <2>2. /\ InlineLit(m + 6) \in Items /\ InlineLit(1) \in Items
        /\ InlineLit(-(7 + m + 2)) \in Items
    BY <2>1, ItemsTyped, SpellingAssumption
  <2>3. \A name : PrimOf(name) \in Items
    BY LookupEmitsTyped
  <2>4. QED
    BY <2>2, <2>3
<1>5. /\ ~IsBranch(PrimOf(">r")) /\ ~IsBranch(PrimOf("r@")) /\ ~IsBranch(PrimOf("r>"))
      /\ ~IsBranch(PrimOf("-")) /\ ~IsBranch(PrimOf("rdrop"))
  BY NoBranchOf DEF BranchNames
<1>6. /\ Len(i1) = 8 /\ i1[4] = InlineLit(m + 6)
      /\ \A j \in 1..8 : j = 3 \/ ~IsBranch(i1[j])
      /\ Len(i2) = 3 /\ i2[2] = InlineLit(-(7 + m + 2)) /\ ~IsBranch(i2[2]) /\ ~IsBranch(i2[3])
  <2>1. \A j \in 1..8 : j \in {1, 2, 3, 4, 5, 6, 7, 8}
    OBVIOUS
  <2>2. QED
    BY <1>5, <2>1, NoBranchLiteral
<1> HIDE DEF i1, i2
<1>7. /\ Len(code) = m + 11
      /\ \A j \in 1..8 : code[j] = i1[j]
      /\ \A j \in 1..m : code[8 + j] = b.blob[j]
      /\ \A j \in 1..3 : code[m + 8 + j] = i2[j]
  <2>1. /\ Len(code) = 8 + m + 3
        /\ \A j \in 1..8 : code[j] = i1[j]
        /\ \A j \in 1..m : code[8 + j] = b.blob[j]
        /\ \A j \in 1..3 : code[8 + m + j] = i2[j]
    <3>1. ThreeJoined(code, i1, b.blob, i2)
      <4>1. i1 \in Seq(Items) /\ b.blob \in Seq(Items) /\ i2 \in Seq(Items)
        BY <1>3, <1>4
      <4>2. QED
        BY <4>1, JoinThree
    <3>2. Len(i1) = 8 /\ Len(i2) = 3 /\ Len(b.blob) = m
      BY <1>1, <1>6
    <3> HIDE DEF code
    <3>3. QED
      BY <3>1, <3>2 DEF ThreeJoined
  <2>2. 8 + m + 3 = m + 11 /\ 8 + m = m + 8
    OBVIOUS
  <2> HIDE DEF code
  <2>3. QED
    BY <2>1, <2>2
<1> HIDE DEF code
<1>8. /\ code[4] = InlineLit(m + 6) /\ code[m + 10] = InlineLit(-(7 + m + 2))
      /\ ~IsBranch(code[m + 10]) /\ ~IsBranch(code[m + 11])
      /\ \A j \in 1..8 : j = 3 \/ ~IsBranch(code[j])
  <2>1. code[m + 8 + 2] = i2[2] /\ code[m + 8 + 3] = i2[3] /\ code[4] = i1[4]
    BY <1>7
  <2>2. m + 8 + 2 = m + 10 /\ m + 8 + 3 = m + 11
    OBVIOUS
  <2>3. QED
    BY <1>6, <1>7, <2>1, <2>2
<1>9. LandsAt(code, 3)
  <2>1. PICK n \in Int : n = m + 6
    OBVIOUS
  <2>2. /\ 3 + 2 + n - 1 = m + 10 /\ 3 + 2 + n \in 1..Len(code) + 1 /\ 3 < Len(code)
        /\ Len(code) \in Nat /\ code[3 + 1] = InlineLit(n)
    BY <1>7, <1>8, <2>1
  <2>3. QED
    BY <1>8, <2>2, BranchLands
<1>10. LandsAt(code, m + 9)
  <2>1. PICK i \in Nat : i = m + 9
    OBVIOUS
  <2>2. PICK n \in Int : n = -(7 + m + 2)
    OBVIOUS
  <2>3. /\ i + 2 + n - 1 = 1 /\ i + 2 + n \in 1..Len(code) + 1 /\ i < Len(code)
        /\ Len(code) \in Nat /\ i + 1 = m + 10
    BY <1>7, <2>1, <2>2
  <2>4. ~IsBranch(code[1]) /\ code[i + 1] = InlineLit(n)
    BY <1>8, <2>2, <2>3
  <2>5. QED
    BY <2>1, <2>3, <2>4, BranchLands
<1>11. ASSUME NEW j \in 1..m
       PROVE  LandsAt(code, 8 + j)
  <2>1. PICK p \in Nat : p = 8
    OBVIOUS
  <2>2. Len(b.blob) = m
    BY <1>1
  <2>3. p + Len(b.blob) <= Len(code) /\ Len(code) \in Nat /\ j \in 1..Len(b.blob)
    BY <1>7, <2>1, <2>2
  <2>4. \A i \in 1..Len(b.blob) : code[p + i] = b.blob[i] /\ b.blob[i] \in Items
    BY <1>3, <1>7, <2>1, <2>2
  <2>5. ~IsBranch(code[p])
    BY <1>8, <2>1
  <2>6. LandsAt(code, p + j)
    BY <2>2, <2>3, <2>4, <2>5, SegmentLands
  <2>7. QED
    BY <2>1, <2>6
<1>12. ASSUME NEW i \in 1..Len(code)
       PROVE  LandsAt(code, i)
  <2>1. \/ i \in 1..8 \/ i = m + 9 \/ i = m + 10 \/ i = m + 11
        \/ i - 8 \in 1..m /\ i = 8 + (i - 8)
    BY <1>7
  <2>2. CASE i \in 1..8 \/ i = m + 10 \/ i = m + 11
    BY <1>8, <1>9, <2>2, NoBranchLands
  <2>3. CASE i - 8 \in 1..m /\ i = 8 + (i - 8)
    <3>1. PICK j \in 1..m : i = 8 + j
      BY <2>3
    <3>2. QED
      BY <1>11, <3>1
  <2>4. QED
    BY <1>10, <2>1, <2>2, <2>3
<1>13. QED
  BY <1>2, <1>12 DEF Lands

LEMMA UntilLands ==
  ASSUME dict \in Seq(Entries), NEW c \in Compiled, NEW b \in Compiled,
         GoodCode(c), GoodCode(b), Lands(c.blob), Lands(b.blob)
  PROVE  Lands(UntilItems(c, b))
<1>1. PICK m \in Nat : m = Len(b.blob)
  BY GoodCodeLength
<1>2. PICK k \in Nat : k = Len(c.blob)
  BY GoodCodeLength
<1>3. PICK n \in Int : n = -(m + k + 1 + 1)
  OBVIOUS
<1> DEFINE i2 == <<PrimOf("0branch"), InlineLit(n)>>
           bc == b.blob \o c.blob
           code == bc \o i2
<1>4. UntilItems(c, b) = code
  <2>1. -((Len(b.cells) - 1) + (Len(c.cells) - 1) + 1 + 1) = n
    BY <1>1, <1>2, <1>3, GoodCodeLength
  <2>2. QED
    BY <2>1 DEF UntilItems
<1>5. bc \in Seq(Items) /\ Len(bc) = m + k /\ Lands(bc)
  BY <1>1, <1>2, GoodCodeLength, LandsConcat, ConcatProperties
<1>6. i2 \in Seq(Items) /\ Len(i2) = 2 /\ i2[2] = InlineLit(n)
  BY LookupEmitsTyped, ItemsTyped, SpellingAssumption
<1>7. PICK p \in Nat : p = m + k
  OBVIOUS
<1> HIDE DEF i2, bc
<1>8. /\ Len(code) = p + 2
      /\ \A i \in 1..p + 2 : code[i] = IF i <= p THEN bc[i] ELSE i2[i - p]
  <2>1. bc \in Seq(Items) /\ i2 \in Seq(Items)
    BY <1>5, <1>6
  <2>2. Len(bc) = p /\ Len(i2) = 2
    BY <1>5, <1>6, <1>7
  <2>3. /\ Len(code) = Len(bc) + Len(i2)
        /\ \A i \in 1..Len(bc) + Len(i2) :
             code[i] = IF i <= Len(bc) THEN bc[i] ELSE i2[i - Len(bc)]
    BY <2>1, ConcatProperties
  <2> HIDE DEF code
  <2>4. QED
    BY <2>2, <2>3
<1> HIDE DEF code
<1>9. code[p + 2] = InlineLit(n) /\ ~IsBranch(code[p + 2])
  <2>1. code[p + 2] = i2[2]
    BY <1>8
  <2>2. QED
    BY <1>6, <2>1, NoBranchLiteral
<1>10. LandsAt(code, p + 1)
  <2>1. PICK i \in Nat : i = p + 1
    OBVIOUS
  <2>2. /\ i + 2 + n = 1 /\ i < Len(code) /\ Len(code) \in Nat
        /\ i + 1 = p + 2
    BY <1>3, <1>7, <1>8, <2>1
  <2>3. /\ i + 2 + n \in 1..Len(code) + 1 /\ ~(i + 2 + n > 1)
        /\ code[i + 1] = InlineLit(n)
    BY <1>9, <2>2
  <2>4. QED
    BY <2>1, <2>2, <2>3, BranchLands
<1>11. ASSUME NEW j \in 1..p
       PROVE  LandsAt(code, j)
  <2>1. PICK z \in Nat : z = 0
    OBVIOUS
  <2>2. /\ \A i \in 1..Len(bc) : bc[i] \in Items
        /\ z + Len(bc) <= Len(code) /\ Len(code) \in Nat /\ Len(bc) \in Nat
        /\ \A i \in 1..Len(bc) : code[z + i] = bc[i]
        /\ ~(z > 0) /\ j \in 1..Len(bc)
    BY <1>5, <1>7, <1>8, <2>1, ElementOfSeq
  <2>3. LandsAt(code, z + j)
    BY <1>5, <2>2, SegmentLands
  <2>4. QED
    BY <2>1, <2>3
<1>12. ASSUME NEW i \in 1..Len(code)
       PROVE  LandsAt(code, i)
  <2>1. i \in 1..p \/ i = p + 1 \/ i = p + 2
    BY <1>8
  <2>2. QED
    BY <1>9, <1>10, <1>11, <2>1, NoBranchLands
<1>13. QED
  BY <1>4, <1>12 DEF Lands
-----------------------------------------------------------------------------
(* The invariant.  What is stored lands because what is being compiled and *)
(* what waits to be inlined does; that they do takes the tokens they come  *)
(* from, as captured in definitions and quotations: if no source names a   *)
(* branch, none of those does, and if none has a string, no row holds one. *)

Written == {tok \in TokenSet : /\ NoRawBranches => tok \in PlainTokens
                               /\ NoStrings => tok \in StringFreeTokens}
WrittenQuotations == [toks : Seq(Written), home : Nat]

SourceWritten ==
  /\ src \in Seq(Written)
  /\ current.toks \in Seq(Written)
  /\ quotStack \in Seq(WrittenQuotations)
  /\ \A i \in 1..Len(defs) : defs[i].toks \in Seq(Written)

GoodData(data) == Landing(data.code) /\ (NoStrings => data.form # "str")

RowsLand(rows) == \A r \in 1..Len(rows) : GoodData(rows[r].data)

GoodFrame(f) ==
  /\ InStep(f.cells, f.blob)
  /\ Landing(f.blob)
  /\ f.toks \in Seq(Written)
  /\ f.quots \in Seq(WrittenQuotations)
  /\ \A k \in 1..Len(f.done) : GoodCode(f.done[k])

FramesGood(fs) == \A i \in 1..Len(fs) : GoodFrame(fs[i])

CodegenInv ==
  /\ SourceWritten
  /\ NoUserPrimitives
  /\ RowsLand(blobs)
  /\ FramesGood(frames)

LEMMA WrittenTokens ==
  /\ Written \subseteq TokenSet
  /\ \A tok \in Written : NoRawBranches /\ tok.t \in {"word", "prim"} => tok.s \notin BranchNames
  /\ \A tok \in Written : NoStrings => tok.t # "str"
BY DEF Written, PlainTokens, StringFreeTokens

LEMMA SourcesWritten == Sources \subseteq Seq(Written)
<1> SUFFICES ASSUME NEW s \in Sources PROVE s \in Seq(Written)
  OBVIOUS
<1>1. /\ s \in Seq(TokenSet)
      /\ NoRawBranches => s \in Seq(PlainTokens)
      /\ NoStrings => s \in Seq(StringFreeTokens)
  BY ConstantsAssumption DEF NoRawBranches, NoStrings
<1>2. Len(s) \in Nat /\ s \in [1..Len(s) -> TokenSet]
  BY <1>1, LenProperties
<1>3. \A i \in 1..Len(s) : /\ s[i] \in TokenSet
                           /\ NoRawBranches => s[i] \in PlainTokens
                           /\ NoStrings => s[i] \in StringFreeTokens
  BY <1>1, <1>2, ElementOfSeq
<1>4. s \in [1..Len(s) -> Written]
  BY <1>2, <1>3 DEF Written
<1>5. QED
  BY <1>2, <1>4, SeqDef

LEMMA WrittenIsTyped == Seq(Written) \subseteq Seq(TokenSet)
<1> SUFFICES ASSUME NEW s \in Seq(Written) PROVE s \in Seq(TokenSet)
  OBVIOUS
<1>1. Len(s) \in Nat /\ s \in [1..Len(s) -> Written]
  BY LenProperties
<1>2. s \in [1..Len(s) -> TokenSet]
  BY <1>1, WrittenTokens
<1>3. QED
  BY <1>1, <1>2, SeqDef

(* A step of the compiler: the source stays as it is.                      *)
LEMMA StepKeeps ==
  ASSUME CodegenInv, UNCHANGED <<sourceVars, quotStack>>,
         FramesGood(frames'), RowsLand(blobs')
  PROVE  CodegenInv'
<1>1. UNCHANGED <<src, current, quotStack, defs, dict>>
  BY DEF sourceVars
<1>2. SourceWritten' /\ NoUserPrimitives'
  BY <1>1 DEF CodegenInv, SourceWritten, NoUserPrimitives
<1>3. RowsLand(blobs)' /\ FramesGood(frames)'
  BY DEF RowsLand, FramesGood
<1>4. QED
  BY <1>2, <1>3 DEF CodegenInv

LEMMA FailGood ==
  ASSUME CodegenInv, Fail
  PROVE  CodegenInv'
<1>1. UNCHANGED <<sourceVars, quotStack>> /\ frames' = frames /\ blobs' = blobs
  BY DEF Fail, compileVars
<1>2. QED
  BY <1>1, StepKeeps DEF CodegenInv

(* The stack of frames under its three operations.                         *)
LEMMA TopGood ==
  ASSUME FramesGood(frames), FramesOK(frames), frames # <<>>
  PROVE  GoodFrame(Top)
<1>1. Len(frames) \in 1..Len(frames) /\ Top = frames[Len(frames)]
  BY TopTyped
<1>2. QED
  BY <1>1 DEF FramesGood

LEMMA SetTopGood ==
  ASSUME FramesGood(frames), frames \in Seq(Frames), frames # <<>>, NEW g, GoodFrame(g)
  PROVE  FramesGood(SetTop(g))
<1>1. /\ Len(SetTop(g)) = Len(frames)
      /\ \A i \in 1..Len(frames) : SetTop(g)[i] = IF i = Len(frames) THEN g ELSE frames[i]
  BY SetTopAny
<1>2. QED
  BY <1>1 DEF FramesGood

LEMMA EnterGood ==
  ASSUME FramesGood(frames), frames \in Seq(Frames), frames # <<>>,
         NEW g, GoodFrame(g), NEW h, GoodFrame(h), Enter(g, h)
  PROVE  FramesGood(frames')
<1>1. CASE Len(frames) >= MaxFrames
  BY <1>1 DEF Enter, FramesGood
<1>2. CASE ~(Len(frames) >= MaxFrames)
  <2> DEFINE fs == Append(SetTop(g), h)
  <2>1. frames' = fs
    BY <1>2 DEF Enter
  <2>2. /\ Len(fs) = Len(frames) + 1
        /\ \A i \in 1..Len(frames) + 1 :
             fs[i] = IF i = Len(frames) + 1 THEN h
                     ELSE IF i = Len(frames) THEN g ELSE frames[i]
    BY EnterAny
  <2>3. Len(frames) \in Nat
    BY LenProperties
  <2> HIDE DEF fs
  <2>4. \A i \in 1..Len(frames) + 1 : GoodFrame(fs[i])
    BY <2>2, <2>3 DEF FramesGood
  <2>5. FramesGood(fs)
    BY <2>2, <2>4 DEF FramesGood
  <2>6. QED
    BY <2>1, <2>5
<1>3. QED
  BY <1>1, <1>2

LEMMA PopGood ==
  ASSUME FramesGood(frames), frames \in Seq(Frames), Len(frames) > 1, NEW g, GoodFrame(g)
  PROVE  FramesGood([PopFrame EXCEPT ![Len(frames) - 1] = g])
<1> DEFINE fs == [PopFrame EXCEPT ![Len(frames) - 1] = g]
<1>1. /\ Len(fs) = Len(frames) - 1
      /\ \A i \in 1..Len(frames) - 1 : fs[i] = IF i = Len(frames) - 1 THEN g ELSE frames[i]
  BY PopAny
<1>2. Len(frames) \in Nat
  BY LenProperties
<1> HIDE DEF fs
<1>3. \A i \in 1..Len(frames) - 1 : GoodFrame(fs[i])
  BY <1>1, <1>2 DEF FramesGood
<1>4. QED
  BY <1>1, <1>3 DEF FramesGood, fs

LEMMA CallerGood ==
  ASSUME FramesGood(frames), frames \in Seq(Frames), Len(frames) > 1
  PROVE  GoodFrame(frames[Len(frames) - 1])
<1>1. Len(frames) - 1 \in 1..Len(frames)
  BY LenProperties
<1>2. QED
  BY <1>1 DEF FramesGood

(* A row that is stored.                                                   *)
LEMMA StoreLands ==
  ASSUME NEW rows \in Seq(Rows), RowsLand(rows), NEW kind \in Kinds, NEW data \in Data,
         GoodData(data)
  PROVE  RowsLand(StoreBlob(rows, kind, data))
<1> DEFINE row == [kind |-> kind, data |-> data]
<1>1. CASE HoldersOf(rows, data) # {}
  BY <1>1 DEF StoreBlob
<1>2. CASE HoldersOf(rows, data) = {}
  <2>1. row \in Rows /\ row.data = data
    BY DEF Rows
  <2> HIDE DEF row
  <2>2. /\ Len(Append(rows, row)) = Len(rows) + 1 /\ Len(rows) \in Nat
        /\ Append(rows, row)[Len(rows) + 1] = row
        /\ \A i \in 1..Len(rows) : Append(rows, row)[i] = rows[i]
    BY <2>1, AppendProperties, LenProperties
  <2>3. \A i \in 1..Len(rows) + 1 : GoodData(Append(rows, row)[i].data)
    BY <2>1, <2>2 DEF RowsLand
  <2>4. RowsLand(Append(rows, row))
    BY <2>2, <2>3 DEF RowsLand
  <2>5. QED
    BY <1>2, <2>4 DEF StoreBlob, row
<1>3. QED
  BY <1>1, <1>2

(* The code of literals and strings is empty.                              *)
LEMMA DataLands ==
  /\ \A n : GoodData(LitData(n))
  /\ ~NoStrings => \A s : GoodData(StrData(s))
  /\ \A code : Landing(code) => GoodData(CodeData(code))
BY LandsNone DEF GoodData, Landing, LitData, StrData, CodeData

(* Appending code that is in step and lands by itself.                     *)
LEMMA AppendGood ==
  ASSUME NEW f \in Frames, GoodFrame(f),
         NEW cells \in Seq(Cells), NEW items \in Seq(Items),
         InStep(cells, items), Landing(items)
  PROVE  InStep(f.cells \o cells, f.blob \o items) /\ Landing(f.blob \o items)
<1>1. f.cells \in Seq(Cells) /\ f.blob \in Seq(Items)
  BY DEF Frames
<1>2. InStep(f.cells, f.blob) /\ Landing(f.blob)
  BY DEF GoodFrame
<1>3. InStep(f.cells \o cells, f.blob \o items)
  BY <1>1, <1>2, InStepConcat
<1>4. Landing(f.blob \o items)
  BY <1>1, <1>2, LandsConcat DEF Landing
<1>5. QED
  BY <1>3, <1>4

LEMMA EmitGood ==
  ASSUME NEW f \in Frames, GoodFrame(f), f.toks # <<>>,
         NEW cells \in Seq(Cells), NEW items \in Seq(Items), NEW types,
         InStep(cells, items), Landing(items)
  PROVE  GoodFrame(Emit(f, cells, items, types))
<1> DEFINE g == Emit(f, cells, items, types)
<1>1. InStep(f.cells \o cells, f.blob \o items) /\ Landing(f.blob \o items)
  BY AppendGood
<1>2. Tail(f.toks) \in Seq(Written)
  BY HeadTailProperties DEF GoodFrame
<1>3. <<>> \in Seq(WrittenQuotations)
  BY EmptySeq
<1>4. /\ g.cells = f.cells \o cells /\ g.blob = f.blob \o items
      /\ g.toks = Tail(f.toks) /\ g.quots = <<>> /\ g.done = <<>>
  BY DEF Emit, Frames
<1> HIDE DEF g
<1>5. \A k \in 1..Len(g.done) : GoodCode(g.done[k])
  BY <1>4
<1>6. GoodFrame(g)
  BY <1>1, <1>2, <1>3, <1>4, <1>5 DEF GoodFrame
<1>7. QED
  BY <1>6 DEF g

LEMMA EmitStepGood ==
  ASSUME TypeInv, CodegenInv, AtToken,
         NEW cells \in Seq(Cells), NEW items \in Seq(Items), NEW types,
         InStep(cells, items), Landing(items),
         frames' = SetTop(Emit(Top, cells, items, types)),
         UNCHANGED <<sourceVars, quotStack>>, RowsLand(blobs')
  PROVE  CodegenInv'
<1>1. /\ frames \in Seq(Frames) /\ frames # <<>> /\ FramesOK(frames)
      /\ Top \in Frames /\ Top.toks # <<>> /\ FramesGood(frames)
  BY AtTokenFacts, IdleFacts DEF FramesOK, CodegenInv
<1>2. GoodFrame(Top)
  BY <1>1, TopGood
<1>3. GoodFrame(Emit(Top, cells, items, types))
  BY <1>1, <1>2, EmitGood
<1>4. FramesGood(frames')
  BY <1>1, <1>3, SetTopGood
<1>5. QED
  BY <1>4, StepKeeps

(* The token that is being compiled was written in a source, or stands for *)
(* a part of an array literal.                                             *)
LEMMA TokenWritten ==
  ASSUME TypeInv, CodegenInv, AtToken
  PROVE  Tok \in Written /\ Tail(Top.toks) \in Seq(Written)
<1>1. FramesOK(frames) /\ frames # <<>> /\ Top.toks # <<>> /\ FramesGood(frames)
  BY AtTokenFacts, IdleFacts DEF CodegenInv
<1>2. Top.toks \in Seq(Written)
  BY <1>1, TopGood DEF GoodFrame
<1>3. QED
  BY <1>1, <1>2, HeadTailProperties DEF Tok

(* One primitive or one reference.                                         *)
LEMMA PrimitiveGood ==
  ASSUME NoUserPrimitives, NEW tok \in Written, tok.t \in {"word", "prim"},
         NEW p \in {NoName, tok.s}, NEW cell
  PROVE  InStep(<<cell>>, <<Prim(p)>>) /\ Landing(<<Prim(p)>>)
<1>1. Prim(p).tag # "lit"
  BY DEF Prim
<1>2. NoRawBranches => ~IsBranch(Prim(p))
  BY WrittenTokens, NoBranch
<1> DEFINE item == Prim(p)
<1> HIDE DEF item
<1>3. InStep(<<cell>>, <<item>>)
  BY <1>1, InStepOne DEF item
<1>4. Landing(<<item>>)
  BY <1>2, LandsOne DEF Landing, item
<1>5. QED
  BY <1>3, <1>4 DEF item

LEMMA ReferenceGood ==
  ASSUME NEW kind, NEW cid, NEW cell
  PROVE  InStep(<<cell>>, <<Ref(kind, cid)>>) /\ Landing(<<Ref(kind, cid)>>)
<1> DEFINE item == Ref(kind, cid)
<1>1. ~IsBranch(item) /\ item.tag # "lit"
  BY NoBranchRef
<1> HIDE DEF item
<1>2. InStep(<<cell>>, <<item>>) /\ Landing(<<item>>)
  BY <1>1, InStepOne, LandsOne DEF Landing
<1>3. QED
  BY <1>2 DEF item
-----------------------------------------------------------------------------
(* Preserved by what compiles one token.                                   *)

LEMMA EmitLiteralGood ==
  ASSUME TypeInv, CodegenInv, AtToken, NEW n \in Int, NEW types, EmitLiteral(n, types)
  PROVE  CodegenInv'
<1> DEFINE cid == CidOf(blobs, LitData(n))
<1>1. /\ blobs \in Seq(Rows) /\ LitData(n) \in Data /\ BLOB_DATA \in Kinds
      /\ RowsLand(blobs)
  BY DataTyped, KindsTyped, SpellingAssumption DEF TypeInv, TypeOK, CodegenInv
<1>2. StoreBlob(blobs, BLOB_DATA, LitData(n)) \in Seq(Rows) /\ cid \in Nat
  BY <1>1, StoreBlobTyped, LenProperties
<1>3. RowsLand(blobs')
  BY <1>1, StoreLands, DataLands DEF EmitLiteral
<1>4. Lit(n) \in Cells /\ Ref(BLOB_DATA, cid) \in Items
  BY <1>1, <1>2, CellsTyped, ItemsTyped, SpellingAssumption
<1>5. <<Lit(n)>> \in Seq(Cells) /\ <<Ref(BLOB_DATA, cid)>> \in Seq(Items)
  BY <1>4
<1>6. InStep(<<Lit(n)>>, <<Ref(BLOB_DATA, cid)>>) /\ Landing(<<Ref(BLOB_DATA, cid)>>)
  BY ReferenceGood
<1>7. /\ frames' = SetTop(Emit(Top, <<Lit(n)>>, <<Ref(BLOB_DATA, cid)>>, types))
      /\ UNCHANGED <<sourceVars, quotStack>>
  BY DEF EmitLiteral
<1> HIDE DEF cid
<1>8. QED
  BY <1>3, <1>5, <1>6, <1>7, EmitStepGood

LEMMA CompileStringGood ==
  ASSUME TypeInv, CodegenInv, CompileString
  PROVE  CodegenInv'
<1> DEFINE cid == CidOf(blobs, StrData(Tok.s))
           types == PushTypes(Top.types, <<"str">>)
<1>1. AtToken /\ ~NoStrings
  <2>1. AtToken /\ Tok.t = "str"
    BY DEF CompileString
  <2>2. QED
    BY <2>1, TokenWritten, WrittenTokens
<1>2. /\ blobs \in Seq(Rows) /\ StrData(Tok.s) \in Data /\ BLOB_STRING \in Kinds
      /\ BLOB_DATA \in Kinds /\ RowsLand(blobs)
  BY <1>1, AtTokenFacts, DataTyped, KindsTyped, SpellingAssumption DEF TypeInv, TypeOK, CodegenInv
<1>3. StoreBlob(blobs, BLOB_STRING, StrData(Tok.s)) \in Seq(Rows) /\ cid \in Nat
  <2>1. /\ StoreBlob(blobs, BLOB_STRING, StrData(Tok.s)) \in Seq(Rows)
        /\ cid \in 1..Len(StoreBlob(blobs, BLOB_STRING, StrData(Tok.s)))
    BY <1>2, StoreBlobTyped
  <2>2. QED
    BY <2>1, LenProperties
<1>4. RowsLand(blobs')
  BY <1>1, <1>2, StoreLands, DataLands DEF CompileString
<1>5. Lit(0) \in Cells /\ Ref(BLOB_DATA, cid) \in Items
  BY <1>2, <1>3, CellsTyped, ItemsTyped, SpellingAssumption
<1>6. <<Lit(0)>> \in Seq(Cells) /\ <<Ref(BLOB_DATA, cid)>> \in Seq(Items)
  BY <1>5
<1>7. InStep(<<Lit(0)>>, <<Ref(BLOB_DATA, cid)>>) /\ Landing(<<Ref(BLOB_DATA, cid)>>)
  BY ReferenceGood
<1>8. /\ frames' = SetTop(Emit(Top, <<Lit(0)>>, <<Ref(BLOB_DATA, cid)>>, types))
      /\ UNCHANGED <<sourceVars, quotStack>>
  BY DEF CompileString
<1> HIDE DEF cid, types
<1>9. QED
  BY <1>1, <1>4, <1>6, <1>7, <1>8, EmitStepGood

LEMMA CompileLbracketGood ==
  ASSUME TypeInv, CodegenInv, CompileLbracket
  PROVE  CodegenInv'
<1>1. AtToken /\ RowsLand(blobs')
  BY DEF CompileLbracket, CodegenInv
<1>2. <<>> \in Seq(Cells) /\ <<>> \in Seq(Items) /\ InStep(<<>>, <<>>) /\ Landing(<<>>)
  BY EmptySeq, InStepNone, LandsNone DEF Landing
<1>3. QED
  BY <1>1, <1>2, EmitStepGood DEF CompileLbracket

(* The code of an array literal has no branch.                             *)
LEMMA ArrayWritten ==
  ASSUME NEW count \in Int, NEW type
  PROVE  ArrayCode(count, type) \in Seq(Written)
<1>1. \A n \in Int : PutLit(n) \in TokenSet /\ PutLit(n).t = "lit"
  BY PutTyped DEF PutLit, Token
<1>2. \A s \in ArrayWords : PutPrim(s) \in TokenSet /\ PutPrim(s).s \notin BranchNames
                             /\ PutPrim(s).t # "str"
  <2>1. \A s \in ArrayWords : s \in STRING /\ s \notin BranchNames
    BY ArrayWordsAssumption DEF ArrayWords, BranchNames
  <2>2. \A s \in ArrayWords : PutPrim(s).s = s /\ PutPrim(s).t # "str"
    BY DEF PutPrim, Token
  <2>3. QED
    BY <2>1, <2>2, PutTyped
<1>3. \A n \in Int : PutLit(n) \in Written
  BY <1>1 DEF Written, PlainTokens, StringFreeTokens
<1>4. \A s \in ArrayWords : PutPrim(s) \in Written
  BY <1>2 DEF Written, PlainTokens, StringFreeTokens
<1>5. QED
  BY <1>3, <1>4, ArrayCodeIn

LEMMA CompileRbracketGood ==
  ASSUME TypeInv, CodegenInv, CompileRbracket
  PROVE  CodegenInv'
<1>1. AtToken /\ markers # <<>>
  BY DEF CompileRbracket
<1>2. PICK type \in ElementTypes, types \in TypesAtMarker :
        frames' = SetTop([Top EXCEPT !.toks = ArrayCode(Count, type) \o Tail(@),
                                     !.types = PushTypes(types, <<"array">>)])
  BY DEF CompileRbracket
<1> DEFINE toks == ArrayCode(Count, type) \o Tail(Top.toks)
           ts   == PushTypes(types, <<"array">>)
           g    == [Top EXCEPT !.toks = toks, !.types = ts]
<1>3. toks \in Seq(Written)
  BY <1>1, MarkerTyped, TokenWritten, ArrayWritten, ConcatProperties
<1>4. frames' = SetTop(g)
  BY <1>2
<1> HIDE DEF toks, ts
<1>5. /\ frames \in Seq(Frames) /\ frames # <<>> /\ FramesOK(frames) /\ Top \in Frames
      /\ FramesGood(frames)
  BY <1>1, AtTokenFacts, IdleFacts DEF FramesOK, CodegenInv
<1>6. GoodFrame(Top)
  BY <1>5, TopGood
<1>7. /\ g.cells = Top.cells /\ g.blob = Top.blob /\ g.toks = toks
      /\ g.quots = Top.quots /\ g.done = Top.done
  BY <1>5 DEF Frames
<1> HIDE DEF g
<1>8. GoodFrame(g)
  BY <1>3, <1>6, <1>7 DEF GoodFrame
<1>9. FramesGood(frames')
  BY <1>4, <1>5, <1>8, SetTopGood
<1>10. UNCHANGED <<sourceVars, quotStack>> /\ RowsLand(blobs')
  BY DEF CompileRbracket, CodegenInv
<1>11. QED
  BY <1>9, <1>10, StepKeeps

(* A primitive that is looked up by the name in the token.                 *)
LEMMA EmitNamedGood ==
  ASSUME TypeInv, CodegenInv, AtToken, Tok.t \in {"word", "prim"}, NEW types,
         frames' = SetTop(Emit(Top, <<XtOf(Tok.s)>>, <<PrimOf(Tok.s)>>, types)),
         UNCHANGED <<sourceVars, quotStack, blobs>>
  PROVE  CodegenInv'
<1>1. dict \in Seq(Entries)
  BY DEF TypeInv, TypeOK
<1>2. XtOf(Tok.s) \in Cells /\ PrimOf(Tok.s) \in Items
  BY <1>1, LookupEmitsTyped
<1>3. <<XtOf(Tok.s)>> \in Seq(Cells) /\ <<PrimOf(Tok.s)>> \in Seq(Items)
  BY <1>2
<1>4. PICK p \in {NoName, Tok.s} : PrimOf(Tok.s) = Prim(p)
  BY LookupPrimitive DEF CodegenInv, PrimOf
<1>5. Tok \in Written /\ NoUserPrimitives /\ RowsLand(blobs')
  BY TokenWritten DEF CodegenInv
<1>6. /\ InStep(<<XtOf(Tok.s)>>, <<PrimOf(Tok.s)>>) /\ Landing(<<PrimOf(Tok.s)>>)
  BY <1>4, <1>5, PrimitiveGood
<1>7. QED
  BY <1>3, <1>5, <1>6, EmitStepGood

LEMMA EmitArrayGood ==
  ASSUME TypeInv, CodegenInv, EmitLit \/ EmitPrim
  PROVE  CodegenInv'
<1>1. AtToken
  BY DEF EmitLit, EmitPrim
<1>2. Tok.n \in Int
  BY <1>1, AtTokenFacts
<1>3. CASE EmitLit
  BY <1>1, <1>2, <1>3, EmitLiteralGood DEF EmitLit
<1>4. CASE EmitPrim
  BY <1>1, <1>4, EmitNamedGood DEF EmitPrim
<1>5. QED
  BY <1>3, <1>4

LEMMA CompilePrimitiveGood ==
  ASSUME TypeInv, CodegenInv, CompilePrimitive
  PROVE  CodegenInv'
<1>1. AtToken /\ Tok.t = "word"
  BY DEF CompilePrimitive, AtResolved, AtWord
<1>2. CASE ~SignatureApplies(Resolved, Top.types)
  BY <1>2, FailGood DEF CompilePrimitive
<1>3. CASE SignatureApplies(Resolved, Top.types)
  <2> DEFINE types == PushTypes(Below(Top.types, Len(Resolved.ins)),
                                Outputs(Resolved, Top.types))
  <2>1. /\ frames' = SetTop(Emit(Top, <<Xt(Resolved.addr)>>, <<Prim(Resolved.prim)>>, types))
        /\ UNCHANGED <<sourceVars, quotStack, blobs>>
    BY <1>3 DEF CompilePrimitive
  <2>2. Resolved \in Entries
    BY <1>1, ResolvedFacts
  <2>3. Resolved.addr \in STRING /\ Resolved.prim \in STRING
    BY <2>2 DEF Entries
  <2>4. Xt(Resolved.addr) \in Cells /\ Prim(Resolved.prim) \in Items
    BY <2>3, CellsTyped, ItemsTyped, SpellingAssumption
  <2>5. <<Xt(Resolved.addr)>> \in Seq(Cells) /\ <<Prim(Resolved.prim)>> \in Seq(Items)
    BY <2>4
  <2>6. Tok \in Written /\ NoUserPrimitives /\ RowsLand(blobs')
    BY <1>1, <2>1, TokenWritten DEF CodegenInv
  <2>7. Resolved.prim \in {NoName, Tok.s}
    BY <2>6, LookupPrimitive DEF Resolved
  <2>8. /\ InStep(<<Xt(Resolved.addr)>>, <<Prim(Resolved.prim)>>)
        /\ Landing(<<Prim(Resolved.prim)>>)
    BY <1>1, <2>6, <2>7, PrimitiveGood
  <2> HIDE DEF types
  <2>9. QED
    BY <1>1, <2>1, <2>5, <2>6, <2>8, EmitStepGood
<1>4. QED
  BY <1>2, <1>3

-----------------------------------------------------------------------------
(* Preserved by calls.                                                     *)

LEMMA EmitCallGood ==
  ASSUME NEW f \in Frames, GoodFrame(f), f.toks # <<>>, NEW e, NEW cid \in Nat
  PROVE  GoodFrame(EmitCall(f, e, cid))
<1>1. Xt(NoName) \in Cells /\ Ref(BLOB_WORD, cid) \in Items
  BY CellsTyped, ItemsTyped, KindsTyped, SpellingAssumption
<1>2. <<Xt(NoName)>> \in Seq(Cells) /\ <<Ref(BLOB_WORD, cid)>> \in Seq(Items)
  BY <1>1
<1>3. /\ InStep(<<Xt(NoName)>>, <<Ref(BLOB_WORD, cid)>>)
      /\ Landing(<<Ref(BLOB_WORD, cid)>>)
  BY ReferenceGood
<1>4. QED
  BY <1>2, <1>3, EmitGood DEF EmitCall

LEMMA CallHitGood ==
  ASSUME TypeInv, CodegenInv, CallHit
  PROVE  CodegenInv'
<1>1. AtToken
  BY DEF CallHit, AtResolved, AtWord
<1>2. CASE ~SignatureApplies(Resolved, Top.types)
  BY <1>2, FailGood DEF CallHit
<1>3. CASE SignatureApplies(Resolved, Top.types)
  <2> DEFINE S   == SpecHits(Tok.s, CallInputs)
             cid == specs[FirstOf(S)].cid
  <2>1. /\ frames' = SetTop(EmitCall(Top, Resolved, cid))
        /\ UNCHANGED <<sourceVars, quotStack, blobs>>
    BY <1>3 DEF CallHit
  <2>2. S \subseteq 1..Len(specs) /\ S # {}
    BY DEF CallHit, SpecHits
  <2>3. FirstOf(S) \in 1..Len(specs)
    BY <2>2, FirstOfTyped
  <2>4. specs[FirstOf(S)] \in Specs
    BY <2>3, ElementOfSeq DEF TypeInv, TypeOK
  <2>5. cid \in Nat
    BY <2>4 DEF Specs
  <2> HIDE DEF cid
  <2>6. /\ frames \in Seq(Frames) /\ frames # <<>> /\ FramesOK(frames)
        /\ Top \in Frames /\ Top.toks # <<>> /\ FramesGood(frames)
    BY <1>1, AtTokenFacts, IdleFacts DEF FramesOK, CodegenInv
  <2>7. GoodFrame(Top)
    BY <2>6, TopGood
  <2>8. GoodFrame(EmitCall(Top, Resolved, cid))
    BY <2>5, <2>6, <2>7, EmitCallGood
  <2>9. FramesGood(frames')
    BY <2>1, <2>6, <2>8, SetTopGood
  <2>10. RowsLand(blobs')
    BY <2>1 DEF CodegenInv
  <2>11. QED
    BY <2>1, <2>9, <2>10, StepKeeps
<1>4. QED
  BY <1>2, <1>3

LEMMA NewFrameGood ==
  ASSUME NEW def, NEW ins, NEW types, NEW toks \in Seq(Written)
  PROVE  GoodFrame(NewFrame(def, ins, types, toks))
<1> DEFINE f == NewFrame(def, ins, types, toks)
<1>1. f.cells = <<>> /\ f.blob = <<>> /\ f.toks = toks /\ f.quots = <<>> /\ f.done = <<>>
  BY DEF NewFrame
<1>2. InStep(<<>>, <<>>) /\ Landing(<<>>) /\ <<>> \in Seq(WrittenQuotations) /\ Len(<<>>) = 0
  BY EmptySeq, InStepNone, LandsNone DEF Landing
<1> HIDE DEF f
<1>3. \A k \in 1..Len(f.done) : GoodCode(f.done[k])
  BY <1>1, <1>2
<1>4. GoodFrame(f)
  BY <1>1, <1>2, <1>3 DEF GoodFrame
<1>5. QED
  BY <1>4 DEF f

LEMMA CallMissGood ==
  ASSUME TypeInv, CodegenInv, CallMiss
  PROVE  CodegenInv'
<1> DEFINE g == [Top EXCEPT !.op = "call"]
           h == NewFrame(Resolved.def, CallInputs, PushTypes(<<>>, CallInputs),
                         defs[Resolved.def].toks)
<1>1. AtToken /\ Resolved.kind = "word"
  BY DEF CallMiss, AtResolved, AtWord
<1>2. /\ frames \in Seq(Frames) /\ frames # <<>> /\ FramesOK(frames) /\ Top \in Frames
      /\ FramesGood(frames)
  BY <1>1, AtTokenFacts, IdleFacts DEF FramesOK, CodegenInv
<1>3. GoodFrame(Top)
  BY <1>2, TopGood
<1>4. /\ g.cells = Top.cells /\ g.blob = Top.blob /\ g.toks = Top.toks
      /\ g.quots = Top.quots /\ g.done = Top.done
  BY <1>2 DEF Frames
<1>5. Resolved.def \in 1..Len(defs)
  BY <1>1, ResolvedFacts
<1>6. defs[Resolved.def].toks \in Seq(Written)
  BY <1>5 DEF CodegenInv, SourceWritten
<1>7. GoodFrame(h)
  BY <1>6, NewFrameGood
<1>8. Enter(g, h) /\ UNCHANGED <<sourceVars, quotStack, blobs>>
  BY DEF CallMiss
<1> HIDE DEF g, h
<1>9. GoodFrame(g)
  BY <1>3, <1>4 DEF GoodFrame
<1>10. FramesGood(frames')
  BY <1>2, <1>7, <1>8, <1>9, EnterGood
<1>11. RowsLand(blobs')
  BY <1>8 DEF CodegenInv
<1>12. QED
  BY <1>8, <1>10, <1>11, StepKeeps

LEMMA FinishCallGood ==
  ASSUME TypeInv, CodegenInv, FinishCall
  PROVE  CodegenInv'
<1> DEFINE code   == CodeData(Top.blob)
           cid    == CidOf(blobs, code)
           caller == frames[Len(frames) - 1]
           name   == Head(caller.toks).s
           entry  == DictLookupTyped(dict, name, caller.types)
<1>1. Idle /\ Len(frames) > 1 /\ Top.def # 0
  BY DEF FinishCall, WordDone
<1>2. /\ blobs' = StoreBlob(blobs, BLOB_WORD, code)
      /\ UNCHANGED <<sourceVars, quotStack>>
  BY DEF FinishCall
<1>3. /\ caller \in Frames /\ caller.op = "call" /\ caller.toks # <<>>
      /\ Top \in Frames /\ frames \in Seq(Frames) /\ frames # <<>> /\ FramesOK(frames)
      /\ FramesGood(frames) /\ RowsLand(blobs) /\ blobs \in Seq(Rows)
  BY <1>1, CallerFacts, IdleFacts DEF FrameOK, Awaits, FramesOK, CodegenInv, TypeInv, TypeOK
<1>4. GoodFrame(Top) /\ GoodFrame(caller)
  BY <1>1, <1>3, TopGood, CallerGood
<1>5. code \in Data /\ BLOB_WORD \in Kinds
  <2>1. Top.blob \in Seq(Items)
    BY <1>3 DEF Frames
  <2>2. QED
    BY <2>1, DataTyped, KindsTyped, SpellingAssumption
<1>6. GoodData(code)
  BY <1>4, DataLands DEF GoodFrame
<1> HIDE DEF code
<1>7. RowsLand(blobs')
  BY <1>2, <1>3, <1>5, <1>6, StoreLands
<1>8. cid \in Nat
  <2>1. /\ StoreBlob(blobs, BLOB_WORD, code) \in Seq(Rows)
        /\ cid \in 1..Len(StoreBlob(blobs, BLOB_WORD, code))
    BY <1>3, <1>5, StoreBlobTyped
  <2>2. QED
    BY <2>1, LenProperties
<1> HIDE DEF cid
<1>9. CASE ~SignatureApplies(entry, caller.types)
  <2>1. UNCHANGED frames
    BY <1>9 DEF FinishCall
  <2>2. QED
    BY <1>2, <1>3, <1>7, <2>1, StepKeeps
<1>10. CASE SignatureApplies(entry, caller.types)
  <2>1. frames' = [PopFrame EXCEPT ![Len(frames) - 1] = EmitCall(caller, entry, cid)]
    BY <1>10 DEF FinishCall, cid, code
  <2> HIDE DEF entry
  <2>2. GoodFrame(EmitCall(caller, entry, cid))
    BY <1>3, <1>4, <1>8, EmitCallGood
  <2>3. FramesGood(frames')
    BY <1>1, <1>3, <2>1, <2>2, PopGood
  <2>4. QED
    BY <1>2, <1>7, <2>3, StepKeeps
<1>11. QED
  BY <1>9, <1>10
-----------------------------------------------------------------------------
(* Preserved by quotations and what consumes them.                         *)

LEMMA TakeQuotsWritten ==
  ASSUME TypeInv, SourceWritten, NEW n \in 0..Len(quotStack)
  PROVE  /\ TakeQuots(n) \in Seq(WrittenQuotations)
         /\ LeaveQuots(n) \in Seq(WrittenQuotations)
<1>1. quotStack \in Seq(WrittenQuotations) /\ Len(quotStack) \in Nat
  BY LenProperties DEF SourceWritten
<1>2. /\ \A i \in Len(quotStack) - n + 1..Len(quotStack) : quotStack[i] \in WrittenQuotations
      /\ \A i \in 1..Len(quotStack) - n : quotStack[i] \in WrittenQuotations
  BY <1>1, ElementOfSeq
<1>3. /\ Len(quotStack) - n + 1 \in Int /\ Len(quotStack) \in Int
      /\ 1 \in Int /\ Len(quotStack) - n \in Int
  BY <1>1
<1>4. TakeQuots(n) \in Seq(WrittenQuotations)
  BY <1>2, <1>3, SubSeqProperties DEF TakeQuots
<1>5. LeaveQuots(n) \in Seq(WrittenQuotations)
  BY <1>2, <1>3, SubSeqProperties DEF LeaveQuots
<1>6. QED
  BY <1>4, <1>5

LEMMA ConsumeGood ==
  ASSUME TypeInv, CodegenInv, Idle, NEW n \in 0..Len(quotStack),
         NEW op, NEW types, Consume(n, op, TakeQuots(n), types)
  PROVE  CodegenInv'
<1> DEFINE g == [Top EXCEPT !.op = op, !.quots = TakeQuots(n), !.types = types]
<1>1. SourceWritten /\ NoUserPrimitives /\ RowsLand(blobs) /\ FramesGood(frames)
  BY DEF CodegenInv
<1>2. /\ TakeQuots(n) \in Seq(WrittenQuotations)
      /\ LeaveQuots(n) \in Seq(WrittenQuotations)
  BY <1>1, TakeQuotsWritten
<1>3. frames \in Seq(Frames) /\ frames # <<>> /\ FramesOK(frames) /\ Top \in Frames
  BY IdleFacts DEF FramesOK
<1>4. GoodFrame(Top)
  BY <1>1, <1>3, TopGood
<1>5. /\ g.cells = Top.cells /\ g.blob = Top.blob /\ g.toks = Top.toks
      /\ g.quots = TakeQuots(n) /\ g.done = Top.done
  BY <1>3 DEF Frames
<1>6. frames' = SetTop(g) /\ quotStack' = LeaveQuots(n) /\ UNCHANGED <<sourceVars, blobs>>
  BY DEF Consume
<1> HIDE DEF g
<1>7. GoodFrame(g)
  BY <1>2, <1>4, <1>5 DEF GoodFrame
<1>8. FramesGood(frames')
  BY <1>1, <1>3, <1>6, <1>7, SetTopGood
<1>9. UNCHANGED <<src, current, defs, dict, blobs>>
  BY <1>6 DEF sourceVars
<1>10. SourceWritten'
  BY <1>1, <1>2, <1>6, <1>9 DEF SourceWritten
<1>11. NoUserPrimitives' /\ RowsLand(blobs)' /\ FramesGood(frames)'
  BY <1>1, <1>8, <1>9 DEF NoUserPrimitives, RowsLand, FramesGood
<1>12. QED
  BY <1>10, <1>11 DEF CodegenInv

LEMMA BeginGood ==
  ASSUME TypeInv, CodegenInv, BeginMaterialize \/ BeginIf \/ BeginTimes \/ BeginUntil
  PROVE  CodegenInv'
<1>1. Idle
  BY DEF BeginMaterialize, BeginIf, BeginTimes, BeginUntil, AtImmediate, AtResolved, AtWord,
         AtToken
<1>2. Len(quotStack) \in Nat /\ (quotStack # <<>> => Len(quotStack) >= 1)
  BY QuotStackDepth
<1>3. CASE BeginMaterialize
  <2>1. 1 \in 0..Len(quotStack) /\ Consume(1, "mat", TakeQuots(1), Top.types)
    BY <1>2, <1>3 DEF BeginMaterialize
  <2>2. QED
    BY <1>1, <2>1, ConsumeGood
<1>4. CASE BeginIf
  <2>1. 2 \in 0..Len(quotStack) /\ Consume(2, "if", TakeQuots(2), Below(Top.types, 1))
    BY <1>2, <1>4 DEF BeginIf
  <2>2. QED
    BY <1>1, <2>1, ConsumeGood
<1>5. CASE BeginTimes
  <2>1. 1 \in 0..Len(quotStack) /\ Consume(1, "times", TakeQuots(1), Below(Top.types, 1))
    BY <1>2, <1>5 DEF BeginTimes
  <2>2. QED
    BY <1>1, <2>1, ConsumeGood
<1>6. CASE BeginUntil
  <2>1. 2 \in 0..Len(quotStack) /\ Consume(2, "until", TakeQuots(2), Top.types)
    BY <1>2, <1>6 DEF BeginUntil
  <2>2. QED
    BY <1>1, <2>1, ConsumeGood
<1>7. QED
  BY <1>3, <1>4, <1>5, <1>6

LEMMA EnterQuotationGood ==
  ASSUME TypeInv, CodegenInv, EnterQuotation
  PROVE  CodegenInv'
<1> DEFINE ctx == IF Top.op = "mat" THEN <<>> ELSE Top.types
           k   == Len(Top.done) + 1
           h   == NewFrame(0, ctx, ctx, Top.quots[k].toks)
<1>1. /\ frames # <<>> /\ FramesOK(frames) /\ Top \in Frames /\ frames \in Seq(Frames)
      /\ Len(Top.done) < Len(Top.quots) /\ FramesGood(frames)
  BY TopTyped DEF EnterQuotation, Compiling, TypeInv, FramesOK, CodegenInv
<1>2. GoodFrame(Top)
  BY <1>1, TopGood
<1>3. Top.quots \in Seq(WrittenQuotations) /\ Len(Top.quots) \in Nat /\ Len(Top.done) \in Nat
  BY <1>1, <1>2, LenProperties DEF Frames, GoodFrame
<1>4. Top.quots[k] \in WrittenQuotations
  BY <1>1, <1>3, ElementOfSeq
<1>5. Top.quots[k].toks \in Seq(Written)
  BY <1>4 DEF WrittenQuotations
<1> HIDE DEF ctx
<1>6. GoodFrame(h)
  BY <1>5, NewFrameGood
<1>7. Enter(Top, h) /\ UNCHANGED <<sourceVars, quotStack, blobs>>
  BY DEF EnterQuotation, ctx
<1> HIDE DEF h
<1>8. FramesGood(frames')
  BY <1>1, <1>2, <1>6, <1>7, EnterGood
<1>9. RowsLand(blobs')
  BY <1>7 DEF CodegenInv
<1>10. QED
  BY <1>7, <1>8, <1>9, StepKeeps

LEMMA FinishQuotationGood ==
  ASSUME TypeInv, CodegenInv, FinishQuotation
  PROVE  CodegenInv'
<1> DEFINE n      == Len(frames)
           caller == frames[n - 1]
           result == [cells |-> Append(Top.cells, Exit), blob |-> Top.blob,
                      outs |-> Top.types]
           g      == [caller EXCEPT !.done = Append(@, result)]
<1>1. Idle /\ n > 1 /\ Top.def = 0
  BY DEF FinishQuotation
<1>2. /\ caller \in Frames /\ Top \in Frames /\ frames \in Seq(Frames) /\ frames # <<>>
      /\ FramesOK(frames) /\ FramesGood(frames) /\ PopFrame[n - 1] = caller
  BY <1>1, CallerFacts, CallerFrame, IdleFacts DEF CodegenInv
<1>3. GoodFrame(Top) /\ GoodFrame(caller)
  BY <1>1, <1>2, TopGood, CallerGood
<1>4. GoodCode(result)
  <2>1. /\ Top.cells \in Seq(Cells) /\ Top.blob \in Seq(Items) /\ Top.types \in Seq(Types)
        /\ InStep(Top.cells, Top.blob) /\ Landing(Top.blob)
    BY <1>2, <1>3 DEF Frames, GoodFrame
  <2>2. result.cells # <<>> /\ InStep(Body(result), result.blob)
    BY <2>1, BodyOfFinished
  <2>3. QED
    BY <2>1, <2>2 DEF GoodCode
<1>5. result \in Compiled
  <2>1. Exit \in Cells
    BY CellsTyped, SpellingAssumption
  <2>2. Append(Top.cells, Exit) \in Seq(Cells)
    BY <1>1, <2>1, IdleFacts, AppendProperties
  <2>3. QED
    BY <1>1, <2>2, IdleFacts DEF Compiled
<1>6. /\ frames' = [PopFrame EXCEPT ![n - 1].done = Append(@, result)]
      /\ UNCHANGED <<sourceVars, quotStack, blobs>>
  BY DEF FinishQuotation
<1> HIDE DEF result
<1>7. caller.done \in Seq(Compiled) /\ Len(caller.done) \in Nat
  BY <1>2, LenProperties DEF Frames
<1>8. /\ Len(Append(caller.done, result)) = Len(caller.done) + 1
      /\ Append(caller.done, result)[Len(caller.done) + 1] = result
      /\ \A i \in 1..Len(caller.done) : Append(caller.done, result)[i] = caller.done[i]
  BY <1>5, <1>7, AppendProperties
<1>9. \A k \in 1..Len(caller.done) + 1 : GoodCode(Append(caller.done, result)[k])
  <2>1. PICK d, m, a : d = caller.done /\ m = Len(caller.done) /\ a = Append(caller.done, result)
    OBVIOUS
  <2>2. \A k \in 1..m : GoodCode(d[k])
    BY <1>3, <2>1 DEF GoodFrame
  <2>3. m \in Nat /\ a[m + 1] = result /\ \A i \in 1..m : a[i] = d[i]
    BY <1>7, <1>8, <2>1
  <2>4. \A k \in 1..m + 1 : k \in 1..m \/ k = m + 1
    BY <2>3
  <2>5. \A k \in 1..m + 1 : GoodCode(a[k])
    BY ONLY <1>4, <2>2, <2>3, <2>4
  <2>6. QED
    BY <2>1, <2>5
<1>10. /\ g.cells = caller.cells /\ g.blob = caller.blob /\ g.toks = caller.toks
       /\ g.quots = caller.quots /\ g.done = Append(caller.done, result)
  BY <1>2 DEF Frames
<1>11. frames' = [PopFrame EXCEPT ![n - 1] = g]
  BY <1>2, <1>6
<1> HIDE DEF g
<1>12. GoodFrame(g)
  BY <1>3, <1>8, <1>9, <1>10 DEF GoodFrame
<1>13. FramesGood(frames')
  BY <1>1, <1>2, <1>11, <1>12, PopGood
<1>14. RowsLand(blobs')
  BY <1>6 DEF CodegenInv
<1>15. QED
  BY <1>6, <1>13, <1>14, StepKeeps

(* The quotations of the pending operation are good.                       *)
LEMMA ReadyGood ==
  ASSUME TypeInv, CodegenInv, NEW op \in {"mat", "if", "times", "until"}, Ready(op)
  PROVE  /\ Top \in Frames /\ frames # <<>> /\ FramesOK(frames) /\ frames \in Seq(Frames)
         /\ FramesGood(frames) /\ GoodFrame(Top)
         /\ \A k \in 1..QuotsTaken(op) : Top.done[k] \in Compiled /\ GoodCode(Top.done[k])
<1>1. /\ Top \in Frames /\ frames # <<>> /\ FramesOK(frames) /\ frames \in Seq(Frames)
      /\ FramesGood(frames) /\ Len(Top.done) = QuotsTaken(op)
      /\ \A k \in 1..QuotsTaken(op) : Top.done[k] \in Compiled
  BY ReadyFacts DEF FramesOK, CodegenInv
<1>2. GoodFrame(Top)
  BY <1>1, TopGood
<1>3. \A k \in 1..QuotsTaken(op) : GoodCode(Top.done[k])
  BY <1>1, <1>2 DEF GoodFrame
<1>4. QED
  BY <1>1, <1>2, <1>3

LEMMA FinishMaterializeGood ==
  ASSUME TypeInv, CodegenInv, FinishMaterialize
  PROVE  CodegenInv'
<1> DEFINE code  == CodeData(Top.done[1].blob)
           cid   == CidOf(blobs, code)
           cell  == Lit(0)
           item  == Ref(BLOB_QUOTATION, cid)
           types == PushTypes(Top.types, <<"ptr">>)
           g     == [Top EXCEPT !.cells = Append(@, cell), !.blob = Append(@, item),
                                !.types = types,
                                !.op = "none", !.quots = <<>>, !.done = <<>>]
<1>1. /\ Top \in Frames /\ frames # <<>> /\ FramesOK(frames) /\ frames \in Seq(Frames)
      /\ FramesGood(frames) /\ GoodFrame(Top)
      /\ Top.done[1] \in Compiled /\ GoodCode(Top.done[1])
  BY ReadyGood DEF FinishMaterialize, QuotsTaken
<1>2. Top.done[1].blob \in Seq(Items) /\ Landing(Top.done[1].blob)
  BY <1>1 DEF Compiled, GoodCode
<1>3. code \in Data /\ BLOB_QUOTATION \in Kinds /\ GoodData(code)
  BY <1>2, DataTyped, DataLands, KindsTyped, SpellingAssumption
<1>4. blobs \in Seq(Rows) /\ RowsLand(blobs)
  BY DEF TypeInv, TypeOK, CodegenInv
<1>5. blobs' = StoreBlob(blobs, BLOB_QUOTATION, code) /\ UNCHANGED <<sourceVars, quotStack>>
  BY DEF FinishMaterialize
<1> HIDE DEF code
<1>6. RowsLand(blobs')
  BY <1>3, <1>4, <1>5, StoreLands
<1>7. cid \in Nat
  <2>1. /\ StoreBlob(blobs, BLOB_QUOTATION, code) \in Seq(Rows)
        /\ cid \in 1..Len(StoreBlob(blobs, BLOB_QUOTATION, code))
    BY <1>3, <1>4, StoreBlobTyped
  <2>2. QED
    BY <2>1, LenProperties
<1> HIDE DEF cid
<1>8. CASE quotRefs >= MaxQuotRefs
  <2>1. UNCHANGED frames
    BY <1>8 DEF FinishMaterialize
  <2>2. QED
    BY <1>1, <1>5, <1>6, <2>1, StepKeeps
<1>9. CASE ~(quotRefs >= MaxQuotRefs)
  <2>1. frames' = SetTop(g)
    BY <1>9 DEF FinishMaterialize, code, cid
  <2>2. cell \in Cells /\ item \in Items
    BY <1>3, <1>7, CellsTyped, ItemsTyped, SpellingAssumption
  <2>3. InStep(<<cell>>, <<item>>) /\ Landing(<<item>>)
    BY ReferenceGood
  <2> HIDE DEF cell, item, types
  <2>4. <<cell>> \in Seq(Cells) /\ <<item>> \in Seq(Items)
    BY <2>2
  <2>5. InStep(Top.cells \o <<cell>>, Top.blob \o <<item>>) /\ Landing(Top.blob \o <<item>>)
    BY <1>1, <2>3, <2>4, AppendGood
  <2>6. Top.cells \in Seq(Cells) /\ Top.blob \in Seq(Items)
    BY <1>1 DEF Frames
  <2>7. /\ Append(Top.cells, cell) = Top.cells \o <<cell>>
        /\ Append(Top.blob, item) = Top.blob \o <<item>>
    BY <2>2, <2>6, AppendIsConcat
  <2>8. /\ g.cells = Append(Top.cells, cell) /\ g.blob = Append(Top.blob, item)
        /\ g.toks = Top.toks /\ g.quots = <<>> /\ g.done = <<>>
    BY <1>1 DEF Frames
  <2> HIDE DEF g
  <2>9. <<>> \in Seq(WrittenQuotations) /\ Len(<<>>) = 0
    BY EmptySeq
  <2>10. \A k \in 1..Len(g.done) : GoodCode(g.done[k])
    BY <2>8, <2>9
  <2>11. GoodFrame(g)
    BY <1>1, <2>5, <2>7, <2>8, <2>9, <2>10 DEF GoodFrame
  <2>12. FramesGood(frames')
    BY <1>1, <2>1, <2>11, SetTopGood
  <2>13. QED
    BY <1>5, <1>6, <2>12, StepKeeps
<1>10. QED
  BY <1>8, <1>9

(* A step that completes a pending operation.                              *)
LEMMA CompleteGood ==
  ASSUME TypeInv, CodegenInv, NEW op \in {"if", "times", "until"}, Ready(op),
         NEW cells \in Seq(Cells), NEW items \in Seq(Items), NEW types,
         InStep(cells, items), Landing(items),
         frames' = SetTop(Emit(Top, cells, items, types)),
         UNCHANGED <<sourceVars, quotStack, blobs>>
  PROVE  CodegenInv'
<1>1. /\ Top \in Frames /\ frames # <<>> /\ frames \in Seq(Frames)
      /\ FramesGood(frames) /\ GoodFrame(Top)
  BY ReadyGood
<1>2. Top.toks # <<>>
  BY ReadyFacts
<1>3. GoodFrame(Emit(Top, cells, items, types))
  BY <1>1, <1>2, EmitGood
<1>4. FramesGood(frames')
  BY <1>1, <1>3, SetTopGood
<1>5. RowsLand(blobs')
  BY DEF CodegenInv
<1>6. QED
  BY <1>4, <1>5, StepKeeps

LEMMA CompileControlGood ==
  ASSUME TypeInv, CodegenInv, CompileIf \/ CompileTimes \/ CompileTimesUntil
  PROVE  CodegenInv'
<1> DEFINE pos == Len(Top.cells)
           d1  == Top.done[1]
           d2  == Top.done[2]
<1>1. dict \in Seq(Entries) /\ NoUserPrimitives
  BY DEF TypeInv, TypeOK, CodegenInv
<1>2. QuotsTaken("if") = 2 /\ QuotsTaken("until") = 2 /\ QuotsTaken("times") = 1
  BY DEF QuotsTaken
<1>3. CASE CompileIf
  <2>1. Ready("if")
    BY <1>3 DEF CompileIf
  <2>2. d1 \in Compiled /\ d2 \in Compiled /\ pos \in Nat
    BY <1>2, <2>1, ReadyFacts
  <2>3. GoodCode(d1) /\ GoodCode(d2)
    BY <1>2, <2>1, ReadyGood
  <2>4. IfCells(pos, d1, d2) \in Seq(Cells) /\ IfItems(d1, d2) \in Seq(Items)
    BY <1>1, <2>2, IfTyped
  <2>5. InStep(IfCells(pos, d1, d2), IfItems(d1, d2)) /\ Landing(IfItems(d1, d2))
    BY <1>1, <2>2, <2>3, IfInStep, IfLands DEF Landing, GoodCode
  <2>6. frames' = SetTop(Emit(Top, IfCells(pos, d1, d2), IfItems(d1, d2),
                              PushTypes(Top.types, d1.outs)))
        /\ UNCHANGED <<sourceVars, quotStack, blobs>>
    BY <1>3 DEF CompileIf
  <2>7. QED
    BY <2>1, <2>4, <2>5, <2>6, CompleteGood
<1>4. CASE CompileTimes
  <2>1. Ready("times")
    BY <1>4 DEF CompileTimes
  <2>2. d1 \in Compiled /\ pos \in Nat
    BY <1>2, <2>1, ReadyFacts
  <2>3. GoodCode(d1)
    BY <1>2, <2>1, ReadyGood
  <2>4. TimesCells(pos, d1) \in Seq(Cells) /\ TimesItems(d1) \in Seq(Items)
    BY <1>1, <2>2, TimesTyped
  <2>5. InStep(TimesCells(pos, d1), TimesItems(d1)) /\ Landing(TimesItems(d1))
    BY <1>1, <2>2, <2>3, TimesInStep, TimesLands DEF Landing, GoodCode
  <2>6. frames' = SetTop(Emit(Top, TimesCells(pos, d1), TimesItems(d1), Top.types))
        /\ UNCHANGED <<sourceVars, quotStack, blobs>>
    BY <1>4 DEF CompileTimes
  <2>7. QED
    BY <2>1, <2>4, <2>5, <2>6, CompleteGood
<1>5. CASE CompileTimesUntil
  <2>1. Ready("until")
    BY <1>5 DEF CompileTimesUntil
  <2>2. d1 \in Compiled /\ d2 \in Compiled /\ pos \in Nat
    BY <1>2, <2>1, ReadyFacts
  <2>3. GoodCode(d1) /\ GoodCode(d2)
    BY <1>2, <2>1, ReadyGood
  <2>4. UntilCells(pos, d1, d2) \in Seq(Cells) /\ UntilItems(d1, d2) \in Seq(Items)
    BY <1>1, <2>2, UntilTyped
  <2>5. InStep(UntilCells(pos, d1, d2), UntilItems(d1, d2)) /\ Landing(UntilItems(d1, d2))
    BY <1>1, <2>2, <2>3, UntilInStep, UntilLands DEF Landing, GoodCode
  <2>6. frames' = SetTop(Emit(Top, UntilCells(pos, d1, d2), UntilItems(d1, d2), Top.types))
        /\ UNCHANGED <<sourceVars, quotStack, blobs>>
    BY <1>5 DEF CompileTimesUntil
  <2>7. QED
    BY <2>1, <2>4, <2>5, <2>6, CompleteGood
<1>6. QED
  BY <1>3, <1>4, <1>5

-----------------------------------------------------------------------------
(* Preserved by the other immediate words.                                 *)

LEMMA CompileBoolGood ==
  ASSUME TypeInv, CodegenInv, CompileBool
  PROVE  CodegenInv'
<1> DEFINE n == IF Tok.s = "true" THEN -1 ELSE 0
<1>1. AtToken /\ EmitLiteral(n, PushTypes(Top.types, <<"i64">>)) /\ n \in Int
  BY DEF CompileBool, AtImmediate, AtResolved, AtWord
<1> HIDE DEF n
<1>2. QED
  BY <1>1, EmitLiteralGood

LEMMA CompileStackWordGood ==
  ASSUME TypeInv, CodegenInv, CompileStackWord
  PROVE  CodegenInv'
<1>1. AtToken /\ Tok.t = "word"
  BY DEF CompileStackWord, AtImmediate, AtResolved, AtWord
<1>2. CASE Fail
  BY <1>2, FailGood
<1>3. CASE ~Fail
  <2>1. /\ frames' = SetTop(Emit(Top, <<XtOf(Tok.s)>>, <<PrimOf(Tok.s)>>,
                                 StackEffect(Tok.s, Top.types)))
        /\ UNCHANGED <<sourceVars, quotStack, blobs>>
    BY <1>3 DEF CompileStackWord
  <2>2. QED
    BY <1>1, <2>1, EmitNamedGood
<1>4. QED
  BY <1>2, <1>3
-----------------------------------------------------------------------------
(* Preserved by reading a source file.                                     *)

LEMMA HeadWritten ==
  ASSUME CodegenInv, src # <<>>
  PROVE  Head(src) \in Written /\ Tail(src) \in Seq(Written)
BY HeadTailProperties DEF CodegenInv, SourceWritten

(* What is compiled stays as it is.                                        *)
LEMMA ReadKeeps ==
  ASSUME CodegenInv, UNCHANGED compileVars, SourceWritten', NoUserPrimitives'
  PROVE  CodegenInv'
<1>1. UNCHANGED <<blobs, frames>>
  BY DEF compileVars
<1>2. RowsLand(blobs)' /\ FramesGood(frames)'
  BY <1>1 DEF CodegenInv, RowsLand, FramesGood
<1>3. QED
  BY <1>2 DEF CodegenInv

LEMMA CaptureTokenGood ==
  ASSUME TypeInv, CodegenInv, CaptureToken
  PROVE  CodegenInv'
<1> DEFINE n == Len(quotStack)
           q == [quotStack[n] EXCEPT !.toks = Append(@, Head(src))]
<1>1. Head(src) \in Written /\ RestOfDefinition \in Seq(Written)
  <2>1. Head(src) \in Written /\ Tail(src) \in Seq(Written)
    BY HeadWritten DEF CaptureToken, At
  <2>2. Mark(";") \in TokenSet /\ Mark(";").t = ";"
    BY PlaceholderTyped, SpellingAssumption DEF Mark, Token, TokenSet
  <2>3. Mark(";") \in Written
    BY <2>2 DEF Written, PlainTokens, StringFreeTokens
  <2>4. \A m \in Written : <<m>> \in Seq(Written)
    OBVIOUS
  <2>5. <<Mark(";")>> \o Tail(src) \in Seq(Written)
    BY <2>1, <2>3, <2>4, ConcatProperties
  <2>6. QED
    BY <2>1, <2>5 DEF RestOfDefinition
<1>2. /\ current \in Currents /\ quotStack \in Seq(WrittenQuotations)
      /\ current.toks \in Seq(Written) /\ n \in Nat
  BY LenProperties DEF CodegenInv, SourceWritten, TypeInv, TypeOK
<1>3. src' = RestOfDefinition /\ UNCHANGED <<dict, defs>> /\ UNCHANGED compileVars
  BY DEF CaptureToken
<1>4. NoUserPrimitives'
  BY <1>3 DEF CodegenInv, NoUserPrimitives
<1>5. current'.toks \in Seq(Written)
  <2>1. CASE bufDepth > 0
    BY <1>2, <2>1 DEF CaptureToken
  <2>2. CASE ~(bufDepth > 0)
    <3> DEFINE toks == Append(current.toks, Head(src))
    <3>1. toks \in Seq(Written)
      BY <1>1, <1>2, AppendProperties
    <3>2. current' = [current EXCEPT !.toks = toks]
      BY <2>2 DEF CaptureToken
    <3> HIDE DEF toks
    <3>3. current'.toks = toks
      BY <1>2, <3>2 DEF Currents
    <3>4. QED
      BY <3>1, <3>3
  <2>3. QED
    BY <2>1, <2>2
<1>6. quotStack' \in Seq(WrittenQuotations)
  <2>1. CASE bufDepth > 0 /\ n # 0
    <3>1. n \in 1..Len(quotStack)
      BY <1>2, <2>1
    <3>2. quotStack[n] \in WrittenQuotations
      BY <1>2, <3>1, ElementOfSeq
    <3>3. q \in WrittenQuotations
      BY <1>1, <3>2, AppendProperties DEF WrittenQuotations
    <3>4. quotStack' = [quotStack EXCEPT ![n] = q]
      BY <2>1 DEF CaptureToken
    <3> HIDE DEF q
    <3>5. QED
      BY <1>2, <3>1, <3>3, <3>4, ExceptSeq
  <2>2. CASE bufDepth > 0 /\ n = 0
    <3>1. quotStack' = quotStack
      BY <1>2, <2>2, EmptySeq DEF CaptureToken
    <3>2. QED
      BY <1>2, <3>1
  <2>3. CASE ~(bufDepth > 0)
    BY <1>2, <2>3 DEF CaptureToken
  <2>4. QED
    BY <2>1, <2>2, <2>3
<1>7. SourceWritten'
  BY <1>1, <1>3, <1>5, <1>6 DEF CodegenInv, SourceWritten
<1>8. QED
  BY <1>3, <1>4, <1>7, ReadKeeps

LEMMA EndDefinitionGood ==
  ASSUME TypeInv, CodegenInv, EndDefinition
  PROVE  CodegenInv'
<1> DEFINE d == [name |-> current.name, toks |-> current.toks]
           e == Entry(current.name, Sig(current.ins, current.outs), "word",
                      NoName, NoName, Len(defs) + 1)
<1>1. /\ src \in Seq(Written) /\ current.toks \in Seq(Written)
      /\ quotStack \in Seq(WrittenQuotations)
      /\ defs \in Seq(Defs) /\ Len(defs) \in Nat /\ dict \in Seq(Entries) /\ Len(dict) \in Nat
      /\ current \in Currents
  BY LenProperties DEF CodegenInv, SourceWritten, TypeInv, TypeOK
<1>2. src' \in Seq(Written)
  BY <1>1, HeadTailProperties DEF EndDefinition
<1>3. /\ dict' = <<e>> \o dict /\ defs' = Append(defs, d) /\ current' = NoCurrent
      /\ UNCHANGED quotStack /\ UNCHANGED compileVars
  BY DEF EndDefinition
<1>4. \A i \in 1..Len(defs') : defs'[i].toks \in Seq(Written)
  <2>1. d \in Defs /\ d.toks = current.toks
    BY <1>1 DEF Currents, Defs
  <2> HIDE DEF d
  <2>2. /\ Len(Append(defs, d)) = Len(defs) + 1
        /\ Append(defs, d)[Len(defs) + 1] = d
        /\ \A i \in 1..Len(defs) : Append(defs, d)[i] = defs[i]
    BY <1>1, <2>1, AppendProperties
  <2>3. \A i \in 1..Len(defs) : defs[i].toks \in Seq(Written)
    BY DEF CodegenInv, SourceWritten
  <2>4. QED
    BY <1>1, <1>3, <2>1, <2>2, <2>3
<1>5. SourceWritten'
  <2>1. NoCurrent.toks \in Seq(Written)
    BY EmptySeq DEF NoCurrent
  <2>2. QED
    BY <1>1, <1>2, <1>3, <1>4, <2>1 DEF SourceWritten
<1>6. NoUserPrimitives'
  <2>1. e.prim = NoName
    BY DEF Entry
  <2> HIDE DEF e
  <2>2. <<e>> \in Seq(Entries \cup {e}) /\ dict \in Seq(Entries \cup {e})
    BY <1>1
  <2>3. Len(<<e>>) = 1 /\ <<e>>[1] = e
    OBVIOUS
  <2>4. /\ Len(<<e>> \o dict) = Len(dict) + 1
        /\ \A i \in 1..Len(dict) + 1 : (<<e>> \o dict)[i] = IF i <= 1 THEN e ELSE dict[i - 1]
    BY <1>1, <2>2, <2>3, ConcatProperties
  <2>5. ASSUME NEW i \in 1..Len(dict')
        PROVE  dict'[i].prim = NoName
    <3>1. CASE i <= 1
      BY <1>3, <2>1, <2>4, <3>1
    <3>2. CASE ~(i <= 1)
      <4>1. i - 1 \in 1..Len(dict) /\ i \in 1..Len(dict) + 1
        BY <1>1, <1>3, <2>4, <3>2
      <4>2. dict[i - 1].prim = NoName
        BY <4>1 DEF CodegenInv, NoUserPrimitives
      <4>3. QED
        BY <1>3, <2>4, <3>2, <4>1, <4>2
    <3>3. QED
      BY <3>1, <3>2
  <2>6. QED
    BY <2>5 DEF NoUserPrimitives
<1>7. QED
  BY <1>3, <1>5, <1>6, ReadKeeps

LEMMA ReadSourceGood ==
  ASSUME TypeInv, CodegenInv, ReadSource
  PROVE  CodegenInv'
<1>1. CASE CompileTypeSigDecl \/ SkipToken \/ CompileRparen \/ EndOfFile
  <2>1. src' \in Seq(Written)
    BY <1>1, HeadWritten
       DEF CompileTypeSigDecl, SkipToken, CompileRparen, EndOfFile, At, sourceVars,
           CodegenInv, SourceWritten
  <2>2. UNCHANGED <<dict, defs, current, quotStack>> /\ UNCHANGED compileVars
    BY <1>1 DEF CompileTypeSigDecl, SkipToken, CompileRparen, EndOfFile, sourceVars
  <2>3. SourceWritten' /\ NoUserPrimitives'
    BY <2>1, <2>2 DEF CodegenInv, SourceWritten, NoUserPrimitives
  <2>4. QED
    BY <2>2, <2>3, ReadKeeps
<1>2. CASE SourceError \/ ParenError \/ TooManyDefinitions
  BY <1>2, FailGood DEF SourceError, ParenError, TooManyDefinitions
<1>3. CASE BeginDefinition
  <2>1. src \in Seq(Written) /\ Len(src) \in Nat /\ Len(src) >= 2
    BY <1>3, LenProperties DEF BeginDefinition, HasName, CodegenInv, SourceWritten
  <2>2. src # <<>>
    BY <2>1, EmptySeq
  <2> DEFINE rest == Tail(src)
  <2>3. rest \in Seq(Written) /\ Len(rest) = Len(src) - 1
    BY <2>1, <2>2, HeadTailProperties
  <2> HIDE DEF rest
  <2>4. rest # <<>>
    BY <2>1, <2>3, EmptySeq
  <2>5. Tail(rest) \in Seq(Written)
    BY <2>3, <2>4, HeadTailProperties
  <2>6. src' = Tail(rest) /\ current'.toks = <<>>
        /\ UNCHANGED <<dict, defs, quotStack>> /\ UNCHANGED compileVars
    BY <1>3 DEF BeginDefinition, rest
  <2>7. <<>> \in Seq(Written)
    BY EmptySeq
  <2>8. SourceWritten' /\ NoUserPrimitives'
    BY <2>5, <2>6, <2>7 DEF CodegenInv, SourceWritten, NoUserPrimitives
  <2>9. QED
    BY <2>6, <2>8, ReadKeeps
<1>4. CASE CompileLparen
  <2> DEFINE q == [toks |-> <<>>, home |-> Len(defs) + 1]
  <2>1. src' \in Seq(Written)
    BY <1>4, HeadWritten DEF CompileLparen, At
  <2>2. /\ quotStack' = Append(quotStack, q)
        /\ UNCHANGED <<dict, defs, current>> /\ UNCHANGED compileVars
    BY <1>4 DEF CompileLparen
  <2>3. q \in WrittenQuotations
    <3>1. Len(defs) + 1 \in Nat /\ <<>> \in Seq(Written)
      BY LenProperties, EmptySeq DEF TypeInv, TypeOK
    <3>2. QED
      BY <3>1 DEF WrittenQuotations
  <2> HIDE DEF q
  <2>4. quotStack \in Seq(WrittenQuotations)
    BY DEF CodegenInv, SourceWritten
  <2>5. quotStack' \in Seq(WrittenQuotations)
    BY <2>2, <2>3, <2>4, AppendProperties
  <2>6. SourceWritten' /\ NoUserPrimitives'
    BY <2>1, <2>2, <2>5 DEF CodegenInv, SourceWritten, NoUserPrimitives
  <2>7. QED
    BY <2>2, <2>6, ReadKeeps
<1>5. QED
  BY <1>1, <1>2, <1>3, <1>4, CaptureTokenGood, EndDefinitionGood DEF ReadSource

-----------------------------------------------------------------------------
(* Preserved by the runner and by restarts.                                *)

LEMMA FinishRunGood ==
  ASSUME TypeInv, CodegenInv, FinishRun
  PROVE  CodegenInv'
<1> DEFINE code == CodeData(Top.blob)
           cid  == CidOf(blobs, code)
           e    == [dict[target] EXCEPT !.cid = cid]
<1>1. /\ Idle /\ blobs' = StoreBlob(blobs, BLOB_WORD, code) /\ frames' = <<>>
      /\ dict' = [dict EXCEPT ![target].cid = cid]
      /\ UNCHANGED <<defs, current, src, quotStack>>
  BY DEF FinishRun, WordDone
<1>2. /\ Top.blob \in Seq(Items) /\ Top \in Frames /\ frames # <<>> /\ FramesOK(frames)
      /\ FramesGood(frames) /\ RowsLand(blobs) /\ blobs \in Seq(Rows)
  BY <1>1, IdleFacts DEF CodegenInv, TypeInv, TypeOK
<1>3. Landing(Top.blob)
  BY <1>2, TopGood DEF GoodFrame
<1>4. code \in Data /\ BLOB_WORD \in Kinds /\ GoodData(code)
  BY <1>2, <1>3, DataTyped, DataLands, KindsTyped, SpellingAssumption
<1> HIDE DEF code
<1>5. RowsLand(blobs')
  BY <1>1, <1>2, <1>4, StoreLands
<1> HIDE DEF cid
<1>6. NoUserPrimitives'
  <2>1. dict \in Seq(Entries) /\ Len(dict) \in Nat
    BY LenProperties DEF TypeInv, TypeOK
  <2>2. CASE target \in 1..Len(dict)
    <3>1. dict[target] \in Entries /\ dict[target].prim = NoName
      BY <2>1, <2>2, ElementOfSeq DEF CodegenInv, NoUserPrimitives
    <3>2. e.prim = NoName
      BY <3>1 DEF Entries
    <3> DEFINE T == Entries \cup {e}
    <3>3. dict \in Seq(T) /\ e \in T
      BY <2>1
    <3> HIDE DEF e, T
    <3>4. dict' = [dict EXCEPT ![target] = e]
      BY <1>1 DEF e
    <3>5. /\ Len(dict') = Len(dict)
          /\ \A i \in 1..Len(dict) : dict'[i] = IF i = target THEN e ELSE dict[i]
      BY <2>2, <3>3, <3>4, ExceptSeq
    <3>6. QED
      BY <3>2, <3>5 DEF CodegenInv, NoUserPrimitives
  <2>3. CASE target \notin 1..Len(dict)
    <3>1. dict' = dict
      BY <1>1, <2>1, <2>3
    <3>2. QED
      BY <3>1 DEF CodegenInv, NoUserPrimitives
  <2>4. QED
    BY <2>2, <2>3
<1>7. SourceWritten'
  BY <1>1 DEF CodegenInv, SourceWritten
<1>8. FramesGood(<<>>)
  BY DEF FramesGood
<1>9. RowsLand(blobs)' /\ FramesGood(frames)'
  BY <1>1, <1>5, <1>8 DEF RowsLand, FramesGood
<1>10. QED
  BY <1>6, <1>7, <1>9 DEF CodegenInv

LEMMA RunnerCompileGood ==
  ASSUME TypeInv, CodegenInv, NEW name \in Names, RunnerCompile(name)
  PROVE  CodegenInv'
<1> DEFINE i     == DictIndex(name)
           entry == dict[i]
<1>1. dict \in Seq(Entries) /\ Len(dict) \in Nat /\ DictOK
  BY LenProperties DEF TypeInv, TypeOK
<1>2. i \in 1..Len(dict)
  <2> DEFINE S == {k \in 1..Len(dict) : dict[k].name = name}
  <2>1. S \subseteq Nat /\ S # {}
    BY DEF RunnerCompile, IsUserWord
  <2>2. FirstOf(S) \in S
    BY <2>1, FirstOfTyped
  <2>3. QED
    BY <2>2 DEF DictIndex
<1> HIDE DEF i
<1>3. entry.def \in 1..Len(defs)
  BY <1>1, <1>2 DEF DictOK
<1>4. defs[entry.def].toks \in Seq(Written)
  BY <1>3 DEF CodegenInv, SourceWritten
<1>5. PICK ins \in [1..Len(entry.ins) -> GarbageTypes] :
        frames' = <<NewFrame(entry.def, ins, PushTypes(<<>>, ins), defs[entry.def].toks)>>
  BY DEF RunnerCompile, i
<1> DEFINE h == NewFrame(entry.def, ins, PushTypes(<<>>, ins), defs[entry.def].toks)
<1>6. GoodFrame(h) /\ frames' = <<h>>
  BY <1>4, <1>5, NewFrameGood
<1> HIDE DEF h
<1>7. FramesGood(<<h>>)
  <2>1. Len(<<h>>) = 1 /\ <<h>>[1] = h
    OBVIOUS
  <2>2. QED
    BY <1>6, <2>1 DEF FramesGood
<1>8. UNCHANGED <<sourceVars, quotStack, blobs>>
  BY DEF RunnerCompile
<1>9. FramesGood(frames') /\ RowsLand(blobs')
  BY <1>6, <1>7, <1>8 DEF CodegenInv
<1>10. QED
  BY <1>8, <1>9, StepKeeps

LEMMA RunnerGood ==
  ASSUME TypeInv, CodegenInv, RunnerExecute \/ RunDone
  PROVE  CodegenInv'
<1>1. CASE RunDone
  <2>1. UNCHANGED <<sourceVars, quotStack, blobs, frames>>
    BY <1>1 DEF RunDone, compileVars
  <2>2. FramesGood(frames') /\ RowsLand(blobs')
    BY <2>1 DEF CodegenInv
  <2>3. QED
    BY <2>1, <2>2, StepKeeps
<1>2. ASSUME NEW name \in Names, RunnerLink(name)
      PROVE  CodegenInv'
  <2>1. UNCHANGED <<sourceVars, quotStack, blobs, frames>>
    BY <1>2 DEF RunnerLink
  <2>2. FramesGood(frames') /\ RowsLand(blobs')
    BY <2>1 DEF CodegenInv
  <2>3. QED
    BY <2>1, <2>2, StepKeeps
<1>3. ASSUME NEW name \in Names, RunnerError(name)
      PROVE  CodegenInv'
  BY <1>3, FailGood DEF RunnerError
<1>4. QED
  BY <1>1, <1>2, <1>3, RunnerCompileGood DEF RunnerExecute

LEMMA CompileStepGood ==
  ASSUME TypeInv, CodegenInv, CompileStep
  PROVE  CodegenInv'
<1>1. CASE CompileNumber
  <2> DEFINE types == PushTypes(Top.types, <<"i64">>)
  <2>1. AtToken /\ EmitLiteral(Tok.n, types)
    BY <1>1 DEF CompileNumber
  <2>2. Tok.n \in Int
    BY <2>1, AtTokenFacts
  <2> HIDE DEF types
  <2>3. QED
    BY <2>1, <2>2, EmitLiteralGood
<1>2. CASE UnexpectedToken \/ ArrayError \/ WordError \/ ControlError
  BY <1>2, FailGood DEF UnexpectedToken, ArrayError, WordError, ControlError
<1>3. QED
  BY <1>1, <1>2, CompileStringGood, CompileLbracketGood, CompileRbracketGood,
     EmitArrayGood, CompilePrimitiveGood, CallHitGood, CallMissGood, FinishCallGood,
     BeginGood, EnterQuotationGood, FinishQuotationGood, FinishMaterializeGood,
     CompileBoolGood, CompileStackWordGood, CompileControlGood, FinishRunGood
     DEF CompileStep

LEMMA FreshGood ==
  /\ NoCurrent.toks \in Seq(Written) /\ <<>> \in Seq(WrittenQuotations) /\ Len(<<>>) = 0
  /\ RowsLand(<<>>) /\ FramesGood(<<>>)
BY EmptySeq DEF NoCurrent, RowsLand, FramesGood

LEMMA RestartGood ==
  ASSUME TypeInv, CodegenInv, Restart
  PROVE  CodegenInv'
<1>1. /\ dict' = <<>> /\ defs' = <<>> /\ quotStack' = <<>> /\ current' = NoCurrent
      /\ frames' = <<>> /\ src' \in Sources /\ blobs' = blobs
  BY DEF Restart
<1>2. SourceWritten' /\ NoUserPrimitives'
  BY <1>1, FreshGood, SourcesWritten DEF SourceWritten, NoUserPrimitives
<1>3. RowsLand(blobs)' /\ FramesGood(frames)'
  BY <1>1, FreshGood DEF CodegenInv, RowsLand, FramesGood
<1>4. QED
  BY <1>2, <1>3 DEF CodegenInv

LEMMA InitGood == Init => CodegenInv
<1> SUFFICES ASSUME Init PROVE CodegenInv
  OBVIOUS
<1>1. /\ dict = <<>> /\ defs = <<>> /\ quotStack = <<>> /\ current = NoCurrent
      /\ frames = <<>> /\ src \in Sources /\ blobs = <<>>
  BY DEF Init
<1>2. SourceWritten /\ NoUserPrimitives
  BY <1>1, FreshGood, SourcesWritten DEF SourceWritten, NoUserPrimitives
<1>3. RowsLand(blobs) /\ FramesGood(frames)
  BY <1>1, FreshGood
<1>4. QED
  BY <1>2, <1>3 DEF CodegenInv

LEMMA NextGood == TypeInv /\ CodegenInv /\ [Next]_vars => CodegenInv'
<1> SUFFICES ASSUME TypeInv, CodegenInv, [Next]_vars PROVE CodegenInv'
  OBVIOUS
<1>1. CASE UNCHANGED vars
  <2>1. UNCHANGED <<sourceVars, quotStack, blobs, frames>>
    BY <1>1 DEF vars, sourceVars
  <2>2. FramesGood(frames') /\ RowsLand(blobs')
    BY <2>1 DEF CodegenInv
  <2>3. QED
    BY <2>1, <2>2, StepKeeps
<1>2. QED
  BY <1>1, ReadSourceGood, CompileStepGood, RunnerGood, RestartGood DEF Next

LEMMA GoodIsInStep == CodegenInv => EncodingsInStep
BY DEF CodegenInv, FramesGood, GoodFrame, GoodCode, EncodingsInStep

LEMMA GoodLands == CodegenInv => (NoRawBranches => BranchesLand)
BY DEF CodegenInv, RowsLand, GoodData, Landing, BranchesLand

(* In every compilation in progress, and in every quotation waiting to be  *)
(* inlined, there is one legacy cell for each item, and the same literal:  *)
(* the offsets that compile_if, compile_times and compile_times_until take *)
(* from the cells are right for the items, however deeply control          *)
(* structures and array literals are nested.                               *)
THEOREM EncodingsStayInStep == Spec => []EncodingsInStep
<1>1. Init => TypeInv /\ CodegenInv
  BY InitTyped, InitGood
<1>2. TypeInv /\ CodegenInv /\ [Next]_vars => (TypeInv /\ CodegenInv)'
  BY NextTyped, NextGood
<1>3. CodegenInv => EncodingsInStep
  BY GoodIsInStep
<1>4. QED
  BY <1>1, <1>2, <1>3, PTL DEF Spec

(* If no source file compiles `branch' or `0branch' itself, every branch   *)
(* that is ever stored is followed by its offset and lands on an           *)
(* instruction of the same word or quotation, or just past its end.        *)
THEOREM ControlFlowLands == NoRawBranches => (Spec => []BranchesLand)
<1> SUFFICES ASSUME NoRawBranches PROVE Spec => []BranchesLand
  OBVIOUS
<1>1. Init => TypeInv /\ CodegenInv
  BY InitTyped, InitGood
<1>2. TypeInv /\ CodegenInv /\ [Next]_vars => (TypeInv /\ CodegenInv)'
  BY NextTyped, NextGood
<1>3. CodegenInv => BranchesLand
  BY GoodLands
<1>4. QED
  BY <1>1, <1>2, <1>3, PTL DEF Spec

(* Without strings a row is code if and only if its kind says so.          *)
LEMMA FitsIsKind ==
  ASSUME NoStrings, StoreInv, CodegenInv
  PROVE  RefsFitRows
<1>1. ASSUME NEW r \in 1..Len(blobs)
      PROVE  blobs[r].kind \in CodeKinds <=> blobs[r].data.form = "code"
  <2>1. blobs[r] \in Rows
    BY ElementOfSeq DEF StoreInv, TypeInv, TypeOK
  <2>2. blobs[r].data.form \in {"lit", "str", "code"}
    BY <2>1 DEF Rows, Data
  <2>3. blobs[r].data.form # "str"
    BY DEF CodegenInv, RowsLand, GoodData
  <2>4. Suits(blobs[r].kind, blobs[r].data.form)
    BY DEF StoreInv, TableClosed
  <2>5. QED
    BY <2>2, <2>3, <2>4 DEF Suits
<1>2. ASSUME NEW r \in 1..Len(blobs),
             NEW i \in 1..Len(blobs[r].data.code), blobs[r].data.code[i].tag = "ref"
      PROVE  /\ blobs[r].data.code[i].n \in 1..Len(blobs)
             /\ FitsData(blobs[r].data.code[i].kind, blobs[blobs[r].data.code[i].n].data)
  BY <1>2 DEF StoreInv, TableClosed, ItemsFit
<1>3. QED
  BY <1>1, <1>2 DEF RefsFitRows, FitsData

(* If no source has a string, a call and a quotation that is pushed refer  *)
(* to rows of code, and a literal to a row of data, whichever process      *)
(* stored them, and for whatever purpose it first did; but a literal with  *)
(* the bytes of a word of four primitives (TagLiterals) has the row of     *)
(* that word, and a kind that is wrong for one of the two.                 *)
THEOREM ReferencesFitRows == NoStrings => (Spec => []RefsFitRows)
<1> SUFFICES ASSUME NoStrings PROVE Spec => []RefsFitRows
  OBVIOUS
<1>1. Init => StoreInv /\ CodegenInv
  BY StoreInit, InitGood
<1>2. StoreInv /\ CodegenInv /\ [Next]_vars => (StoreInv /\ CodegenInv)'
  BY StoreNext, NextGood DEF StoreInv
<1>3. StoreInv /\ CodegenInv => RefsFitRows
  BY FitsIsKind
<1>4. QED
  BY <1>1, <1>2, <1>3, PTL DEF Spec
=============================================================================
