------------------------------- MODULE Loader -------------------------------
(***************************************************************************)
(* The loader (src/src/loader.c): rows of the blob table become objects in *)
(* memory.  A row of code is linked item by item into cells that hold      *)
(* addresses; what an item refers to is linked first, recursively, and     *)
(* every CID is linked at most once, which the CID cache sees to.  The     *)
(* recursion of loader_link_cid is the sequence `links', innermost last;   *)
(* one cell is appended for each item, so the number of cells is also the  *)
(* place in the code that has been reached.                                *)
(*                                                                         *)
(* An address is the number of an object in `heap'.  A linked row of code  *)
(* has two addresses in the program, that of its cells and that of the     *)
(* DOCOL wrapper that leads to them; only the wrapper's is ever handed     *)
(* out, so they are one object here.                                       *)
(***************************************************************************)
EXTENDS Code

CONSTANT JunkWords  \* what the first eight bytes of a DOCOL wrapper may be

VARIABLES
  rows,   \* the blob table (BlobStore)
  cache,  \* cid_cache: CID -> address
  heap,   \* allocated_buffers and mmap_buffers
  links   \* calls of loader_link_code in progress

loaderVars == <<cache, heap, links>>

(* Runtime cells: a primitive, the wrapper of a word, a number, the        *)
(* address of a quotation, EXIT.                                           *)
RunPrim(p)    == [op |-> "prim", s |-> p,      n |-> 0]
RunCall(addr) == [op |-> "call", s |-> NoName, n |-> addr]
RunLit(n)     == [op |-> "lit",  s |-> NoName, n |-> n]
RunAddr(addr) == [op |-> "addr", s |-> NoName, n |-> addr]
RunExit       == [op |-> "exit", s |-> NoName, n |-> 0]
RunCells      == [op : {"prim", "call", "lit", "addr", "exit"}, s : STRING, n : Int]

(* What is in memory: linked code, a copy of a literal, or what decoding   *)
(* the bytes of a string as code happens to give.                          *)
CodeObject(cells) == [form |-> "code", cells |-> cells, n |-> 0]
DataObject(n)     == [form |-> "data", cells |-> <<>>,  n |-> n]
JunkObject        == [form |-> "junk", cells |-> <<>>,  n |-> 0]
Objects == [form : {"code", "data", "junk"}, cells : Seq(RunCells), n : Int]

NoCache == [cid \in {} |-> 0]

LoaderInit == cache = NoCache /\ heap = <<>> /\ links = <<>>

Linked(cid) == cid \in DOMAIN cache

(* Mutant of Allocate: the address is that of the next object. *)
AllocateNext(cid, o) ==
  /\ heap' = Append(heap, o)
  /\ cache' = [c \in DOMAIN cache \cup {cid} |-> IF c = cid THEN Len(heap) + 2 ELSE cache[c]]

(* Put object o in memory as the linked form of cid, into cache c. *)
Allocate(cid, o) ==
  /\ heap' = Append(heap, o)
  /\ cache' = [c \in DOMAIN cache \cup {cid} |-> IF c = cid THEN Len(heap) + 1 ELSE cache[c]]

(* loader_link_cid for a CID that is not in the cache. *)
LinkCid(cid, ls) ==
  /\ cid \in 1..Len(rows)
  /\ LET row == rows[cid] IN
     \/ /\ row.kind \in CodeKinds
        /\ row.data.form = "code"
        /\ links' = Append(ls, [cid |-> cid, cells |-> <<>>])
        /\ UNCHANGED <<cache, heap>>
     \/ /\ row.kind \in CodeKinds
        /\ row.data.form # "code"
        /\ Allocate(cid, JunkObject)
        /\ links' = ls
     \/ /\ row.kind = BLOB_DATA
        /\ Allocate(cid, DataObject(row.data.n))
        /\ links' = ls
  /\ UNCHANGED rows

(* The innermost call of loader_link_code and the item it is at. *)
Link     == links[Len(links)]
LinkCode == rows[Link.cid].data.code
AtItem   == links # <<>> /\ Len(Link.cells) < Len(LinkCode)
Item     == LinkCode[Len(Link.cells) + 1]

AppendCell(cell) ==
  /\ links' = [links EXCEPT ![Len(links)].cells = Append(@, cell)]
  /\ UNCHANGED <<rows, cache, heap>>

LinkPrim ==
  /\ AtItem
  /\ Item.tag = "prim"
  /\ AppendCell(RunPrim(Item.s))

LinkLit ==
  /\ AtItem
  /\ Item.tag = "lit"
  /\ AppendCell(RunLit(Item.n))

(* The eight bytes at an address. *)
WordAt(addr) == IF heap[addr].form = "data" THEN {heap[addr].n} ELSE JunkWords

(* Mutant of UseOf: a quotation is called, not pushed. *)
UseOfCalled(kind, addr) ==
  CASE kind \in CodeKinds -> {RunCall(addr)}
    [] kind = BLOB_DATA   -> {RunLit(w) : w \in WordAt(addr)}

(* The kind of the reference decides what is made of the address. *)
UseOf(kind, addr) ==
  CASE kind = BLOB_WORD      -> {RunCall(addr)}
    [] kind = BLOB_QUOTATION -> {RunAddr(addr)}
    [] kind = BLOB_DATA      -> {RunLit(w) : w \in WordAt(addr)}

(* A reference to something that is linked, or to something that is not:   *)
(* then that comes first.                                                  *)
LinkRef ==
  /\ AtItem
  /\ Item.tag = "ref"
  /\ Linked(Item.n)
  /\ \E cell \in UseOf(Item.kind, cache[Item.n]) : AppendCell(cell)

(* Mutant of LinkRefFirst: the cache is not asked. *)
LinkRefAgain ==
  /\ AtItem
  /\ Item.tag = "ref"
  /\ LinkCid(Item.n, links)

LinkRefFirst ==
  /\ AtItem
  /\ Item.tag = "ref"
  /\ ~Linked(Item.n)
  /\ LinkCid(Item.n, links)

(* All items are linked: EXIT, and into the cache. *)
LinkDone ==
  /\ links # <<>>
  /\ ~AtItem
  /\ Allocate(Link.cid, CodeObject(Append(Link.cells, RunExit)))
  /\ links' = SubSeq(links, 1, Len(links) - 1)
  /\ UNCHANGED rows

(* Decoding a string as code fails on most strings, and a failure fails    *)
(* the whole recursion.  What is in the cache stays there.  (A row that is *)
(* missing would fail too, but the table is closed under references.)      *)
LinkFail ==
  /\ AtItem
  /\ Item.tag = "ref"
  /\ ~Linked(Item.n)
  /\ rows[Item.n].kind \in CodeKinds
  /\ rows[Item.n].data.form # "code"
  /\ links' = <<>>
  /\ UNCHANGED <<rows, cache, heap>>

LinkStep == LinkPrim \/ LinkLit \/ LinkRef \/ LinkRefFirst \/ LinkDone

-----------------------------------------------------------------------------
(* Properties. *)

LoaderTypeOK ==
  /\ DOMAIN cache \subseteq Nat
  /\ \A cid \in DOMAIN cache : cache[cid] \in 1..Len(heap)
  /\ heap \in Seq(Objects)
  /\ links \in Seq([cid : Nat, cells : Seq(RunCells)])

(* Cell c is what item i must become, given the cache. *)
Relocated(c, i) ==
  CASE i.tag = "prim" -> c = RunPrim(i.s)
    [] i.tag = "lit"  -> c = RunLit(i.n)
    [] i.tag = "ref"  -> /\ Linked(i.n)
                         /\ i.kind = BLOB_WORD => c = RunCall(cache[i.n])
                         /\ i.kind = BLOB_QUOTATION => c = RunAddr(cache[i.n])
                         /\ i.kind = BLOB_DATA /\ rows[i.n].kind = BLOB_DATA
                              => c = RunLit(rows[i.n].data.n)

(* An address in the cache holds the row it was linked from, complete and  *)
(* with everything it refers to; this stays so while other rows are being  *)
(* linked, after a failure in the middle, and from one run to the next.    *)
CacheFaithful ==
  \A cid \in DOMAIN cache :
    LET o == heap[cache[cid]]
        code == rows[cid].data.code
    IN  o.form = "code" =>
          /\ Len(o.cells) = Len(code) + 1
          /\ o.cells[Len(o.cells)] = RunExit
          /\ \A i \in 1..Len(code) : Relocated(o.cells[i], code[i])

(* Each row is in memory at most once, and the recursion never meets a row *)
(* it is already linking: the references of rows form no cycle.            *)
LinkedOnce ==
  /\ \A c, d \in DOMAIN cache : cache[c] = cache[d] => c = d
  /\ \A i, j \in 1..Len(links) : i < j => links[j].cid < links[i].cid
  /\ \A i \in 1..Len(links) : ~Linked(links[i].cid)
=============================================================================
