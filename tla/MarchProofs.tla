----------------------------- MODULE MarchProofs -----------------------------
(***************************************************************************)
(* Loading and running: what is in the CID cache is the complete linked    *)
(* form of its row, and linking never meets a row it is in the middle of,  *)
(* for every source, every limit and any number of deaths of the process;  *)
(* and whatever a program does, no address or position within reach of the *)
(* machine lies outside memory.                                            *)
(***************************************************************************)
EXTENDS March, StoreProofs, InductionProofs

(* Any sequence. *)
IsSeq(s) == s \in Seq({s[i] : i \in DOMAIN s})

(* Cell c is what item i must become, given cache ca and table rows.       *)
Relocates(c, i, ca, rows) ==
  /\ i.tag = "prim" => c = L!RunPrim(i.s)
  /\ i.tag = "lit"  => c = L!RunLit(i.n)
  /\ i.tag = "ref"  => /\ i.n \in DOMAIN ca
                       /\ i.kind = BLOB_WORD => c = L!RunCall(ca[i.n])
                       /\ i.kind = BLOB_QUOTATION => c = L!RunAddr(ca[i.n])
                       /\ i.kind = BLOB_DATA /\ rows[i.n].kind = BLOB_DATA
                            => c = L!RunLit(rows[i.n].data.n)

(* Object o is what row cid must become: code is complete, and data are    *)
(* what a reference to them reads.                                         *)
GoodObject(o, cid, ca, rows) ==
  /\ o.form = "code" =>
       /\ Len(o.cells) = Len(rows[cid].data.code) + 1
       /\ o.cells[Len(o.cells)] = L!RunExit
       /\ \A i \in 1..Len(rows[cid].data.code) :
            Relocates(o.cells[i], rows[cid].data.code[i], ca, rows)
  /\ rows[cid].kind = BLOB_DATA => o = L!DataObject(rows[cid].data.n)

(* A call of loader_link_code in progress: the cells so far are what the   *)
(* first items of its row must become.                                     *)
GoodLink(l, ca, rows) ==
  /\ l = [cid |-> l.cid, cells |-> l.cells]
  /\ l.cid \in 1..Len(rows)
  /\ rows[l.cid].kind \in CodeKinds
  /\ IsSeq(l.cells)
  /\ Len(l.cells) <= Len(rows[l.cid].data.code)
  /\ \A i \in 1..Len(l.cells) : Relocates(l.cells[i], rows[l.cid].data.code[i], ca, rows)

(* Cache ca, heap hp and calls ls of the loader over table rows.  Calls    *)
(* further in link rows that were stored earlier, and none of them is in   *)
(* the cache yet.                                                          *)
MemoryOK(ca, hp, ls, rows) ==
  /\ IsSeq(hp) /\ IsSeq(ls)
  /\ \A cid \in DOMAIN ca :
       /\ cid \in 1..Len(rows)
       /\ ca[cid] \in 1..Len(hp)
       /\ GoodObject(hp[ca[cid]], cid, ca, rows)
  /\ \A c, d \in DOMAIN ca : ca[c] = ca[d] => c = d
  /\ \A i \in 1..Len(ls) : GoodLink(ls[i], ca, rows) /\ ls[i].cid \notin DOMAIN ca
  /\ \A i, j \in 1..Len(ls) : i < j => ls[j].cid < ls[i].cid

(* A row refers to rows stored before it. *)
RowsEarlier(rows) == \A r \in 1..Len(rows) : RefsBelow(rows[r].data.code, r - 1)

MarchInv ==
  /\ StoreInv
  /\ RowsEarlier(blobs)
  /\ MemoryOK(cache, heap, links, blobs)
  /\ vm # "idle" => phase = "link"

-----------------------------------------------------------------------------
(* Sequences of anything.                                                  *)

LEMMA AppendSeq ==
  ASSUME NEW s, NEW x, IsSeq(s)
  PROVE  /\ IsSeq(Append(s, x))
         /\ Len(s) \in Nat /\ Len(Append(s, x)) = Len(s) + 1
         /\ \A i \in 1..Len(s) : Append(s, x)[i] = s[i]
         /\ Append(s, x)[Len(s) + 1] = x
<1> DEFINE S == {s[i] : i \in DOMAIN s} \cup {x}
           a == Append(s, x)
<1>1. s \in Seq(S) /\ x \in S
  <2>1. Len(s) \in Nat /\ s \in [1..Len(s) -> {s[i] : i \in DOMAIN s}]
    BY LenProperties DEF IsSeq
  <2>2. s \in [1..Len(s) -> S]
    BY <2>1
  <2>3. QED
    BY <2>1, <2>2
<1> HIDE DEF S
<1>2. /\ a \in Seq(S) /\ Len(s) \in Nat /\ Len(a) = Len(s) + 1
      /\ \A i \in 1..Len(s) : a[i] = s[i]
      /\ a[Len(s) + 1] = x
  BY <1>1, AppendProperties, LenProperties
<1> HIDE DEF a
<1>3. Len(a) \in Nat /\ a \in [1..Len(a) -> S]
  BY <1>2, LenProperties
<1>4. a \in [1..Len(a) -> {a[i] : i \in DOMAIN a}]
  BY <1>3
<1>5. IsSeq(a)
  BY <1>3, <1>4 DEF IsSeq
<1>6. QED
  BY <1>2, <1>5 DEF a

LEMMA FrontSeq ==
  ASSUME NEW s, IsSeq(s), s # <<>>
  PROVE  LET f == SubSeq(s, 1, Len(s) - 1) IN
         /\ IsSeq(f)
         /\ Len(s) \in Nat /\ Len(s) > 0 /\ Len(f) = Len(s) - 1
         /\ \A i \in 1..Len(f) : f[i] = s[i]
<1> DEFINE S == {s[i] : i \in DOMAIN s}
           f == SubSeq(s, 1, Len(s) - 1)
<1>1. s \in Seq(S) /\ Len(s) \in Nat /\ Len(s) # 0
  BY LenProperties, EmptySeq DEF IsSeq
<1> HIDE DEF S
<1>2. /\ f \in Seq(S) /\ Len(f) = Len(s) - 1
      /\ \A i \in 1..Len(f) : f[i] = s[i]
  <2>1. \A i \in 1..Len(s) - 1 : s[i] \in S
    BY <1>1, ElementOfSeq
  <2>2. 1 \in Int /\ Len(s) - 1 \in Int /\ Len(s) - 1 - 1 + 1 = Len(s) - 1
    BY <1>1
  <2>3. /\ f \in Seq(S) /\ Len(f) = IF 1 <= Len(s) - 1 THEN Len(s) - 1 - 1 + 1 ELSE 0
        /\ \A i \in 1..Len(s) - 1 - 1 + 1 : f[i] = s[1 + i - 1]
    BY <2>1, <2>2, SubSeqProperties
  <2> HIDE DEF f, S
  <2>4. PICK n \in Nat : n = Len(s)
    BY <1>1
  <2>5. Len(f) = n - 1
    BY <1>1, <2>3, <2>4
  <2>6. \A i \in 1..n - 1 : i \in 1..n - 1 - 1 + 1 /\ 1 + i - 1 = i
    BY <2>4
  <2>7. \A i \in 1..n - 1 : f[i] = s[i]
    BY <2>3, <2>4, <2>6
  <2>8. QED
    BY <2>3, <2>4, <2>5, <2>7
<1> HIDE DEF f
<1>3. Len(f) \in Nat /\ f \in [1..Len(f) -> S]
  BY <1>2, LenProperties
<1>4. f \in [1..Len(f) -> {f[i] : i \in DOMAIN f}]
  BY <1>3
<1>5. IsSeq(f)
  BY <1>3, <1>4 DEF IsSeq
<1>6. QED
  BY <1>1, <1>2, <1>5 DEF f

LEMMA NothingSeq == IsSeq(<<>>) /\ Len(<<>>) = 0
<1>1. <<>> \in Seq({<<>>[i] : i \in DOMAIN <<>>})
  BY EmptySeq
<1>2. QED
  BY <1>1, EmptySeq DEF IsSeq

LEMMA SeqLength ==
  ASSUME NEW s, IsSeq(s)
  PROVE  Len(s) \in Nat /\ (s # <<>> => Len(s) \in 1..Len(s))
<1>1. Len(s) \in Nat /\ (Len(s) = 0 => s = <<>>)
  BY LenProperties, EmptySeq DEF IsSeq
<1>2. QED
  BY <1>1

-----------------------------------------------------------------------------
(* Memory as it grows.                                                     *)

(* Cache ca2 and table rows2 have what ca and rows had. *)
Extended(ca, rows, ca2, rows2) ==
  /\ \A cid \in DOMAIN ca : cid \in 1..Len(rows) /\ cid \in DOMAIN ca2 /\ ca2[cid] = ca[cid]
  /\ \A r \in 1..Len(rows) : r \in 1..Len(rows2) /\ rows2[r] = rows[r]

LEMMA RelocatesStays ==
  ASSUME NEW c, NEW i, NEW ca, NEW rows, NEW ca2, NEW rows2,
         Extended(ca, rows, ca2, rows2), Relocates(c, i, ca, rows)
  PROVE  Relocates(c, i, ca2, rows2)
BY DEF Extended, Relocates

LEMMA ObjectStays ==
  ASSUME NEW o, NEW ca, NEW rows, NEW ca2, NEW rows2, NEW cid \in 1..Len(rows),
         Extended(ca, rows, ca2, rows2), GoodObject(o, cid, ca, rows)
  PROVE  GoodObject(o, cid, ca2, rows2)
<1>1. rows2[cid] = rows[cid]
  BY DEF Extended
<1>2. QED
  BY <1>1, RelocatesStays DEF GoodObject

LEMMA LinkStays ==
  ASSUME NEW l, NEW ca, NEW rows, NEW ca2, NEW rows2,
         Extended(ca, rows, ca2, rows2), GoodLink(l, ca, rows)
  PROVE  GoodLink(l, ca2, rows2)
<1>1. l.cid \in 1..Len(rows2) /\ rows2[l.cid] = rows[l.cid]
  BY DEF Extended, GoodLink
<1>2. QED
  BY <1>1, RelocatesStays DEF GoodLink

(* The table grows. *)
LEMMA TableGrows ==
  ASSUME NEW ca, NEW hp, NEW ls, NEW rows, NEW rows2,
         MemoryOK(ca, hp, ls, rows),
         \A r \in 1..Len(rows) : r \in 1..Len(rows2) /\ rows2[r] = rows[r]
  PROVE  MemoryOK(ca, hp, ls, rows2)
<1>1. Extended(ca, rows, ca, rows2)
  BY DEF Extended, MemoryOK
<1>2. \A cid \in DOMAIN ca :
        cid \in 1..Len(rows2) /\ GoodObject(hp[ca[cid]], cid, ca, rows2)
  BY <1>1, ObjectStays DEF MemoryOK
<1>3. \A i \in 1..Len(ls) : GoodLink(ls[i], ca, rows2)
  BY <1>1, LinkStays DEF MemoryOK
<1>4. QED
  BY <1>2, <1>3 DEF MemoryOK

(* Cache ca with an address for cid. *)
WithAddress(ca, cid, addr) == [c \in DOMAIN ca \cup {cid} |-> IF c = cid THEN addr ELSE ca[c]]

(* An object goes into memory, and perhaps the innermost call returns.     *)
LEMMA AllocateOK ==
  ASSUME NEW ca, NEW hp, NEW ls, NEW rows, MemoryOK(ca, hp, ls, rows),
         NEW cid \in 1..Len(rows), cid \notin DOMAIN ca,
         NEW o, GoodObject(o, cid, ca, rows),
         NEW ls2, IsSeq(ls2), Len(ls2) <= Len(ls),
         \A i \in 1..Len(ls2) : ls2[i] = ls[i] /\ ls[i].cid # cid
  PROVE  MemoryOK(WithAddress(ca, cid, Len(hp) + 1), Append(hp, o), ls2, rows)
<1> DEFINE ca2 == WithAddress(ca, cid, Len(hp) + 1)
           hp2 == Append(hp, o)
<1>1. /\ IsSeq(hp2) /\ Len(hp) \in Nat /\ Len(hp2) = Len(hp) + 1
      /\ \A i \in 1..Len(hp) : hp2[i] = hp[i]
      /\ hp2[Len(hp) + 1] = o
  BY AppendSeq DEF MemoryOK
<1>2. /\ DOMAIN ca2 = DOMAIN ca \cup {cid} /\ ca2[cid] = Len(hp) + 1
      /\ \A c \in DOMAIN ca : ca2[c] = ca[c]
  BY DEF WithAddress
<1> HIDE DEF ca2, hp2
<1>3. Extended(ca, rows, ca2, rows)
  BY <1>2 DEF Extended, MemoryOK
<1>4. \A c \in DOMAIN ca2 :
        /\ c \in 1..Len(rows) /\ ca2[c] \in 1..Len(hp2)
        /\ GoodObject(hp2[ca2[c]], c, ca2, rows)
  <2> SUFFICES ASSUME NEW c \in DOMAIN ca2
               PROVE  /\ c \in 1..Len(rows) /\ ca2[c] \in 1..Len(hp2)
                      /\ GoodObject(hp2[ca2[c]], c, ca2, rows)
    OBVIOUS
  <2>1. CASE c = cid
    <3>1. GoodObject(o, cid, ca2, rows)
      BY <1>3, ObjectStays
    <3>2. QED
      BY <1>1, <1>2, <2>1, <3>1
  <2>2. CASE c \in DOMAIN ca
    <3>1. /\ c \in 1..Len(rows) /\ ca[c] \in 1..Len(hp)
          /\ GoodObject(hp[ca[c]], c, ca, rows)
      BY <2>2 DEF MemoryOK
    <3>2. GoodObject(hp[ca[c]], c, ca2, rows)
      BY <1>3, <3>1, ObjectStays
    <3>3. ca2[c] = ca[c] /\ hp2[ca2[c]] = hp[ca[c]] /\ ca2[c] \in 1..Len(hp2)
      BY <1>1, <1>2, <2>2, <3>1
    <3>4. QED
      BY <3>1, <3>2, <3>3
  <2>3. QED
    BY <1>2, <2>1, <2>2
<1>5. \A c, d \in DOMAIN ca2 : ca2[c] = ca2[d] => c = d
  <2>1. \A c \in DOMAIN ca : ca2[c] \in 1..Len(hp)
    BY <1>2 DEF MemoryOK
  <2>2. \A c, d \in DOMAIN ca : ca2[c] = ca2[d] => c = d
    BY <1>2 DEF MemoryOK
  <2>3. QED
    BY <1>1, <1>2, <2>1, <2>2
<1>6. \A i \in 1..Len(ls2) : i \in 1..Len(ls) /\ ls2[i] = ls[i] /\ ls[i].cid # cid
  BY SeqLength DEF MemoryOK
<1>7. \A i \in 1..Len(ls2) : GoodLink(ls2[i], ca2, rows) /\ ls2[i].cid \notin DOMAIN ca2
  BY <1>2, <1>3, <1>6, LinkStays DEF MemoryOK
<1>8. \A i, j \in 1..Len(ls2) : i < j => ls2[j].cid < ls2[i].cid
  BY <1>6 DEF MemoryOK
<1>9. MemoryOK(ca2, hp2, ls2, rows)
  BY <1>1, <1>4, <1>5, <1>7, <1>8 DEF MemoryOK
<1>10. QED
  BY <1>9 DEF ca2, hp2

(* loader_link_code is called. *)
LEMMA EnterLinkOK ==
  ASSUME NEW ca, NEW hp, NEW ls, NEW rows, MemoryOK(ca, hp, ls, rows),
         NEW cid \in 1..Len(rows), cid \notin DOMAIN ca, rows[cid].kind \in CodeKinds,
         Len(rows[cid].data.code) \in Nat,
         \A i \in 1..Len(ls) : cid < ls[i].cid
  PROVE  MemoryOK(ca, hp, Append(ls, [cid |-> cid, cells |-> <<>>]), rows)
<1> DEFINE l   == [cid |-> cid, cells |-> <<>>]
           ls2 == Append(ls, l)
<1>1. GoodLink(l, ca, rows) /\ l.cid = cid
  BY NothingSeq DEF GoodLink
<1> HIDE DEF l
<1>2. /\ IsSeq(ls2) /\ Len(ls) \in Nat /\ Len(ls2) = Len(ls) + 1
      /\ \A i \in 1..Len(ls) : ls2[i] = ls[i]
      /\ ls2[Len(ls) + 1] = l
  BY AppendSeq DEF MemoryOK
<1> HIDE DEF ls2
<1>3. \A i \in 1..Len(ls2) : i \in 1..Len(ls) \/ i = Len(ls) + 1
  BY <1>2
<1>4. \A i \in 1..Len(ls2) : GoodLink(ls2[i], ca, rows) /\ ls2[i].cid \notin DOMAIN ca
  BY <1>1, <1>2, <1>3 DEF MemoryOK
<1>5. \A i, j \in 1..Len(ls2) : i < j => ls2[j].cid < ls2[i].cid
  <2> SUFFICES ASSUME NEW i \in 1..Len(ls2), NEW j \in 1..Len(ls2), i < j
               PROVE  ls2[j].cid < ls2[i].cid
    OBVIOUS
  <2>1. i \in 1..Len(ls)
    BY <1>2
  <2>2. CASE j = Len(ls) + 1
    BY <1>1, <1>2, <2>1, <2>2
  <2>3. CASE j \in 1..Len(ls)
    BY <1>2, <2>1, <2>3 DEF MemoryOK
  <2>4. QED
    BY <1>3, <2>2, <2>3
<1>6. MemoryOK(ca, hp, ls2, rows)
  BY <1>2, <1>4, <1>5 DEF MemoryOK
<1>7. QED
  BY <1>6 DEF ls2, l

(* The innermost call emits a cell. *)
LEMMA AppendCellOK ==
  ASSUME NEW ca, NEW hp, NEW ls, NEW rows, MemoryOK(ca, hp, ls, rows), ls # <<>>,
         Len(ls[Len(ls)].cells) < Len(rows[ls[Len(ls)].cid].data.code),
         Len(rows[ls[Len(ls)].cid].data.code) \in Nat,
         NEW cell,
         Relocates(cell, rows[ls[Len(ls)].cid].data.code[Len(ls[Len(ls)].cells) + 1], ca, rows)
  PROVE  MemoryOK(ca, hp, [ls EXCEPT ![Len(ls)].cells = Append(@, cell)], rows)
<1> DEFINE n     == Len(ls)
           cid   == ls[n].cid
           cells == ls[n].cells
           code  == rows[cid].data.code
           more  == Append(cells, cell)
           l     == [cid |-> cid, cells |-> more]
           ls2   == [ls EXCEPT ![n].cells = Append(@, cell)]
<1>1. IsSeq(ls) /\ n \in Nat /\ n \in 1..n
  BY SeqLength DEF MemoryOK
<1>2. GoodLink(ls[n], ca, rows) /\ cid \notin DOMAIN ca
  BY <1>1 DEF MemoryOK
<1>3. /\ ls[n] = [cid |-> cid, cells |-> cells] /\ cid \in 1..Len(rows)
      /\ rows[cid].kind \in CodeKinds /\ IsSeq(cells)
      /\ \A i \in 1..Len(cells) : Relocates(cells[i], code[i], ca, rows)
  BY <1>2 DEF GoodLink
<1>4. /\ IsSeq(more) /\ Len(cells) \in Nat /\ Len(more) = Len(cells) + 1
      /\ \A i \in 1..Len(cells) : more[i] = cells[i]
      /\ more[Len(cells) + 1] = cell
  <2>1. IsSeq(cells)
    BY <1>3
  <2> HIDE DEF cells
  <2>2. QED
    BY <2>1, AppendSeq
<1>5. GoodLink(l, ca, rows) /\ l.cid = cid
  <2> HIDE DEF more
  <2>1. \A i \in 1..Len(more) : Relocates(more[i], code[i], ca, rows)
    <3> SUFFICES ASSUME NEW i \in 1..Len(more) PROVE Relocates(more[i], code[i], ca, rows)
      OBVIOUS
    <3>1. i \in 1..Len(cells) \/ i = Len(cells) + 1
      BY <1>4
    <3>2. Relocates(cell, code[Len(cells) + 1], ca, rows)
      OBVIOUS
    <3> HIDE DEF cells, code
    <3>3. QED
      BY <1>3, <1>4, <3>1, <3>2
  <2>2. Len(more) <= Len(code)
    BY <1>4
  <2>3. QED
    BY <1>3, <1>4, <2>1, <2>2 DEF GoodLink
<1>6. DOMAIN ls = 1..n
  BY <1>1, LenProperties DEF IsSeq
<1>7. ls2 = [i \in 1..n |-> IF i = n THEN l ELSE ls[i]]
  <2>1. [ls[n] EXCEPT !.cells = more] = l
    <3>1. \A a, b, x : [[cid |-> a, cells |-> b] EXCEPT !.cells = x] = [cid |-> a, cells |-> x]
      OBVIOUS
    <3>2. ls[n] = [cid |-> cid, cells |-> cells]
      BY <1>3
    <3> HIDE DEF cid, cells, more
    <3>3. QED
      BY <3>1, <3>2
  <2>2. ls2 = [ls EXCEPT ![n] = l]
    BY <2>1
  <2>3. ls = [i \in 1..n |-> ls[i]]
    BY <1>1, <1>6, LenProperties DEF IsSeq
  <2> HIDE DEF l, ls2
  <2>4. QED
    BY <2>2, <2>3
<1> HIDE DEF ls2, l, more
<1>8. IsSeq(ls2) /\ Len(ls2) = n
  <2> DEFINE S == {ls2[i] : i \in DOMAIN ls2}
  <2>1. ls2 \in [1..n -> S]
    BY <1>7
  <2> HIDE DEF S
  <2>2. ls2 \in Seq(S)
    BY <1>1, <2>1
  <2>3. Len(ls2) = n
    BY <1>1, <1>7, <2>2, LenProperties
  <2>4. QED
    BY <2>2, <2>3 DEF IsSeq, S
<1>9. \A i \in 1..n : /\ GoodLink(ls2[i], ca, rows) /\ ls2[i].cid = ls[i].cid
                      /\ ls2[i].cid \notin DOMAIN ca
  BY <1>2, <1>5, <1>7 DEF MemoryOK
<1>10. QED
  BY <1>8, <1>9 DEF MemoryOK, ls2

-----------------------------------------------------------------------------
(* The machine.  Nothing it executes writes to linked objects.             *)

Kept == UNCHANGED heap /\ vm' # "idle"

LEMMA FaultKeeps == V!Fault => Kept
BY DEF V!Fault, Kept

LEMMA ContinueKeeps ==
  ASSUME NEW p, NEW d, NEW r, NEW ns, V!ContinueWith(p, d, r, ns), vm = "running"
  PROVE  Kept
BY FaultKeeps DEF V!ContinueWith, Kept

LEMMA GoOnKeeps ==
  ASSUME NEW w, NEW d, NEW r, V!GoOn(w, d, r), vm = "running"
  PROVE  Kept
BY FaultKeeps, ContinueKeeps DEF V!GoOn, V!Continue

LEMMA DocolKeeps ==
  ASSUME NEW addr, NEW d, V!Docol(addr, d), vm = "running"
  PROVE  Kept
BY FaultKeeps, ContinueKeeps DEF V!Docol, V!Continue

LEMMA MachineKeeps ==
  ASSUME V!VMStep
  PROVE  vm = "running" /\ Kept
<1>1. vm = "running"
  BY DEF V!VMStep, V!DoLit, V!DoAddr, V!DoCall, V!DoExit, V!DoExecute, V!DoBranch,
         V!DoZeroBranch, V!DoToR, V!DoFromR, V!DoRFetch, V!DoRDrop, V!DoTwoToR,
         V!DoTwoFromR, V!DoData, V!DoSwap, V!DoRot, V!DoAlloc, V!DoFetch, V!DoStore,
         V!DoArrayAt, V!DoInPlace, V!DoLeaveStack, V!DoMapFault, V!DoMapNew, V!DoMapGet,
         V!DoMapSize, V!DoMapSet, V!DoMapRemove, V!DoMapFree, V!AtMap, V!AtPrim, V!At,
         V!Running
<1>2. CASE V!DoLit
  BY <1>1, <1>2, ContinueKeeps DEF V!DoLit, V!Continue
<1>3. CASE V!DoAddr
  BY <1>1, <1>3, ContinueKeeps DEF V!DoAddr, V!Continue
<1>4. CASE V!DoCall
  BY <1>1, <1>4, DocolKeeps DEF V!DoCall
<1>5. CASE V!DoExit
  BY <1>1, <1>5, FaultKeeps, ContinueKeeps DEF V!DoExit, V!Continue
<1>6. CASE V!DoExecute
  BY <1>1, <1>6, FaultKeeps, DocolKeeps, ContinueKeeps DEF V!DoExecute, V!Continue
<1>7. CASE V!DoBranch
  BY <1>1, <1>7, FaultKeeps, ContinueKeeps DEF V!DoBranch, V!Continue
<1>8. CASE V!DoZeroBranch
  BY <1>1, <1>8, FaultKeeps, ContinueKeeps DEF V!DoZeroBranch, V!Continue
<1>9. CASE V!DoToR
  BY <1>1, <1>9, FaultKeeps, ContinueKeeps DEF V!DoToR, V!Continue
<1>10. CASE V!DoFromR
  BY <1>1, <1>10, FaultKeeps, ContinueKeeps DEF V!DoFromR, V!Continue
<1>11. CASE V!DoRFetch
  BY <1>1, <1>11, FaultKeeps, ContinueKeeps DEF V!DoRFetch, V!Continue
<1>12. CASE V!DoRDrop
  BY <1>1, <1>12, FaultKeeps, ContinueKeeps DEF V!DoRDrop, V!Continue
<1>13. CASE V!DoTwoToR
  BY <1>1, <1>13, FaultKeeps, GoOnKeeps DEF V!DoTwoToR
<1>14. CASE V!DoTwoFromR
  BY <1>1, <1>14, FaultKeeps, GoOnKeeps DEF V!DoTwoFromR
<1>15. CASE V!DoData
  BY <1>1, <1>15, FaultKeeps, ContinueKeeps DEF V!DoData, V!Continue
<1>16. CASE V!DoSwap
  BY <1>1, <1>16, FaultKeeps, GoOnKeeps DEF V!DoSwap
<1>17. CASE V!DoRot
  BY <1>1, <1>17, FaultKeeps, GoOnKeeps DEF V!DoRot
<1>18. CASE V!DoAlloc
  BY <1>1, <1>18, FaultKeeps, ContinueKeeps DEF V!DoAlloc, V!Continue
<1>19. CASE V!DoFetch
  BY <1>1, <1>19, FaultKeeps, ContinueKeeps DEF V!DoFetch, V!Continue
<1>20. CASE V!DoStore
  BY <1>1, <1>20, FaultKeeps, GoOnKeeps DEF V!DoStore
<1>21. CASE V!DoArrayAt
  BY <1>1, <1>21, FaultKeeps, ContinueKeeps DEF V!DoArrayAt, V!Continue
<1>22. CASE V!DoInPlace
  BY <1>1, <1>22, ContinueKeeps DEF V!DoInPlace, V!Continue
<1>23. CASE V!DoLeaveStack
  BY <1>1, <1>23, FaultKeeps DEF V!DoLeaveStack
<1>24. CASE V!DoMapFault
  BY <1>1, <1>24, FaultKeeps DEF V!DoMapFault
<1>25. CASE V!DoMapNew
  BY <1>1, <1>25, ContinueKeeps DEF V!DoMapNew, V!Continue
<1>26. CASE V!DoMapGet
  BY <1>1, <1>26, ContinueKeeps DEF V!DoMapGet, V!Continue
<1>27. CASE V!DoMapSize
  BY <1>1, <1>27, ContinueKeeps DEF V!DoMapSize, V!Continue
<1>28. CASE V!DoMapSet
  BY <1>1, <1>28, ContinueKeeps DEF V!DoMapSet
<1>29. CASE V!DoMapRemove
  BY <1>1, <1>29, ContinueKeeps DEF V!DoMapRemove
<1>30. CASE V!DoMapFree
  BY <1>1, <1>30, ContinueKeeps DEF V!DoMapFree
<1>31. QED
  BY <1>1, <1>2, <1>3, <1>4, <1>5, <1>6, <1>7, <1>8, <1>9, <1>10, <1>11, <1>12,
     <1>13, <1>14, <1>15, <1>16, <1>17, <1>18, <1>19, <1>20, <1>21, <1>22, <1>23,
     <1>24, <1>25, <1>26, <1>27, <1>28, <1>29, <1>30
     DEF V!VMStep

-----------------------------------------------------------------------------
(* The loader.                                                             *)

(* What a row of the table may be. *)
LEMMA RowTyped ==
  ASSUME MarchInv, NEW r \in 1..Len(blobs)
  PROVE  /\ blobs[r].kind \in Kinds /\ blobs[r].data.code \in Seq(Items)
         /\ Len(blobs[r].data.code) \in Nat
         /\ RefsBelow(blobs[r].data.code, r - 1)
<1>1. blobs[r] \in Rows
  BY ElementOfSeq DEF MarchInv, StoreInv, TypeInv, TypeOK
<1>2. blobs[r].kind \in Kinds /\ blobs[r].data.code \in Seq(Items)
  BY <1>1 DEF Rows, Data
<1>3. QED
  BY <1>2, LenProperties DEF MarchInv, RowsEarlier

LEMMA LinkCids ==
  ASSUME MarchInv
  PROVE  \A i \in 1..Len(links) : links[i].cid \in Nat
<1>1. Len(blobs) \in Nat
  BY RowsCounted DEF MarchInv, StoreInv
<1>2. \A i \in 1..Len(links) : links[i].cid \in 1..Len(blobs)
  BY DEF MarchInv, MemoryOK, GoodLink
<1>3. QED
  BY <1>1, <1>2

(* What a step of the loader has to do. *)
LinkedOK == MemoryOK(cache, heap, links, blobs)' /\ UNCHANGED blobs

LEMMA AllocateLinked ==
  ASSUME MarchInv, NEW cid \in 1..Len(blobs), cid \notin DOMAIN cache,
         NEW o, GoodObject(o, cid, cache, blobs), L!Allocate(cid, o), UNCHANGED blobs,
         IsSeq(links'), Len(links') <= Len(links),
         \A i \in 1..Len(links') : links'[i] = links[i] /\ links[i].cid # cid
  PROVE  LinkedOK
<1>1. cache' = WithAddress(cache, cid, Len(heap) + 1) /\ heap' = Append(heap, o)
  BY DEF L!Allocate, WithAddress
<1>2. MemoryOK(cache, heap, links, blobs)
  BY DEF MarchInv
<1>3. MemoryOK(WithAddress(cache, cid, Len(heap) + 1), Append(heap, o), links', blobs)
  <2> DEFINE ls == links'
  <2>1. /\ IsSeq(ls) /\ Len(ls) <= Len(links)
        /\ \A i \in 1..Len(ls) : ls[i] = links[i] /\ links[i].cid # cid
    OBVIOUS
  <2> HIDE DEF ls
  <2>2. MemoryOK(WithAddress(cache, cid, Len(heap) + 1), Append(heap, o), ls, blobs)
    BY <1>2, <2>1, AllocateOK
  <2>3. QED
    BY <2>2 DEF ls
<1>4. QED
  BY <1>1, <1>3 DEF LinkedOK

(* Linking a row that no call in progress is linking and none refers back  *)
(* to.                                                                     *)
LEMMA LinkCidOK ==
  ASSUME MarchInv, NEW cid, cid \notin DOMAIN cache, L!LinkCid(cid, links),
         \A i \in 1..Len(links) : cid < links[i].cid
  PROVE  LinkedOK
<1>1. cid \in 1..Len(blobs) /\ UNCHANGED blobs /\ MemoryOK(cache, heap, links, blobs)
  BY DEF L!LinkCid, MarchInv
<1>2. blobs[cid].kind \in Kinds /\ Len(blobs[cid].data.code) \in Nat
  BY <1>1, RowTyped
<1>3. CASE /\ blobs[cid].kind \in CodeKinds
           /\ links' = Append(links, [cid |-> cid, cells |-> <<>>])
           /\ UNCHANGED <<cache, heap>>
  BY <1>1, <1>2, <1>3, EnterLinkOK DEF LinkedOK
<1>4. ASSUME NEW o, GoodObject(o, cid, cache, blobs), L!Allocate(cid, o), links' = links
      PROVE  LinkedOK
  <2>1. IsSeq(links) /\ Len(links) <= Len(links)
    BY <1>1, SeqLength DEF MemoryOK
  <2>2. Len(blobs) \in Nat
    BY RowsCounted DEF MarchInv, StoreInv
  <2>3. \A i \in 1..Len(links) : links[i].cid # cid
    BY <1>1, <2>2, LinkCids
  <2>4. QED
    BY <1>1, <1>4, <2>1, <2>3, AllocateLinked
<1>5. CASE blobs[cid].kind \in CodeKinds /\ L!Allocate(cid, L!JunkObject) /\ links' = links
  <2>1. GoodObject(L!JunkObject, cid, cache, blobs)
    BY <1>5 DEF GoodObject, L!JunkObject, CodeKinds, BLOB_WORD, BLOB_QUOTATION, BLOB_DATA
  <2>2. QED
    BY <1>4, <1>5, <2>1
<1>6. CASE /\ blobs[cid].kind = BLOB_DATA
           /\ L!Allocate(cid, L!DataObject(blobs[cid].data.n)) /\ links' = links
  <2>1. GoodObject(L!DataObject(blobs[cid].data.n), cid, cache, blobs)
    BY DEF GoodObject, L!DataObject
  <2>2. QED
    BY <1>4, <1>6, <2>1
<1>7. QED
  BY <1>3, <1>5, <1>6
     DEF L!LinkCid, L!CodeKinds, L!BLOB_WORD, L!BLOB_QUOTATION, L!BLOB_DATA, CodeKinds,
         BLOB_WORD, BLOB_QUOTATION, BLOB_DATA

(* The innermost call, and its row. *)
LEMMA InnermostLink ==
  ASSUME MarchInv, links # <<>>
  PROVE  /\ Len(links) \in Nat /\ Len(links) \in 1..Len(links)
         /\ L!Link = links[Len(links)] /\ GoodLink(L!Link, cache, blobs)
         /\ L!Link.cid \in 1..Len(blobs) /\ L!Link.cid \notin DOMAIN cache
         /\ L!LinkCode = blobs[L!Link.cid].data.code
         /\ L!LinkCode \in Seq(Items) /\ Len(L!LinkCode) \in Nat
         /\ RefsBelow(L!LinkCode, L!Link.cid - 1)
         /\ IsSeq(L!Link.cells) /\ Len(L!Link.cells) \in Nat
         /\ \A i \in 1..Len(links) : L!Link.cid <= links[i].cid
         /\ \A i \in 1..Len(links) - 1 : L!Link.cid # links[i].cid
<1>1. Len(links) \in Nat /\ Len(links) \in 1..Len(links) /\ L!Link = links[Len(links)]
  BY SeqLength DEF MarchInv, MemoryOK, L!Link
<1>2. GoodLink(L!Link, cache, blobs) /\ L!Link.cid \notin DOMAIN cache
  BY <1>1 DEF MarchInv, MemoryOK
<1>3. L!Link.cid \in 1..Len(blobs) /\ IsSeq(L!Link.cells)
  BY <1>2 DEF GoodLink
<1>4. L!LinkCode = blobs[L!Link.cid].data.code
  BY DEF L!LinkCode
<1>5. L!LinkCode \in Seq(Items) /\ Len(L!LinkCode) \in Nat /\ RefsBelow(L!LinkCode, L!Link.cid - 1)
  BY <1>3, <1>4, RowTyped
<1>6. Len(L!Link.cells) \in Nat
  BY <1>3, SeqLength
<1>7. \A i \in 1..Len(links) : links[i].cid \in Nat
  BY LinkCids
<1>8. \A i \in 1..Len(links) - 1 : L!Link.cid < links[i].cid
  BY <1>1 DEF MarchInv, MemoryOK
<1>9. \A i \in 1..Len(links) : i = Len(links) \/ i \in 1..Len(links) - 1
  BY <1>1
<1>10. \A i \in 1..Len(links) : L!Link.cid <= links[i].cid
  BY <1>1, <1>7, <1>8, <1>9
<1>11. \A i \in 1..Len(links) - 1 : i \in 1..Len(links) /\ L!Link.cid # links[i].cid
  BY <1>1, <1>7, <1>8
<1>12. QED
  BY <1>1, <1>2, <1>3, <1>4, <1>5, <1>6, <1>10, <1>11

(* The item the innermost call is at. *)
LEMMA ItemTyped ==
  ASSUME MarchInv, L!AtItem
  PROVE  /\ links # <<>>
         /\ Len(L!Link.cells) < Len(L!LinkCode)
         /\ L!Item = L!LinkCode[Len(L!Link.cells) + 1]
         /\ L!Item.tag \in {"prim", "lit", "ref"} /\ L!Item.kind \in {0} \cup Kinds
         /\ L!Item.tag = "ref" => L!Item.n \in 1..L!Link.cid - 1 /\ L!Item.kind \in Kinds
<1>1. links # <<>> /\ Len(L!Link.cells) < Len(L!LinkCode)
      /\ L!Item = L!LinkCode[Len(L!Link.cells) + 1]
  BY DEF L!AtItem, L!Item
<1>2. Len(L!Link.cells) + 1 \in 1..Len(L!LinkCode)
  BY <1>1, InnermostLink
<1>3. L!Item \in Items
  BY <1>1, <1>2, InnermostLink, ElementOfSeq
<1>4. L!Item.tag = "ref" => L!Item.n \in 1..L!Link.cid - 1
  BY <1>1, <1>2, InnermostLink DEF RefsBelow
<1>5. QED
  BY <1>1, <1>3, <1>4 DEF Items

LEMMA CellOK ==
  ASSUME MarchInv, L!AtItem, NEW cell, L!AppendCell(cell),
         Relocates(cell, L!Item, cache, blobs)
  PROVE  LinkedOK
<1>1. /\ MemoryOK(cache, heap, links, blobs) /\ links # <<>>
      /\ Len(links[Len(links)].cells) < Len(blobs[links[Len(links)].cid].data.code)
      /\ Len(blobs[links[Len(links)].cid].data.code) \in Nat
      /\ Relocates(cell, blobs[links[Len(links)].cid].data.code[Len(links[Len(links)].cells) + 1],
                   cache, blobs)
  BY ItemTyped, InnermostLink DEF MarchInv
<1>2. /\ links' = [links EXCEPT ![Len(links)].cells = Append(@, cell)]
      /\ UNCHANGED <<blobs, cache, heap>>
  BY DEF L!AppendCell
<1>3. MemoryOK(cache, heap, [links EXCEPT ![Len(links)].cells = Append(@, cell)], blobs)
  BY <1>1, AppendCellOK
<1>4. QED
  BY <1>2, <1>3 DEF LinkedOK

LEMMA LinkRefOK ==
  ASSUME MarchInv, L!LinkRef
  PROVE  LinkedOK
<1>1. L!AtItem /\ L!Item.tag = "ref" /\ L!Item.n \in DOMAIN cache
  BY DEF L!LinkRef, L!Linked
<1>2. PICK cell \in L!UseOf(L!Item.kind, cache[L!Item.n]) : L!AppendCell(cell)
  BY DEF L!LinkRef
<1>3. GoodObject(heap[cache[L!Item.n]], L!Item.n, cache, blobs)
  BY <1>1 DEF MarchInv, MemoryOK
<1>4. L!Item.kind = BLOB_WORD => cell = L!RunCall(cache[L!Item.n])
  BY <1>2 DEF L!UseOf, L!BLOB_WORD, L!BLOB_QUOTATION, L!BLOB_DATA, BLOB_WORD
<1>5. L!Item.kind = BLOB_QUOTATION => cell = L!RunAddr(cache[L!Item.n])
  BY <1>2 DEF L!UseOf, L!BLOB_WORD, L!BLOB_QUOTATION, L!BLOB_DATA, BLOB_QUOTATION
<1>6. ASSUME L!Item.kind = BLOB_DATA, blobs[L!Item.n].kind = BLOB_DATA
      PROVE  cell = L!RunLit(blobs[L!Item.n].data.n)
  <2>1. heap[cache[L!Item.n]] = L!DataObject(blobs[L!Item.n].data.n)
    BY <1>3, <1>6 DEF GoodObject
  <2>2. L!WordAt(cache[L!Item.n]) = {blobs[L!Item.n].data.n}
    BY <2>1 DEF L!WordAt, L!DataObject
  <2>3. cell \in {L!RunLit(w) : w \in L!WordAt(cache[L!Item.n])}
    BY <1>2, <1>6 DEF L!UseOf, L!BLOB_WORD, L!BLOB_QUOTATION, L!BLOB_DATA, BLOB_DATA
  <2>4. QED
    BY <2>2, <2>3
<1>7. Relocates(cell, L!Item, cache, blobs)
  BY <1>1, <1>4, <1>5, <1>6 DEF Relocates
<1>8. QED
  BY <1>1, <1>2, <1>7, CellOK

LEMMA LinkRefFirstOK ==
  ASSUME MarchInv, L!LinkRefFirst
  PROVE  LinkedOK
<1>1. /\ L!AtItem /\ L!Item.tag = "ref" /\ L!Item.n \notin DOMAIN cache
      /\ L!LinkCid(L!Item.n, links)
  BY DEF L!LinkRefFirst, L!Linked
<1>2. links # <<>> /\ L!Item.n \in 1..L!Link.cid - 1
  BY <1>1, ItemTyped
<1>3. \A i \in 1..Len(links) : links[i].cid \in Nat /\ L!Link.cid <= links[i].cid
  BY <1>2, InnermostLink, LinkCids
<1>4. L!Link.cid \in Nat
  BY <1>2, <1>3, InnermostLink
<1>5. \A i \in 1..Len(links) : L!Item.n < links[i].cid
  BY <1>2, <1>3, <1>4
<1>6. QED
  BY <1>1, <1>5, LinkCidOK

LEMMA LinkDoneOK ==
  ASSUME MarchInv, L!LinkDone
  PROVE  LinkedOK
<1> DEFINE cells == Append(L!Link.cells, L!RunExit)
           code  == L!LinkCode
           rest  == SubSeq(links, 1, Len(links) - 1)
<1>1. /\ links # <<>> /\ ~L!AtItem /\ L!Allocate(L!Link.cid, L!CodeObject(cells))
      /\ links' = rest /\ UNCHANGED blobs
  BY DEF L!LinkDone
<1>2. Len(L!Link.cells) = Len(code)
  BY <1>1, InnermostLink DEF L!AtItem, GoodLink
<1>3. /\ Len(cells) = Len(code) + 1 /\ cells[Len(code) + 1] = L!RunExit
      /\ \A i \in 1..Len(code) : cells[i] = L!Link.cells[i]
  BY <1>1, <1>2, InnermostLink, AppendSeq
<1> HIDE DEF cells
<1>4. GoodObject(L!CodeObject(cells), L!Link.cid, cache, blobs)
  <2>1. \A i \in 1..Len(code) : Relocates(L!Link.cells[i], code[i], cache, blobs)
    BY <1>1, <1>2, InnermostLink DEF GoodLink
  <2>2. blobs[L!Link.cid].kind # BLOB_DATA /\ blobs[L!Link.cid].data.code = code
    BY <1>1, InnermostLink DEF GoodLink, CodeKinds, BLOB_WORD, BLOB_QUOTATION, BLOB_DATA
  <2>3. L!CodeObject(cells).cells = cells
    BY DEF L!CodeObject
  <2>4. QED
    BY <1>3, <2>1, <2>2, <2>3 DEF GoodObject
<1>5. IsSeq(rest) /\ Len(rest) = Len(links) - 1 /\ \A i \in 1..Len(rest) : rest[i] = links[i]
  BY <1>1, FrontSeq DEF MarchInv, MemoryOK
<1> HIDE DEF rest
<1>6. Len(rest) <= Len(links) /\ \A i \in 1..Len(rest) : rest[i] = links[i] /\ links[i].cid # L!Link.cid
  BY <1>1, <1>5, InnermostLink
<1>7. L!Link.cid \in 1..Len(blobs) /\ L!Link.cid \notin DOMAIN cache
  BY <1>1, InnermostLink
<1>8. QED
  BY <1>1, <1>4, <1>5, <1>6, <1>7, AllocateLinked

LEMMA LinkStepOK ==
  ASSUME MarchInv, L!LinkStep
  PROVE  LinkedOK
<1>1. CASE L!LinkPrim
  <2>1. L!AtItem /\ L!AppendCell(L!RunPrim(L!Item.s)) /\ L!Item.tag = "prim"
    BY <1>1 DEF L!LinkPrim
  <2>2. Relocates(L!RunPrim(L!Item.s), L!Item, cache, blobs)
    BY <2>1 DEF Relocates
  <2>3. QED
    BY <2>1, <2>2, CellOK
<1>2. CASE L!LinkLit
  <2>1. L!AtItem /\ L!AppendCell(L!RunLit(L!Item.n)) /\ L!Item.tag = "lit"
    BY <1>2 DEF L!LinkLit
  <2>2. Relocates(L!RunLit(L!Item.n), L!Item, cache, blobs)
    BY <2>1 DEF Relocates
  <2>3. QED
    BY <2>1, <2>2, CellOK
<1>3. QED
  BY <1>1, <1>2, LinkRefOK, LinkRefFirstOK, LinkDoneOK DEF L!LinkStep

-----------------------------------------------------------------------------
(* The steps of the whole.                                                 *)

(* The compiler does nothing while something is linked or runs.            *)
LEMMA CompilerIdle ==
  /\ ReadSource => phase # "link"
  /\ CompileStep => phase # "link"
  /\ RunnerExecute => phase # "link"
<1>1. ReadSource => phase \in {"file", "def"}
  <2>1. AtEndOfDefinition => phase = "def"
    BY DEF AtEndOfDefinition, At
  <2>2. CompileTypeSigDecl \/ SkipToken \/ SourceError \/ BeginDefinition => phase = "file"
    BY DEF CompileTypeSigDecl, SkipToken, SourceError, BeginDefinition, At
  <2>3. CompileLparen \/ CompileRparen \/ ParenError \/ CaptureToken => phase = "def"
    BY DEF CompileLparen, CompileRparen, ParenError, CaptureToken, At
  <2>4. QED
    BY <2>1, <2>2, <2>3 DEF ReadSource, EndDefinition, TooManyDefinitions, EndOfFile
<1>2. CompileStep => phase = "compile"
  <2>1. /\ AtToken \/ WordDone \/ Idle => Compiling
        /\ \A op : Ready(op) => Compiling
    BY DEF AtToken, WordDone, Idle, Ready
  <2>2. AtWord \/ AtResolved => Compiling
    BY <2>1 DEF AtWord, AtResolved
  <2>3. \A names : AtImmediate(names) => Compiling
    BY <2>2 DEF AtImmediate
  <2>4. \/ CompileNumber \/ CompileString \/ UnexpectedToken \/ CompileLbracket
        \/ CompileRbracket \/ ArrayError \/ EmitLit \/ EmitPrim
        => Compiling
    BY <2>1 DEF CompileNumber, CompileString, UnexpectedToken, CompileLbracket,
       CompileRbracket, ArrayError, EmitLit, EmitPrim
  <2>5. WordError \/ CompilePrimitive \/ CallHit \/ CallMiss => Compiling
    BY <2>2 DEF WordError, CompilePrimitive, CallHit, CallMiss
  <2>6. \/ FinishCall \/ BeginMaterialize \/ EnterQuotation \/ FinishQuotation
        \/ FinishMaterialize \/ CompileIf \/ CompileTimes \/ CompileTimesUntil \/ FinishRun
        => Compiling
    BY <2>1 DEF FinishCall, BeginMaterialize, EnterQuotation, FinishQuotation,
       FinishMaterialize, CompileIf, CompileTimes, CompileTimesUntil, FinishRun
  <2>7. \/ CompileBool \/ CompileStackWord \/ ControlError
        \/ BeginIf \/ BeginTimes \/ BeginUntil
        => Compiling
    BY <2>3 DEF CompileBool, CompileStackWord, ControlError, BeginIf, BeginTimes, BeginUntil
  <2>8. QED
    BY <2>4, <2>5, <2>6, <2>7 DEF CompileStep, Compiling
<1>3. RunnerExecute => phase = "ready"
  BY DEF RunnerExecute, RunnerCompile, RunnerLink, RunnerError
<1>4. QED
  BY <1>1, <1>2, <1>3

(* Of the compiler, a step of the whole is a step or nothing.              *)
LEMMA CompilerStep ==
  ASSUME MarchInv, [MarchNext]_allVars
  PROVE  [Next]_vars
<1>1. CASE Compile \/ Execute \/ NewProcess
  BY <1>1 DEF Compile, Execute, NewProcess, Next
<1>2. CASE LinkWord \/ LinkItem \/ StartRun \/ MachineStep
  BY <1>2 DEF LinkWord, LinkItem, StartRun, MachineStep
<1>3. CASE LinkError
  BY <1>3 DEF LinkError, Linking, Fail, Next, RunDone
<1>4. CASE FinishExecute
  <2>1. vm = "running"
    BY <1>4 DEF FinishExecute, V!Halt, V!At, V!Running
  <2>2. phase = "link"
    BY <2>1 DEF MarchInv
  <2>3. QED
    BY <1>4, <2>2 DEF FinishExecute, Next, RunDone
<1>5. CASE UNCHANGED allVars
  BY <1>5 DEF allVars
<1>6. QED
  BY <1>1, <1>2, <1>3, <1>4, <1>5 DEF MarchNext, Running

LEMMA TableKept ==
  ASSUME MarchInv, [Next]_vars
  PROVE  /\ StoreInv' /\ RowsEarlier(blobs)'
         /\ \A r \in 1..Len(blobs) : r \in 1..Len(blobs') /\ blobs'[r] = blobs[r]
<1>1. StoreInv' /\ [Table!Put]_blobs
  BY StoreNext DEF MarchInv
<1>2. blobs \in Seq(Rows) /\ Len(blobs) \in Nat /\ RowsEarlier(blobs)
  BY LenProperties DEF MarchInv, StoreInv, TypeInv, TypeOK
<1>3. CASE UNCHANGED blobs
  BY <1>1, <1>2, <1>3
<1>4. CASE Table!Put
  <2> DEFINE row == Table!NewRow
  <2>1. blobs' = Append(blobs, row) /\ row \in Rows /\ RefsBelow(row.data.code, Len(blobs))
    BY <1>4, SameRows DEF Table!Put
  <2> HIDE DEF row
  <2>2. /\ Len(blobs') = Len(blobs) + 1 /\ blobs'[Len(blobs) + 1] = row
        /\ \A r \in 1..Len(blobs) : blobs'[r] = blobs[r]
    BY <1>2, <2>1, AppendProperties
  <2>3. \A r \in 1..Len(blobs') : r \in 1..Len(blobs) \/ r = Len(blobs) + 1
    BY <1>2, <2>2
  <2>4. RowsEarlier(blobs')
    <3> SUFFICES ASSUME NEW r \in 1..Len(blobs')
                 PROVE  RefsBelow(blobs'[r].data.code, r - 1)
      BY DEF RowsEarlier
    <3>1. CASE r \in 1..Len(blobs)
      BY <1>2, <2>2, <3>1 DEF RowsEarlier
    <3>2. CASE r = Len(blobs) + 1
      <4>1. r - 1 = Len(blobs)
        BY <1>2, <3>2
      <4>2. QED
        BY <2>1, <2>2, <3>2, <4>1
    <3>3. QED
      BY <2>3, <3>1, <3>2
  <2>5. QED
    BY <1>1, <1>2, <2>2, <2>4
<1>5. QED
  BY <1>1, <1>3, <1>4

LEMMA MarchInvNext ==
  ASSUME MarchInv, [MarchNext]_allVars
  PROVE  MarchInv'
<1> DEFINE Kind == vm' # "idle" => phase' = "link"
<1>1. MemoryOK(cache, heap, links, blobs) /\ (vm # "idle" => phase = "link")
  BY DEF MarchInv
<1>2. /\ StoreInv' /\ RowsEarlier(blobs)'
      /\ \A r \in 1..Len(blobs) : r \in 1..Len(blobs') /\ blobs'[r] = blobs[r]
  BY CompilerStep, TableKept
<1>3. MemoryOK(cache, heap, links, blobs')
  BY <1>1, <1>2, TableGrows
<1>4. ASSUME UNCHANGED <<cache, heap, links>> PROVE MemoryOK(cache, heap, links, blobs)'
  BY <1>3, <1>4
<1>5. CASE Compile \/ Execute
  <2>1. UNCHANGED <<cache, heap, links, vm>> /\ vm = "idle"
    BY <1>1, <1>5, CompilerIdle DEF Compile, Execute, memory, machine
  <2>2. QED
    BY <1>2, <1>4, <2>1 DEF MarchInv
<1>6. CASE LinkWord
  <2>1. /\ links = <<>> /\ Asked \notin DOMAIN cache /\ L!LinkCid(Asked, links)
        /\ UNCHANGED <<vm, phase>>
    BY <1>6 DEF LinkWord, L!Linked, vars, machine
  <2>2. \A i \in 1..Len(links) : Asked < links[i].cid
    BY <2>1, NothingSeq
  <2>3. LinkedOK
    BY <2>1, <2>2, LinkCidOK
  <2>4. QED
    BY <1>1, <1>2, <2>1, <2>3 DEF MarchInv, LinkedOK
<1>7. CASE LinkItem
  <2>1. L!LinkStep /\ UNCHANGED <<vm, phase>>
    BY <1>7 DEF LinkItem, vars, machine
  <2>2. QED
    BY <1>1, <1>2, <2>1, LinkStepOK DEF MarchInv, LinkedOK
<1>8. CASE LinkError
  <2>1. /\ links' = <<>> /\ UNCHANGED <<blobs, cache, heap, vm>> /\ vm = "idle"
    BY <1>8 DEF LinkError, L!LinkFail, Linking, machine
  <2>2. MemoryOK(cache, heap, <<>>, blobs)
    BY <1>1, NothingSeq DEF MemoryOK
  <2>3. QED
    BY <1>2, <2>1, <2>2 DEF MarchInv
<1>9. CASE StartRun
  <2>1. UNCHANGED <<cache, heap, links, phase>> /\ phase = "link"
    BY <1>9 DEF StartRun, Linking, V!VMRun, vars, memory
  <2>2. QED
    BY <1>2, <1>4, <2>1 DEF MarchInv
<1>10. CASE MachineStep
  <2>1. UNCHANGED <<cache, links, phase, heap>> /\ vm = "running"
    BY <1>10, MachineKeeps DEF MachineStep, Kept, vars, memory
  <2>2. QED
    BY <1>1, <1>2, <1>4, <2>1 DEF MarchInv
<1>11. CASE FinishExecute
  <2>1. UNCHANGED <<cache, links, heap>> /\ vm' = "idle"
    BY <1>11 DEF FinishExecute, V!Halt, memory
  <2>2. QED
    BY <1>2, <1>4, <2>1 DEF MarchInv
<1>12. CASE NewProcess
  <2>1. cache' = L!NoCache /\ heap' = <<>> /\ links' = <<>> /\ vm' = "idle"
    BY <1>12 DEF NewProcess
  <2>2. MemoryOK(L!NoCache, <<>>, <<>>, blobs')
    BY NothingSeq DEF MemoryOK, L!NoCache
  <2>3. QED
    BY <1>2, <2>1, <2>2 DEF MarchInv
<1>13. CASE UNCHANGED allVars
  <2>1. UNCHANGED <<cache, heap, links, vm, phase>>
    BY <1>13 DEF allVars, memory, machine, vars
  <2>2. QED
    BY <1>1, <1>2, <1>4, <2>1 DEF MarchInv
<1>14. QED
  BY <1>5, <1>6, <1>7, <1>8, <1>9, <1>10, <1>11, <1>12, <1>13 DEF MarchNext, Running

LEMMA MarchInvInit == MarchInit => MarchInv
<1> SUFFICES ASSUME MarchInit PROVE MarchInv
  OBVIOUS
<1>1. StoreInv /\ blobs = <<>>
  BY StoreInit DEF MarchInit, Init
<1>2. cache = L!NoCache /\ heap = <<>> /\ links = <<>> /\ vm = "idle"
  BY DEF MarchInit, L!LoaderInit, V!VMInit
<1>3. RowsEarlier(<<>>)
  BY NothingSeq DEF RowsEarlier
<1>4. MemoryOK(L!NoCache, <<>>, <<>>, blobs)
  BY NothingSeq DEF MemoryOK, L!NoCache
<1>5. QED
  BY <1>1, <1>2, <1>3, <1>4 DEF MarchInv

(* Whatever is in the CID cache is the complete linked form of its row,    *)
(* with every reference relocated, also while other rows are being linked, *)
(* after a failed link and from one run to the next.                       *)
THEOREM CacheStaysFaithful == MarchSpec => []CacheFaithful
<1>1. MarchInv => CacheFaithful
  <2> SUFFICES ASSUME MarchInv, NEW cid \in DOMAIN cache, heap[cache[cid]].form = "code"
               PROVE  LET o == heap[cache[cid]]
                          code == blobs[cid].data.code
                      IN  /\ Len(o.cells) = Len(code) + 1
                          /\ o.cells[Len(o.cells)] = L!RunExit
                          /\ \A i \in 1..Len(code) : L!Relocated(o.cells[i], code[i])
    BY DEF CacheFaithful, L!CacheFaithful
  <2> DEFINE o    == heap[cache[cid]]
             code == blobs[cid].data.code
  <2>1. cid \in 1..Len(blobs) /\ GoodObject(o, cid, cache, blobs)
    BY DEF MarchInv, MemoryOK
  <2>2. /\ Len(o.cells) = Len(code) + 1 /\ o.cells[Len(o.cells)] = L!RunExit
        /\ \A i \in 1..Len(code) : Relocates(o.cells[i], code[i], cache, blobs)
    BY <2>1 DEF GoodObject
  <2>3. \A i \in 1..Len(code) : code[i] \in Items
    BY <2>1, RowTyped, ElementOfSeq
  <2>4. ASSUME NEW i \in 1..Len(code) PROVE L!Relocated(o.cells[i], code[i])
    <3> DEFINE c == o.cells[i]
               t == code[i]
    <3>1. Relocates(c, t, cache, blobs) /\ t.tag \in {"prim", "lit", "ref"}
      BY <2>2, <2>3 DEF Items
    <3> HIDE DEF c, t
    <3>2. L!Relocated(c, t)
      BY <3>1 DEF Relocates, L!Relocated, L!Linked, L!BLOB_WORD, L!BLOB_QUOTATION,
                  L!BLOB_DATA, BLOB_WORD, BLOB_QUOTATION, BLOB_DATA
    <3>3. QED
      BY <3>2 DEF c, t
  <2>5. QED
    BY <2>2, <2>4
<1>2. QED
  BY <1>1, MarchInvInit, MarchInvNext, PTL DEF MarchSpec

(* No row is linked twice or inside itself: two CIDs never share an        *)
(* address, and a call of the loader links a row stored before those that  *)
(* the calls around it are linking, none of which is in the cache yet.     *)
THEOREM EachLinkedOnce == MarchSpec => []LinkedOnce
<1>1. MarchInv => LinkedOnce
  BY DEF MarchInv, MemoryOK, LinkedOnce, L!LinkedOnce, L!Linked
<1>2. QED
  BY <1>1, MarchInvInit, MarchInvNext, PTL DEF MarchSpec

-----------------------------------------------------------------------------
(* Words as numbers.                                                       *)

LEMMA PowersAre ==
  /\ V!PowerOfTwo \in [Nat -> Nat \ {0}]
  /\ \A k \in Nat : V!PowerOfTwo[k] \in Nat \ {0}
<1> DEFINE G == [q \in Nat \X Nat |-> 2 * q[2]]
<1>1. \A n, s \in Nat : G[<<n, s>>] = 2 * s /\ G[<<n, s>>] \in Nat
  OBVIOUS
<1> HIDE DEF G
<1>2. PICK f \in [Nat -> Nat] : \A n \in Nat : f[n] = IF n = 0 THEN 1 ELSE G[<<n, f[n - 1]>>]
  <2>1. Closed(Nat, 1, G)
    BY <1>1 DEF Closed
  <2>2. PICK f : Follows(f, Nat, 1, G)
    BY <2>1, Recursion
  <2>3. QED
    BY <2>2 DEF Follows
<1>3. f = [k \in Nat |-> IF k = 0 THEN 1 ELSE 2 * f[k - 1]]
  <2>1. ASSUME NEW k \in Nat PROVE f[k] = IF k = 0 THEN 1 ELSE 2 * f[k - 1]
    <3>1. CASE k # 0
      <4>1. k - 1 \in Nat /\ f[k - 1] \in Nat
        BY <1>2, <3>1
      <4>2. G[<<k, f[k - 1]>>] = 2 * f[k - 1]
        BY <1>1, <4>1
      <4>3. f[k] = G[<<k, f[k - 1]>>]
        BY <1>2, <3>1
      <4>4. QED
        BY <3>1, <4>2, <4>3
    <3>2. QED
      BY <1>2, <3>1
  <2>2. QED
    BY <1>2, <2>1
<1>4. V!PowerOfTwo = [k \in Nat |-> IF k = 0 THEN 1 ELSE 2 * V!PowerOfTwo[k - 1]]
  BY <1>3 DEF V!PowerOfTwo
<1>5. \A k \in Nat : V!PowerOfTwo[k] \in Nat \ {0}
  <2> DEFINE S == {k \in Nat : V!PowerOfTwo[k] \in Nat \ {0}}
  <2>1. SUFFICES ASSUME NEW k \in Nat, k = 0 \/ k - 1 \in S PROVE k \in S
    <3> HIDE DEF S
    <3>1. \A k \in Nat : k \in S
      BY Induction
    <3>2. QED
      BY <3>1 DEF S
  <2>2. V!PowerOfTwo[k] = IF k = 0 THEN 1 ELSE 2 * V!PowerOfTwo[k - 1]
    BY <1>4
  <2>3. QED
    BY <2>1, <2>2
<1>6. QED
  BY <1>4, <1>5

LEMMA SignedTyped ==
  ASSUME NEW n \in Int, NEW b \in Nat, b > 0
  PROVE  V!Signed(n, b) \in Int
<1>1. PICK p \in Nat \ {0} : p = V!PowerOfTwo[b]
  BY PowersAre
<1>2. PICK q \in Nat \ {0} : q = V!PowerOfTwo[b - 1]
  <2>1. b - 1 \in Nat
    OBVIOUS
  <2>2. QED
    BY <2>1, PowersAre
<1>3. V!Signed(n, b) = ((n + q) % p) - q
  BY <1>1, <1>2 DEF V!Signed
<1>4. (n + q) % p \in Int
  OBVIOUS
<1>5. QED
  BY <1>3, <1>4

LEMMA WordTyped ==
  ASSUME NEW n \in Int
  PROVE  /\ V!WrapWord(n) \in Int /\ V!LitValue(n) \in Int
         /\ V!Unsigned(n) \in 0..V!PowerOfTwo[WordBits] - 1 /\ V!Unsigned(n) \in Nat
         /\ V!ShiftCount(n) \in Nat
<1>1. WordBits \in Nat /\ WordBits > 2 /\ WordBits - 2 \in Nat /\ WordBits - 2 > 0
  BY MachineAssumption
<1>2. V!WrapWord(n) \in Int /\ V!LitValue(n) \in Int
  BY <1>1, SignedTyped DEF V!WrapWord, V!LitValue
<1>3. PICK p \in Nat \ {0} : p = V!PowerOfTwo[WordBits]
  BY <1>1, PowersAre
<1>4. n % p \in 0..p - 1 /\ n % p \in Nat
  OBVIOUS
<1>5. V!Unsigned(n) = n % p
  BY <1>3 DEF V!Unsigned
<1>6. V!ShiftCount(n) \in Nat
  <2>1. V!Unsigned(n) \in Nat
    BY <1>4, <1>5
  <2>2. QED
    BY <1>1, <2>1 DEF V!ShiftCount
<1>7. QED
  BY <1>2, <1>3, <1>4, <1>5, <1>6

LEMMA CommonBitsTyped ==
  ASSUME NEW a \in Int, NEW b \in Int
  PROVE  V!Conjunction(a, b) \in Int
<1> DEFINE w(k) == V!BitOf(a, k - 1) * V!BitOf(b, k - 1) * V!PowerOfTwo[k - 1]
           digit(k) == IF k # 0 THEN w(k) ELSE 0
           G == [q \in Nat \X Int |-> q[2] + digit(q[1])]
<1>1. WordBits \in Nat
  BY MachineAssumption
<1>2. \A k \in Nat : k # 0 => w(k) \in Int
  <2> SUFFICES ASSUME NEW k \in Nat, k # 0 PROVE w(k) \in Int
    OBVIOUS
  <2>1. PICK p \in Nat \ {0} : p = V!PowerOfTwo[k - 1]
    <3>1. k - 1 \in Nat
      OBVIOUS
    <3>2. QED
      BY <3>1, PowersAre
  <2>2. \A n \in Nat : n \div p \in Int /\ (n \div p) % 2 \in Int
    OBVIOUS
  <2>3. V!BitOf(a, k - 1) \in Int /\ V!BitOf(b, k - 1) \in Int
    BY <2>1, <2>2, WordTyped DEF V!BitOf
  <2>4. PICK x \in Int, y \in Int : x = V!BitOf(a, k - 1) /\ y = V!BitOf(b, k - 1)
    BY <2>3
  <2>5. x * y \in Int
    OBVIOUS
  <2>6. (x * y) * p \in Int
    BY <2>5
  <2>7. QED
    BY <2>1, <2>4, <2>6
<1> HIDE DEF w
<1>3. \A k \in Nat : digit(k) \in Int
  BY <1>2
<1>4. \A k \in Nat : k # 0 => digit(k) = w(k)
  OBVIOUS
<1> HIDE DEF digit
<1>5. \A n \in Nat : \A s \in Int : G[<<n, s>>] = s + digit(n) /\ G[<<n, s>>] \in Int
  BY <1>3
<1> HIDE DEF G
<1>6. PICK f : Follows(f, Int, 0, G)
  <2>1. Closed(Int, 0, G)
    BY <1>5 DEF Closed
  <2>2. QED
    BY <2>1, Recursion
<1>7. f \in [Nat -> Int] /\ f[0] = 0
  BY <1>6 DEF Follows
<1>8. \A k \in Nat : k # 0 => f[k] = f[k - 1] + w(k)
  <2> TAKE k \in Nat
  <2> HAVE k # 0
  <2>1. k - 1 \in Nat /\ f[k] = G[<<k, f[k - 1]>>] /\ f[k - 1] \in Int
    BY <1>6 DEF Follows
  <2>2. QED
    BY <1>4, <1>5, <2>1
<1> DEFINE low == V!CommonBits(a, b)
           g == [k \in 0..WordBits |-> f[k]]
<1>9. g = [k \in 0..WordBits |-> IF k = 0 THEN 0 ELSE g[k - 1] + w(k)]
  <2>1. ASSUME NEW k \in 0..WordBits PROVE g[k] = IF k = 0 THEN 0 ELSE g[k - 1] + w(k)
    <3>1. CASE k # 0
      <4>1. k \in Nat /\ k - 1 \in 0..WordBits
        BY <1>1, <3>1
      <4>2. g[k] = f[k] /\ g[k - 1] = f[k - 1]
        BY <4>1
      <4>3. QED
        BY <1>8, <3>1, <4>1, <4>2
    <3>2. QED
      BY <1>7, <3>1
  <2>2. QED
    BY <2>1
<1> HIDE DEF g
<1>10. low = [k \in 0..WordBits |-> IF k = 0 THEN 0 ELSE low[k - 1] + w(k)]
  BY <1>9 DEF V!CommonBits, w
<1> HIDE DEF low
<1>11. \A k \in Nat : k <= WordBits => low[k] \in Int
  <2> DEFINE S == {k \in Nat : k <= WordBits => low[k] \in Int}
  <2>1. SUFFICES ASSUME NEW k \in Nat, k = 0 \/ k - 1 \in S PROVE k \in S
    <3> HIDE DEF S
    <3>1. \A k \in Nat : k \in S
      BY Induction
    <3>2. QED
      BY <3>1 DEF S
  <2>2. SUFFICES ASSUME k <= WordBits PROVE low[k] \in Int
    OBVIOUS
  <2>3. low[k] = IF k = 0 THEN 0 ELSE low[k - 1] + w(k)
    BY <1>1, <1>10, <2>2
  <2>4. CASE k # 0
    <3>1. low[k - 1] \in Int /\ w(k) \in Int
      BY <1>1, <1>2, <2>1, <2>2, <2>4
    <3>2. QED
      BY <2>3, <2>4, <3>1
  <2>5. QED
    BY <2>3, <2>4
<1>12. QED
  BY <1>1, <1>11 DEF low, V!Conjunction

LEMMA QuotientTyped ==
  ASSUME NEW a \in Int, NEW b \in Int, b # 0
  PROVE  V!Quotient(a, b) \in Int
<1>1. PICK m \in Nat : m = V!Magnitude(a)
  BY DEF V!Magnitude
<1>2. PICK k \in Nat \ {0} : k = V!Magnitude(b)
  BY DEF V!Magnitude
<1>3. PICK q \in Int : q = m \div k
  OBVIOUS
<1>4. V!Quotient(a, b) = IF (a < 0) = (b < 0) THEN q ELSE -q
  BY <1>1, <1>2, <1>3 DEF V!Quotient
<1>5. QED
  BY <1>4

LEMMA CalculateTyped ==
  ASSUME NEW a \in Int, NEW b \in Int, NEW p \in V!Arithmetic, ~V!Traps(p, a, b)
  PROVE  V!Calculate(p, a, b) \in Int
<1>1. PICK c \in Int : c = V!Conjunction(a, b)
  BY CommonBitsTyped
<1>2. PICK n \in Nat : n = V!ShiftCount(b)
  BY WordTyped
<1>3. PICK w \in Nat \ {0} : w = V!PowerOfTwo[n]
  BY PowersAre
<1>4. p \in {"/", "mod"} => b # 0
  BY DEF V!Traps
<1>5. CASE p \in {"/", "mod"}
  <2>1. PICK q \in Int : q = V!Quotient(a, b)
    BY <1>4, <1>5, QuotientTyped
  <2>2. b * q \in Int
    OBVIOUS
  <2>3. a - b * q \in Int
    BY <2>2
  <2>4. QED
    BY <1>5, <2>1, <2>3 DEF V!Calculate
<1>6. CASE p \in {"<<", ">>", ">>>"}
  <2>1. PICK u \in Nat : u = V!Unsigned(a)
    BY WordTyped
  <2>2. a * w \in Int /\ u \div w \in Int /\ a \div w \in Int
    OBVIOUS
  <2>3. QED
    BY <1>2, <1>3, <1>6, <2>1, <2>2 DEF V!Calculate, V!ShiftRight
<1>7. CASE p \in {"+", "-", "*", "and", "or", "xor"}
  <2>1. a + b \in Int /\ a - b \in Int /\ a * b \in Int
        /\ a + b - c \in Int /\ a + b - 2 * c \in Int
    OBVIOUS
  <2>2. QED
    BY <1>1, <1>7, <2>1 DEF V!Calculate
<1>8. QED
  BY <1>5, <1>6, <1>7 DEF V!Arithmetic

-----------------------------------------------------------------------------
(* The library of maps, as the machine uses it. *)

HP == INSTANCE HamtProofs WITH
        Keys <- DOMAIN MapHash, Values <- {}, Hash <- MapHash,
        Histories <- {<<>>}, MaxVersions <- 0, versions <- <<>>

(* No two numbers have the same hash (HashAssumption of Hamt). *)
NoCollisions == \A j, k \in DOMAIN MapHash : MapHash[j] = MapHash[k] => j = k

LEMMA KeysAre == DOMAIN MapHash = 0..V!PowerOfTwo[WordBits] - 1
BY MachineAssumption

LEMMA Hashes == NoCollisions => HP!HashAssumption
<1> SUFFICES ASSUME NoCollisions PROVE HP!HashAssumption
  OBVIOUS
<1>1. PICK w \in Nat \ {0} : w = V!PowerOfTwo[WordBits]
  BY MachineAssumption, PowersAre
<1>2. DOMAIN MapHash = 0..w - 1
  BY <1>1, KeysAre
<1>3. DOMAIN MapHash \subseteq Nat /\ 0 \in DOMAIN MapHash
  BY <1>2
<1>4. MapHash \in [DOMAIN MapHash -> Seq(HP!Chunks) \ {<<>>}]
  BY MachineAssumption DEF HP!Chunks
<1>5. {<<>>} \subseteq Seq(DOMAIN MapHash)
  OBVIOUS
<1>6. \A j, k \in DOMAIN MapHash : Len(MapHash[j]) = Len(MapHash[k])
  BY MachineAssumption
<1>7. QED
  BY <1>3, <1>4, <1>5, <1>6 DEF HP!HashAssumption, NoCollisions

(* What VM calls is what the theorems of HamtProofs are about: each of the *)
(* two is what its definitions say of the same numbers and nodes.          *)
LEMMA SameLibrary ==
  /\ V!H!SetImpl = HP!SetImpl
  /\ V!H!RemoveImpl = HP!RemoveImpl
  /\ V!H!GetFrom = HP!GetFrom
<1>1. V!H!SetImpl = HP!SetImpl
  BY DEF V!H!SetImpl, HP!SetImpl,
       V!H!Chunks, HP!Chunks, V!H!NULL, HP!NULL, V!H!Levels, HP!Levels, V!H!Chunk, HP!Chunk,
       V!H!Untagged, HP!Untagged, V!H!Tagged, HP!Tagged, V!H!IsValue, HP!IsValue,
       V!H!Leaf, HP!Leaf, V!H!Branch, HP!Branch, V!H!Node, HP!Node, V!H!SlotIndex,
       HP!SlotIndex, V!H!Pointers, HP!Pointers, V!H!Nodes, HP!Nodes, V!H!WellFormed,
       HP!WellFormed, V!H!Memory, HP!Memory, V!H!At, HP!At, V!H!Malloc, HP!Malloc,
       V!H!Write, HP!Write, V!H!SlotOf, HP!SlotOf, V!H!WithSlot, HP!WithSlot,
       V!H!WithoutSlot, HP!WithoutSlot, V!H!Result, HP!Result, V!H!CloneWith,
       HP!CloneWith, V!H!CloneWithout, HP!CloneWithout, V!H!CountUp, HP!CountUp,
       V!H!CountDown, HP!CountDown, V!H!Call, HP!Call, V!H!Calls, HP!Calls, V!H!Below,
       HP!Below, V!H!ChunkAt, HP!ChunkAt, V!H!NodeAt, HP!NodeAt, V!H!IndexAt,
       HP!IndexAt, V!H!SlotAt, HP!SlotAt, V!H!NodeHere, HP!NodeHere, V!H!Occupied,
       HP!Occupied, V!H!LeafAt, HP!LeafAt, V!H!BranchAt, HP!BranchAt, V!H!Found,
       HP!Found, V!H!NewLeaf, HP!NewLeaf, V!H!AddLeaf, HP!AddLeaf, V!H!SetLeaf,
       HP!SetLeaf, V!H!SetBranch, HP!SetBranch, V!H!Cardinality, HP!Cardinality
<1>2. V!H!RemoveImpl = HP!RemoveImpl
  BY DEF V!H!RemoveImpl, HP!RemoveImpl,
       V!H!Chunks, HP!Chunks, V!H!NULL, HP!NULL, V!H!Levels, HP!Levels, V!H!Chunk, HP!Chunk,
       V!H!Untagged, HP!Untagged, V!H!Tagged, HP!Tagged, V!H!IsValue, HP!IsValue,
       V!H!Leaf, HP!Leaf, V!H!Branch, HP!Branch, V!H!Node, HP!Node, V!H!SlotIndex,
       HP!SlotIndex, V!H!Pointers, HP!Pointers, V!H!Nodes, HP!Nodes, V!H!WellFormed,
       HP!WellFormed, V!H!Memory, HP!Memory, V!H!At, HP!At, V!H!Malloc, HP!Malloc,
       V!H!Write, HP!Write, V!H!SlotOf, HP!SlotOf, V!H!WithSlot, HP!WithSlot,
       V!H!WithoutSlot, HP!WithoutSlot, V!H!Result, HP!Result, V!H!CloneWith,
       HP!CloneWith, V!H!CloneWithout, HP!CloneWithout, V!H!CountUp, HP!CountUp,
       V!H!CountDown, HP!CountDown, V!H!Call, HP!Call, V!H!Calls, HP!Calls, V!H!Below,
       HP!Below, V!H!ChunkAt, HP!ChunkAt, V!H!NodeAt, HP!NodeAt, V!H!IndexAt,
       HP!IndexAt, V!H!SlotAt, HP!SlotAt, V!H!NodeHere, HP!NodeHere, V!H!Occupied,
       HP!Occupied, V!H!LeafAt, HP!LeafAt, V!H!BranchAt, HP!BranchAt, V!H!Found,
       HP!Found, V!H!NewLeaf, HP!NewLeaf, V!H!AddLeaf, HP!AddLeaf, V!H!SetLeaf,
       HP!SetLeaf, V!H!SetBranch, HP!SetBranch, V!H!Cardinality, HP!Cardinality
<1>3. V!H!GetFrom = HP!GetFrom
  BY DEF V!H!GetFrom, HP!GetFrom,
       V!H!Chunks, HP!Chunks, V!H!NULL, HP!NULL, V!H!Levels, HP!Levels, V!H!Chunk, HP!Chunk,
       V!H!Untagged, HP!Untagged, V!H!Tagged, HP!Tagged, V!H!IsValue, HP!IsValue,
       V!H!Leaf, HP!Leaf, V!H!Branch, HP!Branch, V!H!Node, HP!Node, V!H!SlotIndex,
       HP!SlotIndex, V!H!Pointers, HP!Pointers, V!H!Nodes, HP!Nodes, V!H!WellFormed,
       HP!WellFormed, V!H!Memory, HP!Memory, V!H!At, HP!At, V!H!Malloc, HP!Malloc,
       V!H!Write, HP!Write, V!H!SlotOf, HP!SlotOf, V!H!WithSlot, HP!WithSlot,
       V!H!WithoutSlot, HP!WithoutSlot, V!H!Result, HP!Result, V!H!CloneWith,
       HP!CloneWith, V!H!CloneWithout, HP!CloneWithout, V!H!CountUp, HP!CountUp,
       V!H!CountDown, HP!CountDown, V!H!Call, HP!Call, V!H!Calls, HP!Calls, V!H!Below,
       HP!Below, V!H!ChunkAt, HP!ChunkAt, V!H!NodeAt, HP!NodeAt, V!H!IndexAt,
       HP!IndexAt, V!H!SlotAt, HP!SlotAt, V!H!NodeHere, HP!NodeHere, V!H!Occupied,
       HP!Occupied, V!H!LeafAt, HP!LeafAt, V!H!BranchAt, HP!BranchAt, V!H!Found,
       HP!Found, V!H!NewLeaf, HP!NewLeaf, V!H!AddLeaf, HP!AddLeaf, V!H!SetLeaf,
       HP!SetLeaf, V!H!SetBranch, HP!SetBranch, V!H!Cardinality, HP!Cardinality
<1>4. QED
  BY <1>1, <1>2, <1>3

(* Pointers to nodes stay so while memory grows. *)
LEMMA PointersStay ==
  ASSUME NEW h, NEW g, Len(h) \in Nat, Len(g) \in Nat, Len(h) <= Len(g)
  PROVE  HP!Pointers(h) \subseteq HP!Pointers(g)
BY DEF HP!Pointers

LEMMA LibraryTyped ==
  ASSUME NoCollisions, nodes \in HP!Memory, NEW p \in HP!Pointers(nodes),
         NEW k \in DOMAIN MapHash, NEW v \in Int
  PROVE  /\ V!H!Get(p, k) \in Int
         /\ V!H!Size(p) \in Int
         /\ HP!Outcome(V!H!HamtSet(p, k, v), nodes)
         /\ HP!Outcome(V!H!HamtRemove(p, k), nodes)
<1>1. HP!HashAssumption
  BY Hashes
<1>2. PICK c : c = HP!Call(nodes, p, k, v, 0)
  OBVIOUS
<1>3. PICK d : d = HP!Call(nodes, p, k, 0, 0)
  OBVIOUS
<1>4. c \in HP!Calls /\ c.heap = nodes /\ d \in HP!Calls /\ d.heap = nodes
  <2>1. 0 \in 0..HP!Levels
    BY <1>1, HP!LevelsAre
  <2>2. 0 \in Int
    OBVIOUS
  <2>3. QED
    BY <1>1, <1>2, <1>3, <2>1, <2>2, HP!CallIs
<1>5. HP!Outcome(HP!SetImpl[c], nodes) /\ HP!Outcome(HP!RemoveImpl[d], nodes)
  BY <1>1, <1>4, HP!SetImplIs, HP!RemoveImplIs DEF HP!Outcomes
<1>6. HP!GetFrom[d] \in Int
  BY <1>1, <1>4, HP!GetFromIs DEF HP!Answers
<1>7. V!H!HamtSet(p, k, v) = HP!SetImpl[c]
  BY <1>2, SameLibrary DEF V!H!HamtSet, V!H!Call, HP!Call
<1>8. V!H!HamtRemove(p, k) = HP!RemoveImpl[d]
  BY <1>3, SameLibrary DEF V!H!HamtRemove, V!H!Call, HP!Call
<1>9. V!H!Get(p, k) = HP!GetFrom[d]
  BY <1>3, SameLibrary DEF V!H!Get, V!H!Call, HP!Call
<1>10. V!H!Size(p) \in Int
  <2>1. p # HP!NULL => HP!At(nodes, p) \in HP!Nodes
    BY <1>1, HP!MemoryNode
  <2>2. p # HP!NULL => HP!At(nodes, p).count \in Int
    BY <2>1 DEF HP!Nodes
  <2>3. V!H!Size(p) = IF p = HP!NULL THEN 0 ELSE HP!At(nodes, p).count
    BY DEF V!H!Size, V!H!NULL, V!H!At, HP!NULL, HP!At
  <2>4. QED
    BY <2>2, <2>3
<1>11. QED
  BY <1>5, <1>6, <1>7, <1>8, <1>9, <1>10

LEMMA OutcomeTyped ==
  ASSUME NoCollisions, nodes \in HP!Memory, NEW r, HP!Outcome(r, nodes)
  PROVE  /\ r.heap \in HP!Memory /\ r.node \in HP!Pointers(r.heap)
         /\ HP!Pointers(nodes) \subseteq HP!Pointers(r.heap)
<1>1. HP!HashAssumption
  BY Hashes
<1>2. r.heap \in HP!Memory /\ r.node \in HP!Pointers(r.heap) /\ HP!Extends(r.heap, nodes)
  BY <1>1, HP!OutcomeHas
<1>3. Len(nodes) \in Nat /\ Len(r.heap) \in Nat
  BY <1>1, <1>2, HP!MemoryLen
<1>4. QED
  BY <1>2, <1>3, PointersStay DEF HP!Extends

-----------------------------------------------------------------------------
(* What the machine and the loader hold.  Every address and position is of *)
(* an object in memory h, every map a node of ns.                          *)

LiveValues(h, ns) ==
  {v \in V!Values : /\ v.tag = "addr" => v.n \in 1..Len(h)
                    /\ v.tag = "pos"  => v.n \in 0..Len(h)
                    /\ v.tag = "map"  => v.n \in HP!Pointers(ns)}

LiveCells(h)   == {c \in L!RunCells : c.op \in {"call", "addr"} => c.n \in 1..Len(h)}
LiveObjects(h) == [form : {"code", "data", "junk"}, cells : Seq(LiveCells(h)), n : Int]
LiveLinks(h)   == [cid : Nat, cells : Seq(LiveCells(h))]

LoaderLive == heap \in Seq(LiveObjects(heap)) /\ links \in Seq(LiveLinks(heap))

Positions == [obj : 0..Len(heap), pos : Int]

InCode ==
  /\ ip \in [obj : 0..Len(heap), pos : Nat]
  /\ vm = "running" => entry \in 1..Len(heap) /\ ip.pos \in 1..Len(V!StreamOf(ip.obj))

StacksLive == ds \in Seq(LiveValues(heap, nodes)) /\ rs \in Seq(LiveValues(heap, nodes))

MachineLive ==
  /\ vm \in {"idle", "running", "fault"}
  /\ nodes \in HP!Memory
  /\ StacksLive
  /\ InCode

MachineInv == MarchInv /\ LoaderLive /\ MachineLive

(* The machine at work. *)
AtWork == MachineInv /\ vm = "running"

-----------------------------------------------------------------------------
(* Stacks. *)

LEMMA PopTyped ==
  ASSUME NEW S, NEW s \in Seq(S), NEW n \in Nat
  PROVE  V!Pop(s, n) \in Seq(S)
<1>1. Len(s) \in Nat /\ 1 \in Int /\ Len(s) - n \in Int
  BY LenProperties
<1>2. \A i \in 1..Len(s) - n : i \in 1..Len(s)
  BY <1>1
<1>3. \A i \in 1..Len(s) - n : s[i] \in S
  BY <1>2, ElementOfSeq
<1>4. SubSeq(s, 1, Len(s) - n) \in Seq(S)
  BY <1>1, <1>3, SubSeqProperties
<1>5. QED
  BY <1>4 DEF V!Pop

LEMMA PushTyped ==
  ASSUME NEW S, NEW s \in Seq(S), NEW v \in S
  PROVE  Append(s, v) \in Seq(S) /\ \A n \in Nat : Append(V!Pop(s, n), v) \in Seq(S)
BY PopTyped, AppendProperties

(* The values within reach of a stack. *)
LEMMA FromTop ==
  ASSUME NEW S, NEW s \in Seq(S), NEW k \in Nat, Len(s) > k
  PROVE  Len(s) \in Nat /\ s[Len(s) - k] \in S
<1>1. Len(s) \in Nat /\ Len(s) - k \in 1..Len(s)
  BY LenProperties
<1>2. QED
  BY <1>1, ElementOfSeq

LEMMA NotEmpty == ASSUME NEW S, NEW s \in Seq(S), s # <<>> PROVE Len(s) \in Nat /\ Len(s) > 0
BY LenProperties, EmptySeq

LEMMA NumberLive ==
  ASSUME NEW h, NEW ns, NEW n \in Int
  PROVE  V!IntVal(n) \in LiveValues(h, ns)
BY DEF V!IntVal, LiveValues, V!Values

LEMMA FlagLive == ASSUME NEW h, NEW ns, NEW b PROVE V!Flag(b) \in LiveValues(h, ns)
<1>1. (IF b THEN -1 ELSE 0) \in Int
  OBVIOUS
<1>2. QED
  BY <1>1, NumberLive DEF V!Flag

LEMMA MapLive ==
  ASSUME NEW h, NEW ns, NEW p \in HP!Pointers(ns), p \in Int
  PROVE  V!MapVal(p) \in LiveValues(h, ns)
BY DEF V!MapVal, LiveValues, V!Values

LEMMA ValueHas ==
  ASSUME NEW h, NEW ns, NEW v \in LiveValues(h, ns)
  PROVE  /\ v.n \in Int /\ v.pos \in Nat
         /\ v.tag = "addr" => v.n \in 1..Len(h)
         /\ v.tag = "pos"  => v.n \in 0..Len(h)
         /\ v.tag = "map"  => v.n \in HP!Pointers(ns)
BY DEF LiveValues, V!Values

LEMMA SeqSubset ==
  ASSUME NEW S, NEW T, S \subseteq T, NEW s \in Seq(S)
  PROVE  s \in Seq(T)
OBVIOUS

LEMMA ValuesStay ==
  ASSUME NEW h, NEW ns, NEW h2, NEW ns2, Len(h) \in Nat, Len(h2) \in Nat, Len(h) <= Len(h2),
         HP!Pointers(ns) \subseteq HP!Pointers(ns2)
  PROVE  LiveValues(h, ns) \subseteq LiveValues(h2, ns2)
BY DEF LiveValues

LEMMA WorkHas ==
  ASSUME AtWork
  PROVE  /\ vm = "running" /\ Len(heap) \in Nat /\ nodes \in HP!Memory
         /\ ds \in Seq(LiveValues(heap, nodes)) /\ rs \in Seq(LiveValues(heap, nodes))
         /\ ip.obj \in 0..Len(heap) /\ ip.pos \in Nat /\ entry \in 1..Len(heap)
BY LenProperties DEF AtWork, MachineInv, LoaderLive, MachineLive, StacksLive, InCode

LEMMA NoNameTyped == V!NoName \in STRING /\ L!NoName \in STRING
BY SpellingAssumption DEF V!NoName, L!NoName, NoName

LEMMA StreamLive ==
  ASSUME AtWork
  PROVE  /\ V!Stream \in Seq(LiveCells(heap)) /\ Len(V!Stream) \in Nat
         /\ V!Cell \in LiveCells(heap) /\ ip.pos \in 1..Len(V!Stream)
<1>1. CASE ip.obj = 0
  <2>1. entry \in 1..Len(heap) /\ entry \in Int
    BY WorkHas
  <2>2. [op |-> "call", s |-> V!NoName, n |-> entry] \in LiveCells(heap)
    BY <2>1, NoNameTyped DEF LiveCells, L!RunCells
  <2>3. [op |-> "exit", s |-> V!NoName, n |-> 0] \in LiveCells(heap)
    BY NoNameTyped DEF LiveCells, L!RunCells
  <2>4. V!Bootstrap \in Seq(LiveCells(heap))
    BY <2>2, <2>3 DEF V!Bootstrap
  <2>5. V!Stream = V!Bootstrap
    BY <1>1 DEF V!Stream, V!StreamOf
  <2>6. QED
    BY <2>4, <2>5, LenProperties, ElementOfSeq
       DEF AtWork, MachineInv, MachineLive, InCode, V!Cell, V!Stream
<1>2. CASE ip.obj # 0
  <2>1. ip.obj \in 1..Len(heap)
    BY <1>2, WorkHas
  <2>2. heap[ip.obj] \in LiveObjects(heap)
    BY <2>1, ElementOfSeq DEF AtWork, MachineInv, LoaderLive
  <2>3. V!Stream = heap[ip.obj].cells
    BY <1>2 DEF V!Stream, V!StreamOf
  <2>4. V!Stream \in Seq(LiveCells(heap))
    BY <2>2, <2>3 DEF LiveObjects
  <2>5. QED
    BY <2>4, LenProperties, ElementOfSeq
       DEF AtWork, MachineInv, MachineLive, InCode, V!Cell, V!Stream
<1>3. QED
  BY <1>1, <1>2

LEMMA NextIpIs == ASSUME AtWork PROVE V!NextIp \in Positions
BY WorkHas DEF V!NextIp, V!Position, Positions

-----------------------------------------------------------------------------
(* Steps of the machine. *)

LEMMA FaultLive == ASSUME AtWork, V!Fault PROVE MachineLive'
BY DEF V!Fault, AtWork, MachineInv, MachineLive, StacksLive, InCode

LEMMA ContinueLive ==
  ASSUME AtWork, NEW p \in Positions, NEW ns \in HP!Memory,
         NEW d \in Seq(LiveValues(heap, ns)), NEW r \in Seq(LiveValues(heap, ns)),
         V!ContinueWith(p, d, r, ns)
  PROVE  MachineLive'
<1>1. CASE V!Fault
  BY <1>1, FaultLive
<1>2. CASE /\ p.pos \in 1..Len(V!StreamOf(p.obj))
           /\ ip' = p /\ ds' = d /\ rs' = r /\ nodes' = ns /\ UNCHANGED <<heap, vm, entry>>
  <2>1. vm' = "running" /\ entry' \in 1..Len(heap') /\ nodes' \in HP!Memory
    BY <1>2, WorkHas
  <2>2. StacksLive'
    BY <1>2 DEF StacksLive
  <2>3. p \in [obj : 0..Len(heap), pos : Nat]
    <3>1. p.pos \in 1..Len(V!StreamOf(p.obj)) /\ p.pos \in Int /\ p.obj \in 0..Len(heap)
          /\ p = [obj |-> p.obj, pos |-> p.pos]
      BY <1>2 DEF Positions
    <3>2. p.pos \in Nat
      BY <3>1
    <3>3. QED
      BY <3>1, <3>2
  <2>4. V!StreamOf(ip.obj)' = V!StreamOf(p.obj)
    BY <1>2 DEF V!StreamOf, V!Bootstrap
  <2>5. InCode'
    BY <1>2, <2>1, <2>3, <2>4 DEF InCode
  <2>6. QED
    BY <2>1, <2>2, <2>5 DEF MachineLive
<1>3. QED
  BY <1>1, <1>2 DEF V!ContinueWith

LEMMA GoOnward ==
  ASSUME AtWork, NEW p \in Positions,
         NEW d \in Seq(LiveValues(heap, nodes)), NEW r \in Seq(LiveValues(heap, nodes)),
         V!Continue(p, d, r)
  PROVE  MachineLive'
BY ContinueLive, WorkHas DEF V!Continue

LEMMA GoOnLive ==
  ASSUME AtWork, NEW w \in LiveValues(heap, nodes),
         NEW d \in Seq(LiveValues(heap, nodes)), NEW r \in Seq(LiveValues(heap, nodes)),
         V!GoOn(w, d, r)
  PROVE  MachineLive'
<1>1. CASE w.tag = "pos"
  <2>1. V!Position(w.n, w.pos) \in Positions
    BY <1>1, ValueHas DEF Positions, V!Position
  <2>2. V!Continue(V!Position(w.n, w.pos), d, r)
    BY <1>1 DEF V!GoOn
  <2>3. QED
    BY <2>1, <2>2, GoOnward
<1>2. QED
  BY <1>1, FaultLive DEF V!GoOn

LEMMA DocolLive ==
  ASSUME AtWork, NEW addr \in 1..Len(heap), NEW d \in Seq(LiveValues(heap, nodes)),
         V!Docol(addr, d)
  PROVE  MachineLive'
<1>1. CASE V!Continue(V!Position(addr, 1), d, Append(rs, V!PosVal(V!NextIp)))
  <2>1. V!Position(addr, 1) \in Positions
    BY WorkHas DEF Positions, V!Position
  <2>2. V!PosVal(V!NextIp) \in LiveValues(heap, nodes)
    BY WorkHas DEF V!PosVal, V!NextIp, V!Position, LiveValues, V!Values
  <2>3. Append(rs, V!PosVal(V!NextIp)) \in Seq(LiveValues(heap, nodes))
    BY <2>2, WorkHas, PushTyped
  <2>4. QED
    BY <1>1, <2>1, <2>3, GoOnward
<1>2. QED
  BY <1>1, FaultLive DEF V!Docol

LEMMA LiteralLive ==
  ASSUME AtWork, V!DoLit \/ V!DoAddr
  PROVE  MachineLive'
<1>1. CASE V!DoLit
  <2>1. V!Cell.n \in Int
    BY StreamLive DEF LiveCells, L!RunCells
  <2>2. V!IntVal(V!LitValue(V!Cell.n)) \in LiveValues(heap, nodes)
    BY <2>1, WordTyped, NumberLive
  <2>3. Append(ds, V!IntVal(V!LitValue(V!Cell.n))) \in Seq(LiveValues(heap, nodes))
    BY <2>2, WorkHas, PushTyped
  <2>4. QED
    BY <1>1, <2>3, NextIpIs, WorkHas, GoOnward DEF V!DoLit
<1>2. CASE V!DoAddr
  <2>1. V!Cell.n \in 1..Len(heap) /\ V!Cell.n \in Int
    BY <1>2, StreamLive DEF LiveCells, L!RunCells, V!DoAddr, V!At
  <2>2. V!AddrVal(V!Cell.n) \in LiveValues(heap, nodes)
    BY <2>1 DEF V!AddrVal, LiveValues, V!Values
  <2>3. Append(ds, V!AddrVal(V!Cell.n)) \in Seq(LiveValues(heap, nodes))
    BY <2>2, WorkHas, PushTyped
  <2>4. QED
    BY <1>2, <2>3, NextIpIs, WorkHas, GoOnward DEF V!DoAddr
<1>3. QED
  BY <1>1, <1>2

LEMMA CallLive ==
  ASSUME AtWork, V!DoCall \/ V!DoExit \/ V!DoExecute
  PROVE  MachineLive'
<1>1. CASE V!DoCall
  <2>1. V!Cell.n \in 1..Len(heap)
    BY <1>1, StreamLive DEF LiveCells, L!RunCells, V!DoCall, V!At
  <2>2. QED
    BY <1>1, <2>1, WorkHas, DocolLive DEF V!DoCall
<1>2. CASE V!DoExit
  <2>1. rs # <<>>
    BY <1>2 DEF V!DoExit
  <2>2. Len(rs) \in Nat /\ rs[Len(rs)] \in LiveValues(heap, nodes)
    BY <2>1, WorkHas, NotEmpty, ElementOfSeq
  <2>3. PICK w : w = rs[Len(rs)]
    OBVIOUS
  <2>4. CASE w.tag = "pos"
    <3>1. V!Position(w.n, w.pos) \in Positions
      BY <2>2, <2>3, <2>4, ValueHas DEF Positions, V!Position
    <3>2. V!Pop(rs, 1) \in Seq(LiveValues(heap, nodes))
      BY WorkHas, PopTyped
    <3>3. V!Continue(V!Position(w.n, w.pos), ds, V!Pop(rs, 1))
      BY <1>2, <2>3, <2>4 DEF V!DoExit
    <3>4. QED
      BY <3>1, <3>2, <3>3, WorkHas, GoOnward
  <2>5. QED
    BY <1>2, <2>3, <2>4, FaultLive DEF V!DoExit
<1>3. CASE V!DoExecute
  <2>1. CASE V!Fault
    BY <2>1, FaultLive
  <2>2. CASE ds # <<>> /\ V!TopVal.tag = "addr" /\ V!Docol(V!TopVal.n, V!Pop(ds, 1))
    <3>1. V!TopVal \in LiveValues(heap, nodes)
      BY <2>2, WorkHas, NotEmpty, ElementOfSeq DEF V!TopVal
    <3>2. V!TopVal.n \in 1..Len(heap)
      BY <2>2, <3>1, ValueHas
    <3>3. QED
      BY <2>2, <3>2, WorkHas, PopTyped, DocolLive
  <2>3. CASE V!Continue(V!NextIp, V!Pop(ds, 1), rs)
    BY <2>3, NextIpIs, WorkHas, PopTyped, GoOnward
  <2>4. QED
    BY <1>3, <2>1, <2>2, <2>3 DEF V!DoExecute
<1>4. QED
  BY <1>1, <1>2, <1>3

LEMMA BranchLive ==
  ASSUME AtWork, V!DoBranch \/ V!DoZeroBranch
  PROVE  MachineLive'
<1>1. CASE V!Fault
  BY <1>1, FaultLive
<1>2. ASSUME V!HasOperand PROVE V!Jump \in Positions /\ V!Skip \in Positions
  <2>1. ip.pos + 1 \in 1..Len(V!Stream)
    BY <1>2, StreamLive DEF V!HasOperand
  <2>2. V!Stream[ip.pos + 1] \in LiveCells(heap)
    BY <2>1, StreamLive, ElementOfSeq
  <2>3. V!Stream[ip.pos + 1].n \in Int
    BY <2>2 DEF LiveCells, L!RunCells
  <2>4. V!Operand \in Int
    BY <2>3, WordTyped DEF V!Operand
  <2>5. ip.obj \in 0..Len(heap) /\ ip.pos + 2 + V!Operand \in Int /\ ip.pos + 2 \in Int
    BY <2>4, WorkHas
  <2>6. QED
    BY <2>5 DEF V!Jump, V!Skip, V!Position, Positions
<1>3. CASE V!DoBranch
  <2>1. CASE V!HasOperand /\ V!Continue(V!Jump, ds, rs)
    BY <1>2, <2>1, WorkHas, GoOnward
  <2>2. QED
    BY <1>1, <1>3, <2>1 DEF V!DoBranch
<1>4. CASE V!DoZeroBranch
  <2>1. CASE /\ V!HasOperand
             /\ V!Continue(IF V!TopVal = V!IntVal(0) THEN V!Jump ELSE V!Skip, V!Pop(ds, 1), rs)
    <3>1. (IF V!TopVal = V!IntVal(0) THEN V!Jump ELSE V!Skip) \in Positions
      BY <1>2, <2>1
    <3>2. QED
      BY <2>1, <3>1, WorkHas, PopTyped, GoOnward
  <2>2. QED
    BY <1>1, <1>4, <2>1 DEF V!DoZeroBranch
<1>5. QED
  BY <1>3, <1>4

LEMMA ReturnStackLive ==
  ASSUME AtWork, V!DoToR \/ V!DoFromR \/ V!DoRFetch \/ V!DoRDrop
  PROVE  MachineLive'
<1> DEFINE S == Seq(LiveValues(heap, nodes))
<1>1. CASE V!Fault
  BY <1>1, FaultLive
<1>2. V!NextIp \in Positions /\ ds \in S /\ rs \in S /\ V!Pop(ds, 1) \in S /\ V!Pop(rs, 1) \in S
  BY NextIpIs, WorkHas, PopTyped
<1>3. ds # <<>> => Append(rs, V!TopVal) \in S
  BY <1>2, NotEmpty, ElementOfSeq, PushTyped DEF V!TopVal
<1>4. rs # <<>> => Append(ds, rs[Len(rs)]) \in S
  BY <1>2, NotEmpty, ElementOfSeq, PushTyped
<1>5. CASE V!DoToR
  BY <1>1, <1>2, <1>3, <1>5, GoOnward DEF V!DoToR
<1>6. CASE V!DoFromR
  BY <1>1, <1>2, <1>4, <1>6, GoOnward DEF V!DoFromR
<1>7. CASE V!DoRFetch
  BY <1>1, <1>2, <1>4, <1>7, GoOnward DEF V!DoRFetch
<1>8. CASE V!DoRDrop
  BY <1>1, <1>2, <1>8, GoOnward DEF V!DoRDrop
<1>9. QED
  BY <1>5, <1>6, <1>7, <1>8

LEMMA EndOfStack ==
  ASSUME NEW S, NEW s \in Seq(S), NEW k \in Nat, Len(s) > k
  PROVE  Len(s) - k \in 1..Len(s) /\ SubSeq(s, Len(s) - k, Len(s)) \in Seq(S)
<1>1. Len(s) \in Nat /\ Len(s) - k \in Int /\ Len(s) - k \in 1..Len(s)
  BY LenProperties
<1>2. \A i \in Len(s) - k..Len(s) : s[i] \in S
  <2>1. \A i \in Len(s) - k..Len(s) : i \in 1..Len(s)
    BY <1>1
  <2>2. QED
    BY <2>1, ElementOfSeq
<1>3. QED
  BY <1>1, <1>2, SubSeqProperties

(* What DoData has made sure of when it computes the result of p on s.     *)
Operates(p, s) ==
  /\ s \in Seq(LiveValues(heap, nodes))
  /\ p \in V!Unary \cup {"over"} \cup V!Arithmetic \cup V!Comparisons
  /\ Len(s) > 0
  /\ p \notin V!Unary => Len(s) > 1
  /\ Len(s) > 1 => ~V!Traps(p, s[Len(s) - 1].n, s[Len(s)].n)

LEMMA ResultTyped ==
  ASSUME NEW s, NEW p, Operates(p, s)
  PROVE  V!DataResult(p, s) \in Seq(LiveValues(heap, nodes))
<1> USE DEF Operates
<1>1. PICK S : S = LiveValues(heap, nodes)
  OBVIOUS
<1>2. PICK n : n = Len(s)
  OBVIOUS
<1>3. PICK a, b : a = s[n - 1] /\ b = s[n]
  OBVIOUS
<1>4. s \in Seq(S) /\ n \in Nat /\ b \in S
  BY <1>1, <1>2, <1>3, LenProperties, ElementOfSeq
<1>5. p \notin V!Unary => a \in S
  <2>1. n > 1 => n - 1 \in 1..Len(s)
    BY <1>2, <1>4
  <2>2. QED
    BY <1>2, <1>3, <1>4, <2>1, ElementOfSeq
<1>6. \A v \in S : v.n \in Int
  BY <1>1, ValueHas
<1>7. V!Pop(s, 1) \in Seq(S) /\ V!Pop(s, 2) \in Seq(S)
  BY <1>4, PopTyped
<1>8. \A v \in S : /\ Append(V!Pop(s, 1), v) \in Seq(S) /\ Append(V!Pop(s, 2), v) \in Seq(S)
                   /\ Append(s, v) \in Seq(S)
  BY <1>4, PushTyped
<1>9. \A f : V!Flag(f) \in S
  BY <1>1, FlagLive
<1>10. \A k \in Int : V!IntVal(k) \in S
  BY <1>1, NumberLive
<1>11. CASE p \in V!Unary
  <2>1. p \in {"dup", "_", "drop", "free"} => V!DataResult(p, s) \in Seq(S)
    <3>1. /\ p = "dup" => V!DataResult(p, s) = Append(s, b)
          /\ p = "_"   => V!DataResult(p, s) = s
          /\ p \in {"drop", "free"} => V!DataResult(p, s) = V!Pop(s, 1)
      BY <1>2, <1>3 DEF V!DataResult, V!Flag, V!Arithmetic, V!Comparisons
    <3>2. QED
      BY <1>4, <1>7, <1>8, <3>1
  <2>2. p \in {"0=", "lnot"} => V!DataResult(p, s) = Append(V!Pop(s, 1), V!Flag(b = V!IntVal(0)))
    BY <1>2, <1>3 DEF V!DataResult, V!Flag, V!Arithmetic, V!Comparisons
  <2>3. p = "0>" => V!DataResult(p, s) = Append(V!Pop(s, 1), V!Flag(b.n > 0))
    BY <1>2, <1>3 DEF V!DataResult, V!Flag, V!Arithmetic, V!Comparisons
  <2>4. p = "0<" => V!DataResult(p, s) = Append(V!Pop(s, 1), V!Flag(b.n < 0))
    BY <1>2, <1>3 DEF V!DataResult, V!Flag, V!Arithmetic, V!Comparisons
  <2>5. p = "not" => V!DataResult(p, s) \in Seq(S)
    <3>1. p = "not" => V!DataResult(p, s) = Append(V!Pop(s, 1), V!IntVal(-1 - b.n))
      BY <1>2, <1>3 DEF V!DataResult, V!Flag, V!Arithmetic, V!Comparisons
    <3>2. -1 - b.n \in Int
      BY <1>4, <1>6
    <3>3. QED
      BY <1>8, <1>10, <3>1, <3>2
  <2>6. /\ V!Flag(b = V!IntVal(0)) \in S
        /\ V!Flag(b.n > 0) \in S
        /\ V!Flag(b.n < 0) \in S
    BY <1>1, FlagLive
  <2>7. /\ Append(V!Pop(s, 1), V!Flag(b = V!IntVal(0))) \in Seq(S)
        /\ Append(V!Pop(s, 1), V!Flag(b.n > 0)) \in Seq(S)
        /\ Append(V!Pop(s, 1), V!Flag(b.n < 0)) \in Seq(S)
    BY <1>8, <2>6
  <2>8. QED
    BY <1>1, <1>11, <2>1, <2>2, <2>3, <2>4, <2>5, <2>7 DEF V!Unary
<1>12. CASE p = "over"
  <2>1. V!DataResult(p, s) = Append(s, a)
    BY <1>2, <1>3, <1>12 DEF V!DataResult, V!Flag, V!Arithmetic, V!Comparisons
  <2>2. a \in S
    BY <1>5, <1>12 DEF V!Unary
  <2>3. QED
    BY <1>1, <1>8, <2>1, <2>2
<1>13. CASE p \in V!Arithmetic
  <2>1. V!DataResult(p, s) = Append(V!Pop(s, 2), V!IntVal(V!WrapWord(V!Calculate(p, a.n, b.n))))
    BY <1>2, <1>3, <1>13 DEF V!DataResult, V!Flag, V!Arithmetic, V!Comparisons
  <2>2. a \in S /\ n > 1
    BY <1>2, <1>5, <1>13 DEF V!Unary, V!Arithmetic
  <2>3. ~V!Traps(p, a.n, b.n)
    BY <1>2, <1>3, <2>2
  <2>4. V!Calculate(p, a.n, b.n) \in Int
    BY <1>4, <1>6, <1>13, <2>2, <2>3, CalculateTyped
  <2>5. QED
    BY <1>1, <1>8, <1>10, <2>1, <2>4, WordTyped
<1>14. CASE p \in V!Comparisons
  <2>1. V!DataResult(p, s) = Append(V!Pop(s, 2), V!Flag(V!Compare(p, a, b)))
    BY <1>2, <1>3, <1>14 DEF V!DataResult, V!Comparisons, V!Arithmetic, V!Flag
  <2>2. QED
    BY <1>1, <1>8, <1>9, <2>1
<1>15. QED
  BY <1>11, <1>12, <1>13, <1>14

LEMMA DataLive ==
  ASSUME AtWork, V!DoData
  PROVE  MachineLive'
<1>1. CASE V!Fault
  BY <1>1, FaultLive
<1>2. PICK p : p = V!Cell.s
  OBVIOUS
<1>3. p \in V!Unary \cup {"over"} \cup V!Arithmetic \cup V!Comparisons
  BY <1>2 DEF V!DoData, V!AtPrim
<1>4. CASE ~(\/ Len(ds) < (IF p \in V!Unary THEN 1 ELSE 2)
             \/ Len(ds) > 1 /\ V!Traps(p, ds[Len(ds) - 1].n, V!TopVal.n))
  <2>1. Len(ds) \in Nat
    BY WorkHas, LenProperties
  <2>2. /\ Len(ds) > 0
        /\ p \notin V!Unary => Len(ds) > 1
        /\ Len(ds) > 1 => ~V!Traps(p, ds[Len(ds) - 1].n, ds[Len(ds)].n)
    BY <1>4, <2>1 DEF V!TopVal
  <2>3. V!DataResult(p, ds) \in Seq(LiveValues(heap, nodes))
    <3>1. Operates(p, ds)
      BY <1>3, <2>2, WorkHas DEF Operates
    <3>2. QED
      BY <3>1, ResultTyped
  <2>4. V!Continue(V!NextIp, V!DataResult(p, ds), rs)
    BY <1>2, <1>4 DEF V!DoData
  <2>5. QED
    BY <2>3, <2>4, NextIpIs, WorkHas, GoOnward
<1>5. QED
  BY <1>1, <1>2, <1>4 DEF V!DoData

LEMMA ShuffleLive ==
  ASSUME AtWork, V!DoSwap \/ V!DoRot \/ V!DoTwoToR \/ V!DoTwoFromR
  PROVE  MachineLive'
<1>1. CASE V!Fault
  BY <1>1, FaultLive
<1>2. PICK S : S = LiveValues(heap, nodes)
  OBVIOUS
<1>3. ds \in Seq(S) /\ rs \in Seq(S) /\ Len(ds) \in Nat /\ Len(rs) \in Nat
  BY <1>2, WorkHas, LenProperties
<1>4. V!Pop(ds, 2) \in Seq(S) /\ V!Pop(ds, 3) \in Seq(S) /\ V!Pop(rs, 2) \in Seq(S)
  BY <1>3, PopTyped
<1>5. Len(ds) > 0 => ds[Len(ds)] \in S
  BY <1>3, ElementOfSeq
<1>6. Len(ds) > 1 => ds[Len(ds) - 1] \in S
  BY <1>3, EndOfStack, ElementOfSeq
<1>7. Len(ds) > 2 => ds[Len(ds) - 2] \in S
  BY <1>3, EndOfStack, ElementOfSeq
<1>8. ASSUME NEW w \in S, NEW d \in Seq(S), NEW r \in Seq(S), V!GoOn(w, d, r)
      PROVE  MachineLive'
  BY <1>2, <1>8, GoOnLive
<1>9. CASE V!DoSwap
  <2>1. CASE Len(ds) > 1
    <3>1. PICK x, y : x = ds[Len(ds)] /\ y = ds[Len(ds) - 1]
      OBVIOUS
    <3>2. x \in S /\ y \in S
      BY <1>3, <1>5, <1>6, <2>1, <3>1
    <3>3. <<x, y>> \in Seq(S)
      BY <3>2
    <3>4. V!Pop(ds, 2) \o <<x, y>> \in Seq(S)
      BY <1>4, <3>3, ConcatProperties
    <3>5. V!GoOn(y, V!Pop(ds, 2) \o <<x, y>>, rs)
      BY <1>3, <1>9, <2>1, <3>1 DEF V!DoSwap
    <3>6. QED
      BY <1>3, <1>8, <3>2, <3>4, <3>5
  <2>2. QED
    BY <1>1, <1>3, <1>9, <2>1 DEF V!DoSwap
<1>10. CASE V!DoRot
  <2>1. CASE Len(ds) > 2
    <3>1. PICK x, y, z : x = ds[Len(ds)] /\ y = ds[Len(ds) - 1] /\ z = ds[Len(ds) - 2]
      OBVIOUS
    <3>2. x \in S /\ y \in S /\ z \in S
      BY <1>3, <1>5, <1>6, <1>7, <2>1, <3>1
    <3>3. <<y, x, z>> \in Seq(S)
      BY <3>2
    <3>4. V!Pop(ds, 3) \o <<y, x, z>> \in Seq(S)
      BY <1>4, <3>3, ConcatProperties
    <3>5. V!GoOn(y, V!Pop(ds, 3) \o <<y, x, z>>, rs)
      BY <1>3, <1>10, <2>1, <3>1 DEF V!DoRot
    <3>6. QED
      BY <1>3, <1>8, <3>2, <3>4, <3>5
  <2>2. QED
    BY <1>1, <1>3, <1>10, <2>1 DEF V!DoRot
<1>11. CASE V!DoTwoToR
  <2>1. CASE Len(ds) > 1
    <3>1. SubSeq(ds, Len(ds) - 1, Len(ds)) \in Seq(S)
      BY <1>3, <2>1, EndOfStack
    <3>2. rs \o SubSeq(ds, Len(ds) - 1, Len(ds)) \in Seq(S)
      BY <1>3, <3>1, ConcatProperties
    <3>3. V!TopVal \in S
      BY <1>3, <1>5, <2>1 DEF V!TopVal
    <3>4. V!GoOn(V!TopVal, V!Pop(ds, 2), rs \o SubSeq(ds, Len(ds) - 1, Len(ds)))
      BY <1>3, <1>11, <2>1 DEF V!DoTwoToR
    <3>5. QED
      BY <1>4, <1>8, <3>2, <3>3, <3>4
  <2>2. QED
    BY <1>1, <1>3, <1>11, <2>1 DEF V!DoTwoToR
<1>12. CASE V!DoTwoFromR
  <2>1. CASE Len(rs) > 1
    <3>1. SubSeq(rs, Len(rs) - 1, Len(rs)) \in Seq(S)
      BY <1>3, <2>1, EndOfStack
    <3>2. ds \o SubSeq(rs, Len(rs) - 1, Len(rs)) \in Seq(S)
      BY <1>3, <3>1, ConcatProperties
    <3>3. rs[Len(rs)] \in S
      BY <1>3, <2>1, ElementOfSeq
    <3>4. V!GoOn(rs[Len(rs)], ds \o SubSeq(rs, Len(rs) - 1, Len(rs)), V!Pop(rs, 2))
      BY <1>3, <1>12, <2>1 DEF V!DoTwoFromR
    <3>5. QED
      BY <1>4, <1>8, <3>2, <3>3, <3>4
  <2>2. QED
    BY <1>1, <1>3, <1>12, <2>1 DEF V!DoTwoFromR
<1>13. QED
  BY <1>9, <1>10, <1>11, <1>12

-----------------------------------------------------------------------------
(* Memory and maps.                                                        *)

LEMMA MemoryLive ==
  ASSUME AtWork,
         V!DoAlloc \/ V!DoFetch \/ V!DoStore \/ V!DoArrayAt \/ V!DoInPlace \/ V!DoLeaveStack
  PROVE  MachineLive'
<1>1. CASE V!Fault
  BY <1>1, FaultLive
<1>2. PICK S : S = LiveValues(heap, nodes)
  OBVIOUS
<1>3. ds \in Seq(S) /\ rs \in Seq(S) /\ Len(ds) \in Nat /\ V!NextIp \in Positions
  BY <1>2, WorkHas, LenProperties, NextIpIs
<1>4. \A k \in Nat : V!Pop(ds, k) \in Seq(S) /\ \A v \in S : Append(V!Pop(ds, k), v) \in Seq(S)
  BY <1>3, PopTyped, PushTyped
<1>5. \A w \in Int : V!IntVal(w) \in S
  BY <1>2, NumberLive
<1>6. JunkWords \subseteq Int
  BY MachineAssumption
<1>7. ASSUME NEW d \in Seq(S), V!Continue(V!NextIp, d, rs)
      PROVE  MachineLive'
  BY <1>2, <1>3, <1>7, GoOnward
<1>8. CASE V!DoAlloc
  <2>1. V!BlockVal \in S
    BY <1>2 DEF V!BlockVal, LiveValues, V!Values
  <2>2. (IF V!TopVal.n < 0 THEN V!IntVal(0) ELSE V!BlockVal) \in S
    BY <1>5, <2>1
  <2>3. QED
    BY <1>1, <1>4, <1>7, <1>8, <2>2 DEF V!DoAlloc
<1>9. CASE V!DoFetch
  <2>1. CASE \E w \in JunkWords :
               V!Continue(V!NextIp,
                 Append(V!Pop(ds, 1), V!IntVal(IF V!Cell.s = "c@" THEN w % 256 ELSE w)), rs)
    <3>1. PICK w \in JunkWords :
            V!Continue(V!NextIp,
              Append(V!Pop(ds, 1), V!IntVal(IF V!Cell.s = "c@" THEN w % 256 ELSE w)), rs)
      BY <2>1
    <3>2. w \in Int /\ w % 256 \in Int
      BY <1>6
    <3>3. V!IntVal(IF V!Cell.s = "c@" THEN w % 256 ELSE w) \in S
      BY <1>5, <3>2
    <3>4. QED
      BY <1>4, <1>7, <3>1, <3>3
  <2>2. QED
    BY <1>1, <1>9, <2>1 DEF V!DoFetch
<1>10. CASE V!DoStore
  <2>1. CASE Len(ds) > 1
    <3>1. ds[Len(ds) - 1] \in S
      BY <1>3, <2>1, EndOfStack, ElementOfSeq
    <3>2. CASE V!GoOn(ds[Len(ds) - 1], V!Pop(ds, 2), rs)
      BY <1>2, <1>3, <1>4, <3>1, <3>2, GoOnLive
    <3>3. QED
      BY <1>1, <1>10, <3>2 DEF V!DoStore
  <2>2. QED
    BY <1>1, <1>3, <1>10, <2>1 DEF V!DoStore
<1>11. CASE V!DoArrayAt
  <2>1. CASE \E w \in JunkWords \cup {0} :
               V!Continue(V!NextIp, Append(V!Pop(ds, 2), V!IntVal(w)), rs)
    <3>1. PICK w \in JunkWords \cup {0} :
            V!Continue(V!NextIp, Append(V!Pop(ds, 2), V!IntVal(w)), rs)
      BY <2>1
    <3>2. V!IntVal(w) \in S
      BY <1>5, <1>6
    <3>3. QED
      BY <1>4, <1>7, <3>1, <3>2
  <2>2. QED
    BY <1>1, <1>11, <2>1 DEF V!DoArrayAt
<1>12. CASE V!DoInPlace
  <2>1. \E k \in {2, 0} : V!Continue(V!NextIp, V!Pop(ds, k), rs)
    BY <1>12 DEF V!DoInPlace
  <2>2. QED
    BY <1>4, <1>7, <2>1
<1>13. CASE V!DoLeaveStack
  BY <1>1, <1>13 DEF V!DoLeaveStack
<1>14. QED
  BY <1>8, <1>9, <1>10, <1>11, <1>12, <1>13

(* The operands of a primitive on maps.                                    *)
LEMMA MapOperands ==
  ASSUME AtWork, NEW p, NEW k \in Nat \ {0}, V!AtMap(p, k)
  PROVE  /\ Len(ds) \in Nat /\ Len(ds) >= k
         /\ V!Item(k).n \in HP!Pointers(nodes) /\ V!Item(k).n \in Int
         /\ \A i \in 1..k : V!Item(i).n \in Int /\ V!Key(V!Item(i)) \in DOMAIN MapHash
<1>1. Len(ds) \in Nat /\ Len(ds) >= k /\ V!IsMap(V!Item(k))
  BY WorkHas, LenProperties DEF V!AtMap
<1>2. \A i \in 1..k : V!Item(i) \in LiveValues(heap, nodes)
  <2> TAKE i \in 1..k
  <2>1. Len(ds) + 1 - i \in 1..Len(ds)
    BY <1>1
  <2>2. QED
    BY <2>1, WorkHas, ElementOfSeq DEF V!Item
<1>3. \A i \in 1..k : V!Item(i).n \in Int
  BY <1>2, ValueHas
<1>4. V!Item(k).n \in HP!Pointers(nodes)
  <2>1. CASE V!Item(k) = V!MapVal(V!H!NULL)
    <3>1. V!Item(k).n = 0
      BY <2>1 DEF V!MapVal, V!H!NULL
    <3>2. Len(nodes) \in Nat
      BY WorkHas, LenProperties DEF HP!Memory
    <3>3. 0 \in HP!Pointers(nodes)
      BY <3>2 DEF HP!Pointers
    <3>4. QED
      BY <3>1, <3>3
  <2>2. CASE V!Item(k).tag = "map"
    BY <1>2, <2>2, ValueHas
  <2>3. QED
    BY <1>1, <2>1, <2>2 DEF V!IsMap
<1>5. \A i \in 1..k : V!Key(V!Item(i)) \in DOMAIN MapHash
  BY <1>3, WordTyped, KeysAre DEF V!Key
<1>6. QED
  BY <1>1, <1>3, <1>4, <1>5

(* A call of the library leads to memory with the map it returns.          *)
LEMMA OutcomeLive ==
  ASSUME AtWork, NoCollisions, NEW r, HP!Outcome(r, nodes), NEW k \in Nat,
         V!ContinueWith(V!NextIp, Append(V!Pop(ds, k), V!MapVal(r.node)), rs, r.heap)
  PROVE  MachineLive'
<1>1. /\ r.heap \in HP!Memory /\ r.node \in HP!Pointers(r.heap)
      /\ HP!Pointers(nodes) \subseteq HP!Pointers(r.heap)
  BY WorkHas, OutcomeTyped
<1>2. LiveValues(heap, nodes) \subseteq LiveValues(heap, r.heap)
  BY <1>1 DEF LiveValues
<1>3. V!Pop(ds, k) \in Seq(LiveValues(heap, nodes))
  BY WorkHas, PopTyped
<1>4. V!Pop(ds, k) \in Seq(LiveValues(heap, r.heap)) /\ rs \in Seq(LiveValues(heap, r.heap))
  BY <1>2, <1>3, WorkHas, SeqSubset
<1>5. r.node \in Int
  BY <1>1 DEF HP!Pointers
<1>6. V!MapVal(r.node) \in LiveValues(heap, r.heap)
  BY <1>1, <1>5, MapLive
<1>7. Append(V!Pop(ds, k), V!MapVal(r.node)) \in Seq(LiveValues(heap, r.heap))
  BY <1>4, <1>6, AppendProperties
<1>8. QED
  BY <1>1, <1>4, <1>7, NextIpIs, ContinueLive

LEMMA MapChangesLive ==
  ASSUME AtWork, NoCollisions, V!DoMapSet \/ V!DoMapRemove
  PROVE  MachineLive'
<1>1. CASE V!DoMapSet
  <2>1. V!AtMap("march.map.set", 3)
    BY <1>1 DEF V!DoMapSet
  <2>2. /\ V!Item(3).n \in HP!Pointers(nodes) /\ V!Key(V!Item(2)) \in DOMAIN MapHash
        /\ V!Item(1).n \in Int
    BY <2>1, MapOperands
  <2>3. PICK r : r = V!H!HamtSet(V!Item(3).n, V!Key(V!Item(2)), V!Item(1).n)
    OBVIOUS
  <2>4. HP!Outcome(r, nodes)
    BY <2>2, <2>3, WorkHas, LibraryTyped
  <2>5. V!ContinueWith(V!NextIp, Append(V!Pop(ds, 3), V!MapVal(r.node)), rs, r.heap)
    BY <1>1, <2>3 DEF V!DoMapSet
  <2>6. QED
    BY <2>4, <2>5, OutcomeLive
<1>2. CASE V!DoMapRemove
  <2>1. V!AtMap("march.map.remove", 2)
    BY <1>2 DEF V!DoMapRemove
  <2>2. V!Item(2).n \in HP!Pointers(nodes) /\ V!Key(V!Item(1)) \in DOMAIN MapHash
    BY <2>1, MapOperands
  <2>3. PICK r : r = V!H!HamtRemove(V!Item(2).n, V!Key(V!Item(1)))
    OBVIOUS
  <2>4. HP!Outcome(r, nodes)
    <3>1. 0 \in Int
      OBVIOUS
    <3>2. QED
      BY <2>2, <2>3, <3>1, WorkHas, LibraryTyped
  <2>5. V!ContinueWith(V!NextIp, Append(V!Pop(ds, 2), V!MapVal(r.node)), rs, r.heap)
    BY <1>2, <2>3 DEF V!DoMapRemove
  <2>6. QED
    BY <2>4, <2>5, OutcomeLive
<1>3. QED
  BY <1>1, <1>2

LEMMA MapReadsLive ==
  ASSUME AtWork, NoCollisions, V!DoMapFault \/ V!DoMapNew \/ V!DoMapGet \/ V!DoMapSize
  PROVE  MachineLive'
<1>1. PICK S : S = LiveValues(heap, nodes)
  OBVIOUS
<1>2. ds \in Seq(S) /\ rs \in Seq(S) /\ V!NextIp \in Positions
  BY <1>1, WorkHas, NextIpIs
<1>3. ASSUME NEW d \in Seq(S), V!Continue(V!NextIp, d, rs)
      PROVE  MachineLive'
  BY <1>1, <1>2, <1>3, GoOnward
<1>4. CASE V!DoMapFault
  BY <1>4, FaultLive DEF V!DoMapFault
<1>5. CASE V!DoMapNew
  <2>1. V!MapVal(V!H!NULL) = V!IntVal(0)
    BY DEF V!MapVal, V!IntVal, V!H!NULL
  <2>2. V!MapVal(V!H!NULL) \in S
    BY <1>1, <2>1, NumberLive
  <2>3. Append(ds, V!MapVal(V!H!NULL)) \in Seq(S)
    BY <1>2, <2>2, AppendProperties
  <2>4. QED
    BY <1>3, <1>5, <2>3 DEF V!DoMapNew
<1>6. CASE V!DoMapGet
  <2>1. V!Item(2).n \in HP!Pointers(nodes) /\ V!Key(V!Item(1)) \in DOMAIN MapHash
    BY <1>6, MapOperands DEF V!DoMapGet
  <2>2. V!H!Get(V!Item(2).n, V!Key(V!Item(1))) \in Int
    <3>1. 0 \in Int
      OBVIOUS
    <3>2. QED
      BY <2>1, <3>1, WorkHas, LibraryTyped
  <2>3. V!IntVal(V!H!Get(V!Item(2).n, V!Key(V!Item(1)))) \in S
    BY <1>1, <2>2, NumberLive
  <2>4. Append(V!Pop(ds, 2), V!IntVal(V!H!Get(V!Item(2).n, V!Key(V!Item(1))))) \in Seq(S)
    BY <1>2, <2>3, PushTyped
  <2>5. QED
    BY <1>3, <1>6, <2>4 DEF V!DoMapGet
<1>7. CASE V!DoMapSize
  <2>1. V!Item(1).n \in HP!Pointers(nodes) /\ V!Key(V!Item(1)) \in DOMAIN MapHash
    BY <1>7, MapOperands DEF V!DoMapSize
  <2>2. V!H!Size(V!Item(1).n) \in Int
    <3>1. 0 \in Int
      OBVIOUS
    <3>2. QED
      BY <2>1, <3>1, WorkHas, LibraryTyped
  <2>3. V!IntVal(V!H!Size(V!Item(1).n)) \in S
    BY <1>1, <2>2, NumberLive
  <2>4. Append(V!Pop(ds, 1), V!IntVal(V!H!Size(V!Item(1).n))) \in Seq(S)
    BY <1>2, <2>3, PushTyped
  <2>5. QED
    BY <1>3, <1>7, <2>4 DEF V!DoMapSize
<1>8. QED
  BY <1>4, <1>5, <1>6, <1>7

LEMMA MapFreeLive == ASSUME AtWork, NoCollisions, V!DoMapFree PROVE MachineLive'
<1>1. PICK R : R = V!H!Reach(V!Item(1).n)
  OBVIOUS
<1>2. PICK g : g = HP!FreedMemory(nodes, R)
  OBVIOUS
<1>3. HP!HashAssumption
  BY Hashes
<1>4. g \in HP!Memory /\ HP!Pointers(g) = HP!Pointers(nodes)
  BY <1>2, <1>3, WorkHas, HP!FreedFits
<1>5. V!ContinueWith(V!NextIp, V!Pop(ds, 1), rs, g)
  <2>1. V!H!Gone = HP!Gone
    BY DEF V!H!Gone, HP!Gone, V!H!Node, HP!Node
  <2>2. g = [i \in 1..Len(nodes) |-> IF 2 * i \in R THEN V!H!Gone ELSE nodes[i]]
    BY <1>2, <2>1 DEF HP!FreedMemory
  <2>3. QED
    BY <1>1, <2>2 DEF V!DoMapFree
<1>6. LiveValues(heap, g) = LiveValues(heap, nodes)
  BY <1>4 DEF LiveValues
<1>7. V!Pop(ds, 1) \in Seq(LiveValues(heap, nodes))
  BY WorkHas, PopTyped
<1>8. V!Pop(ds, 1) \in Seq(LiveValues(heap, g)) /\ rs \in Seq(LiveValues(heap, g))
  BY <1>6, <1>7, WorkHas
<1>9. QED
  BY <1>4, <1>5, <1>8, NextIpIs, ContinueLive

LEMMA StepLive == ASSUME AtWork, NoCollisions, V!VMStep PROVE MachineLive'
<1>1. CASE V!DoLit \/ V!DoAddr
  BY <1>1, LiteralLive
<1>2. CASE V!DoCall \/ V!DoExit \/ V!DoExecute
  BY <1>2, CallLive
<1>3. CASE V!DoBranch \/ V!DoZeroBranch
  BY <1>3, BranchLive
<1>4. CASE V!DoToR \/ V!DoFromR \/ V!DoRFetch \/ V!DoRDrop
  BY <1>4, ReturnStackLive
<1>5. CASE V!DoData
  BY <1>5, DataLive
<1>6. CASE V!DoSwap \/ V!DoRot \/ V!DoTwoToR \/ V!DoTwoFromR
  BY <1>6, ShuffleLive
<1>7. CASE V!DoAlloc \/ V!DoFetch \/ V!DoStore \/ V!DoArrayAt \/ V!DoInPlace \/ V!DoLeaveStack
  BY <1>7, MemoryLive
<1>8. CASE V!DoMapFault \/ V!DoMapNew \/ V!DoMapGet \/ V!DoMapSize
  BY <1>8, MapReadsLive
<1>9. CASE V!DoMapSet \/ V!DoMapRemove
  BY <1>9, MapChangesLive
<1>10. CASE V!DoMapFree
  BY <1>10, MapFreeLive
<1>11. QED
  BY <1>1, <1>2, <1>3, <1>4, <1>5, <1>6, <1>7, <1>8, <1>9, <1>10 DEF V!VMStep

-----------------------------------------------------------------------------
(* The loader.                                                             *)

(* What there is in a smaller memory there is in a larger one.             *)
LEMMA MemoryGrows ==
  ASSUME NEW h, NEW g, Len(h) \in Nat, Len(g) \in Nat, Len(h) <= Len(g)
  PROVE  /\ LiveCells(h) \subseteq LiveCells(g)
         /\ LiveObjects(h) \subseteq LiveObjects(g)
         /\ LiveLinks(h) \subseteq LiveLinks(g)
         /\ \A ns : LiveValues(h, ns) \subseteq LiveValues(g, ns)
<1>1. 1..Len(h) \subseteq 1..Len(g) /\ 0..Len(h) \subseteq 0..Len(g)
  OBVIOUS
<1>2. LiveCells(h) \subseteq LiveCells(g)
  BY <1>1 DEF LiveCells
<1>3. Seq(LiveCells(h)) \subseteq Seq(LiveCells(g))
  BY <1>2
<1>4. LiveObjects(h) \subseteq LiveObjects(g)
  BY <1>3 DEF LiveObjects
<1>5. LiveLinks(h) \subseteq LiveLinks(g)
  BY <1>3 DEF LiveLinks
<1>6. \A ns : LiveValues(h, ns) \subseteq LiveValues(g, ns)
  BY <1>1 DEF LiveValues
<1>7. QED
  BY <1>2, <1>4, <1>5, <1>6

(* What the loader does to the machine while that stands still.            *)
LEMMA IdleLive ==
  ASSUME MachineInv, vm = "idle", UNCHANGED machine,
         Len(heap') \in Nat, Len(heap) <= Len(heap')
  PROVE  MachineLive'
<1>1. Len(heap) \in Nat
  BY LenProperties DEF MachineInv, LoaderLive
<1>2. UNCHANGED <<vm, ip, ds, rs, nodes>>
  BY DEF machine
<1>3. LiveValues(heap, nodes) \subseteq LiveValues(heap', nodes)
  BY <1>1, MemoryGrows
<1>4. ds \in Seq(LiveValues(heap', nodes)) /\ rs \in Seq(LiveValues(heap', nodes))
  BY <1>3, SeqSubset DEF MachineInv, MachineLive, StacksLive
<1>5. ip \in [obj : 0..Len(heap), pos : Nat] /\ 0..Len(heap) \subseteq 0..Len(heap')
  BY <1>1 DEF MachineInv, MachineLive, InCode
<1>6. ip \in [obj : 0..Len(heap'), pos : Nat]
  BY <1>5
<1>7. StacksLive' /\ InCode'
  BY <1>2, <1>4, <1>6 DEF StacksLive, InCode
<1>8. QED
  BY <1>2, <1>7 DEF MachineInv, MachineLive

LEMMA AllocateLive ==
  ASSUME MachineInv, vm = "idle", UNCHANGED machine,
         NEW cid, NEW o \in LiveObjects(heap), L!Allocate(cid, o),
         links' \in Seq(LiveLinks(heap))
  PROVE  LoaderLive' /\ MachineLive'
<1>1. heap \in Seq(LiveObjects(heap)) /\ Len(heap) \in Nat
  BY LenProperties DEF MachineInv, LoaderLive
<1>2. heap' = Append(heap, o)
  BY DEF L!Allocate
<1>3. heap' \in Seq(LiveObjects(heap)) /\ Len(heap') = Len(heap) + 1
  BY <1>1, <1>2, AppendProperties
<1>4. Len(heap') \in Nat /\ Len(heap) <= Len(heap')
  BY <1>1, <1>3
<1>5. LiveObjects(heap) \subseteq LiveObjects(heap') /\ LiveLinks(heap) \subseteq LiveLinks(heap')
  BY <1>1, <1>4, MemoryGrows
<1>6. heap' \in Seq(LiveObjects(heap')) /\ links' \in Seq(LiveLinks(heap'))
  BY <1>3, <1>5, SeqSubset
<1>7. QED
  BY <1>4, <1>6, IdleLive DEF LoaderLive

LEMMA LinkCidLive ==
  ASSUME MachineInv, vm = "idle", UNCHANGED machine, NEW cid, L!LinkCid(cid, links)
  PROVE  LoaderLive' /\ MachineLive'
<1>1. heap \in Seq(LiveObjects(heap)) /\ links \in Seq(LiveLinks(heap)) /\ Len(heap) \in Nat
  BY LenProperties DEF MachineInv, LoaderLive
<1>2. cid \in 1..Len(blobs) /\ Len(blobs) \in Nat
  BY RowsCounted DEF L!LinkCid, MachineInv, MarchInv, StoreInv
<1>3. CASE links' = Append(links, [cid |-> cid, cells |-> <<>>]) /\ UNCHANGED <<cache, heap>>
  <2>1. [cid |-> cid, cells |-> <<>>] \in LiveLinks(heap)
    BY <1>2 DEF LiveLinks
  <2>2. links' \in Seq(LiveLinks(heap))
    BY <1>1, <1>3, <2>1, AppendProperties
  <2>3. LoaderLive'
    BY <1>1, <1>3, <2>2 DEF LoaderLive
  <2>4. QED
    BY <1>1, <1>3, <2>3, IdleLive
<1>4. CASE L!Allocate(cid, L!JunkObject) /\ links' = links
  <2>1. L!JunkObject \in LiveObjects(heap)
    BY DEF L!JunkObject, LiveObjects
  <2>2. QED
    BY <1>1, <1>4, <2>1, AllocateLive
<1>5. CASE L!Allocate(cid, L!DataObject(blobs[cid].data.n)) /\ links' = links
  <2>1. blobs[cid].data.n \in Int
    <3>1. blobs[cid] \in Rows
      BY <1>2, ElementOfSeq DEF MachineInv, MarchInv, StoreInv, TypeInv, TypeOK
    <3>2. QED
      BY <3>1 DEF Rows, Data
  <2>2. L!DataObject(blobs[cid].data.n) \in LiveObjects(heap)
    BY <2>1 DEF L!DataObject, LiveObjects
  <2>3. QED
    BY <1>1, <1>5, <2>2, AllocateLive
<1>6. QED
  BY <1>3, <1>4, <1>5 DEF L!LinkCid

LEMMA LinkLive ==
  ASSUME MachineInv, links # <<>>
  PROVE  /\ Len(links) \in Nat /\ Len(links) \in 1..Len(links)
         /\ L!Link \in LiveLinks(heap) /\ L!Link = links[Len(links)]
         /\ L!Link.cells \in Seq(LiveCells(heap)) /\ L!Link.cid \in Nat
<1>1. links \in Seq(LiveLinks(heap))
  BY DEF MachineInv, LoaderLive
<1>2. Len(links) \in Nat /\ Len(links) \in 1..Len(links)
  BY <1>1, NotEmpty
<1>3. L!Link \in LiveLinks(heap)
  BY <1>1, <1>2, ElementOfSeq DEF L!Link
<1>4. QED
  BY <1>2, <1>3 DEF LiveLinks, L!Link

LEMMA AppendCellLive ==
  ASSUME MachineInv, vm = "idle", UNCHANGED machine, links # <<>>,
         NEW c \in LiveCells(heap), L!AppendCell(c)
  PROVE  LoaderLive' /\ MachineLive'
<1>1. PICK n : n = Len(links)
  OBVIOUS
<1>2. PICK S : S = LiveLinks(heap)
  OBVIOUS
<1>3. links \in Seq(S) /\ links \in [1..n -> S] /\ n \in Nat /\ n \in 1..n
  BY <1>1, <1>2, LinkLive, LenProperties DEF MachineInv, LoaderLive
<1>4. PICK l : l = [links[n] EXCEPT !.cells = Append(@, c)]
  OBVIOUS
<1>5. l \in S
  <2>1. links[n] \in S
    BY <1>3
  <2>2. Append(links[n].cells, c) \in Seq(LiveCells(heap))
    BY <1>1, LinkLive, AppendProperties
  <2>3. QED
    BY <1>2, <1>4, <2>1, <2>2 DEF LiveLinks
<1>6. links' = [links EXCEPT ![n] = l]
  BY <1>1, <1>4 DEF L!AppendCell
<1>7. links' \in [1..n -> S]
  BY <1>3, <1>5, <1>6
<1>8. links' \in Seq(S)
  BY <1>3, <1>7
<1>9. UNCHANGED heap
  BY DEF L!AppendCell
<1>10. LoaderLive'
  BY <1>2, <1>8, <1>9 DEF MachineInv, LoaderLive
<1>11. Len(heap) \in Nat
  BY LenProperties DEF MachineInv, LoaderLive
<1>12. QED
  BY <1>9, <1>10, <1>11, IdleLive

(* The cells an item becomes.                                              *)
LEMMA ItemCells ==
  ASSUME MachineInv, L!AtItem
  PROVE  /\ L!Item.tag = "prim" => L!RunPrim(L!Item.s) \in LiveCells(heap)
         /\ L!Item.tag = "lit"  => L!RunLit(L!Item.n) \in LiveCells(heap)
<1>1. MarchInv
  BY DEF MachineInv
<1>2. links # <<>> /\ Len(L!Link.cells) < Len(L!LinkCode)
      /\ L!Item = L!LinkCode[Len(L!Link.cells) + 1]
  BY <1>1, ItemTyped
<1>3. L!LinkCode \in Seq(Items) /\ Len(L!LinkCode) \in Nat /\ Len(L!Link.cells) \in Nat
  BY <1>1, <1>2, InnermostLink
<1>4. Len(L!Link.cells) + 1 \in 1..Len(L!LinkCode)
  BY <1>2, <1>3
<1>5. L!Item \in Items
  BY <1>2, <1>3, <1>4, ElementOfSeq
<1>6. L!Item.s \in STRING /\ L!Item.n \in Int
  BY <1>5 DEF Items
<1>7. L!NoName \in STRING
  BY NoNameTyped
<1>8. QED
  BY <1>6, <1>7 DEF L!RunPrim, L!RunLit, LiveCells, L!RunCells

(* The cells a reference to something in memory becomes.                   *)
LEMMA ReferenceCells ==
  ASSUME MachineInv, NEW kind \in {0} \cup Kinds, NEW addr \in 1..Len(heap),
         kind # 0, NEW c \in L!UseOf(kind, addr)
  PROVE  c \in LiveCells(heap)
<1>1. L!NoName \in STRING /\ addr \in Int
  <2>1. heap \in Seq(LiveObjects(heap))
    BY DEF MachineInv, LoaderLive
  <2>2. Len(heap) \in Nat
    BY <2>1, LenProperties
  <2>3. addr \in Int
    BY <2>2
  <2>4. QED
    BY <2>3, NoNameTyped
<1>2. CASE kind = BLOB_WORD
  <2>1. c = L!RunCall(addr)
    BY <1>2 DEF L!UseOf, L!BLOB_WORD, L!BLOB_QUOTATION, L!BLOB_DATA, BLOB_WORD
  <2>2. QED
    BY <1>1, <2>1 DEF L!RunCall, LiveCells, L!RunCells
<1>3. CASE kind = BLOB_QUOTATION
  <2>1. c = L!RunAddr(addr)
    BY <1>3 DEF L!UseOf, L!BLOB_WORD, L!BLOB_QUOTATION, L!BLOB_DATA, BLOB_QUOTATION
  <2>2. QED
    BY <1>1, <2>1 DEF L!RunAddr, LiveCells, L!RunCells
<1>4. CASE kind = BLOB_DATA
  <2>1. c \in {L!RunLit(w) : w \in L!WordAt(addr)}
    BY <1>4 DEF L!UseOf, L!BLOB_WORD, L!BLOB_QUOTATION, L!BLOB_DATA, BLOB_DATA
  <2>2. L!WordAt(addr) \subseteq Int
    <3>1. heap[addr] \in LiveObjects(heap)
      BY ElementOfSeq DEF MachineInv, LoaderLive
    <3>2. QED
      BY <3>1, MachineAssumption DEF LiveObjects, L!WordAt
  <2>3. QED
    BY <1>1, <2>1, <2>2 DEF L!RunLit, LiveCells, L!RunCells
<1>5. QED
  BY <1>2, <1>3, <1>4 DEF Kinds

LEMMA LinkRefLive ==
  ASSUME MachineInv, vm = "idle", UNCHANGED machine, L!LinkRef
  PROVE  LoaderLive' /\ MachineLive'
<1>1. L!AtItem /\ L!Item.n \in DOMAIN cache /\ links # <<>> /\ L!Item.tag = "ref"
  BY DEF L!LinkRef, L!Linked, L!AtItem
<1>2. cache[L!Item.n] \in 1..Len(heap)
  BY <1>1 DEF MachineInv, MarchInv, MemoryOK
<1>3. PICK c \in L!UseOf(L!Item.kind, cache[L!Item.n]) : L!AppendCell(c)
  BY DEF L!LinkRef
<1>4. L!Item.kind \in {0} \cup Kinds /\ L!Item.kind # 0
  <2>1. L!Item.kind \in Kinds
    BY <1>1, ItemTyped DEF MachineInv
  <2>2. QED
    BY <2>1 DEF Kinds, BLOB_WORD, BLOB_QUOTATION, BLOB_DATA
<1>5. QED
  BY <1>1, <1>2, <1>3, <1>4, ReferenceCells, AppendCellLive

LEMMA LinkDoneLive ==
  ASSUME MachineInv, vm = "idle", UNCHANGED machine, L!LinkDone
  PROVE  LoaderLive' /\ MachineLive'
<1>1. links # <<>> /\ links' = SubSeq(links, 1, Len(links) - 1)
      /\ L!Allocate(L!Link.cid, L!CodeObject(Append(L!Link.cells, L!RunExit)))
  BY DEF L!LinkDone
<1>2. L!RunExit \in LiveCells(heap)
  BY NoNameTyped DEF L!RunExit, LiveCells, L!RunCells
<1>3. Append(L!Link.cells, L!RunExit) \in Seq(LiveCells(heap))
  BY <1>1, <1>2, LinkLive, AppendProperties
<1>4. L!CodeObject(Append(L!Link.cells, L!RunExit)) \in LiveObjects(heap)
  BY <1>3 DEF L!CodeObject, LiveObjects
<1>5. links' \in Seq(LiveLinks(heap))
  <2>1. links \in Seq(LiveLinks(heap))
    BY DEF MachineInv, LoaderLive
  <2>2. V!Pop(links, 1) \in Seq(LiveLinks(heap))
    BY <2>1, PopTyped
  <2>3. QED
    BY <1>1, <2>2 DEF V!Pop
<1>6. QED
  BY <1>1, <1>4, <1>5, AllocateLive

LEMMA LinkStepLive ==
  ASSUME MachineInv, vm = "idle", UNCHANGED machine, L!LinkStep
  PROVE  LoaderLive' /\ MachineLive'
<1>1. CASE L!LinkPrim
  BY <1>1, ItemCells, AppendCellLive DEF L!LinkPrim, L!AtItem
<1>2. CASE L!LinkLit
  BY <1>2, ItemCells, AppendCellLive DEF L!LinkLit, L!AtItem
<1>3. CASE L!LinkRef
  BY <1>3, LinkRefLive
<1>4. CASE L!LinkRefFirst
  BY <1>4, LinkCidLive DEF L!LinkRefFirst
<1>5. CASE L!LinkDone
  BY <1>5, LinkDoneLive
<1>6. QED
  BY <1>1, <1>2, <1>3, <1>4, <1>5 DEF L!LinkStep

-----------------------------------------------------------------------------
(* The steps of the whole.                                                 *)

LEMMA NothingLive == \A ns, h : <<>> \in Seq(LiveValues(h, ns)) /\ <<>> \in HP!Memory
<1>1. <<>> \in Seq(HP!Nodes) /\ Len(<<>>) = 0
  BY EmptySeq
<1>2. <<>> \in HP!Memory
  BY <1>1 DEF HP!Memory
<1>3. QED
  BY <1>2

(* Neither memory nor the machine changes. *)
LEMMA KeptLive ==
  ASSUME MachineInv, UNCHANGED <<heap, machine>>, links' \in Seq(LiveLinks(heap))
  PROVE  LoaderLive' /\ MachineLive'
<1>1. UNCHANGED <<heap, vm, entry, ip, ds, rs, nodes>>
  BY DEF machine
<1>2. LoaderLive'
  BY <1>1 DEF MachineInv, LoaderLive
<1>3. V!StreamOf(ip.obj)' = V!StreamOf(ip.obj)
  BY <1>1 DEF V!StreamOf, V!Bootstrap
<1>4. StacksLive' /\ InCode'
  BY <1>1, <1>3 DEF MachineInv, MachineLive, StacksLive, InCode
<1>5. QED
  BY <1>1, <1>2, <1>4 DEF MachineInv, MachineLive

(* The machine is set to the first cell of the bootstrap.                  *)
LEMMA StartLive == ASSUME MachineInv, StartRun PROVE LoaderLive' /\ MachineLive'
<1>1. Asked \in DOMAIN cache /\ V!VMRun(cache[Asked]) /\ UNCHANGED <<heap, ds, rs, nodes, links>>
  BY DEF StartRun, L!Linked, V!VMRun, memory
<1>2. cache[Asked] \in 1..Len(heap)
  BY <1>1 DEF MachineInv, MarchInv, MemoryOK
<1>3. vm' = "running" /\ entry' = cache[Asked] /\ ip' = [obj |-> 0, pos |-> 1]
  BY <1>1 DEF V!VMRun, V!Position
<1>4. heap \in Seq(LiveObjects(heap)) /\ Len(heap) \in Nat
  BY LenProperties DEF MachineInv, LoaderLive
<1>5. LoaderLive' /\ StacksLive' /\ nodes' \in HP!Memory
  BY <1>1 DEF MachineInv, LoaderLive, MachineLive, StacksLive
<1>6. ip' \in [obj : 0..Len(heap'), pos : Nat] /\ entry' \in 1..Len(heap')
  BY <1>1, <1>2, <1>3, <1>4
<1>7. ip'.pos \in 1..Len(V!StreamOf(ip.obj)')
  <2>1. V!StreamOf(ip.obj)' = V!Bootstrap'
    BY <1>3 DEF V!StreamOf
  <2>2. Len(V!Bootstrap') = 2
    BY DEF V!Bootstrap
  <2>3. QED
    BY <1>3, <2>1, <2>2
<1>8. QED
  BY <1>3, <1>5, <1>6, <1>7 DEF MachineLive, InCode

LEMMA MachineInvNext ==
  ASSUME NoCollisions, MachineInv, [MarchNext]_allVars
  PROVE  MachineInv'
<1>1. SUFFICES LoaderLive' /\ MachineLive'
  BY MarchInvNext DEF MachineInv
<1>2. links \in Seq(LiveLinks(heap)) /\ <<>> \in Seq(LiveLinks(heap))
  BY DEF MachineInv, LoaderLive
<1>3. CASE Compile \/ Execute \/ UNCHANGED allVars
  <2>1. UNCHANGED <<heap, machine, links>>
    BY <1>3 DEF Compile, Execute, memory, allVars
  <2>2. QED
    BY <1>2, <2>1, KeptLive
<1>4. CASE LinkWord
  BY <1>4, LinkCidLive DEF LinkWord, Linking
<1>5. CASE LinkItem
  BY <1>5, LinkStepLive DEF LinkItem, Linking
<1>6. CASE LinkError
  <2>1. UNCHANGED <<heap, machine>> /\ links' = <<>>
    BY <1>6 DEF LinkError, L!LinkFail
  <2>2. QED
    BY <1>2, <2>1, KeptLive
<1>7. CASE StartRun
  BY <1>7, StartLive
<1>8. CASE MachineStep
  <2>1. V!VMStep /\ UNCHANGED links
    BY <1>8 DEF MachineStep, memory
  <2>2. vm = "running" /\ UNCHANGED heap
    BY <2>1, MachineKeeps DEF Kept
  <2>3. MachineLive'
    BY <2>1, <2>2, StepLive DEF AtWork
  <2>4. LoaderLive'
    BY <2>1, <2>2 DEF MachineInv, LoaderLive
  <2>5. QED
    BY <2>3, <2>4
<1>9. CASE FinishExecute
  <2>1. vm' = "idle" /\ UNCHANGED <<heap, entry, ip, ds, rs, nodes, links>>
    BY <1>9 DEF FinishExecute, V!Halt, memory
  <2>2. LoaderLive' /\ StacksLive' /\ InCode' /\ nodes' \in HP!Memory
    BY <2>1 DEF MachineInv, LoaderLive, MachineLive, StacksLive, InCode
  <2>3. QED
    BY <2>1, <2>2 DEF MachineLive
<1>10. CASE NewProcess
  <2>1. /\ heap' = <<>> /\ links' = <<>> /\ vm' = "idle" /\ ip' = [obj |-> 0, pos |-> 1]
        /\ ds' = <<>> /\ rs' = <<>> /\ nodes' = <<>>
    BY <1>10 DEF NewProcess
  <2>2. LoaderLive' /\ StacksLive' /\ nodes' \in HP!Memory
    BY <2>1, NothingLive DEF LoaderLive, StacksLive
  <2>3. InCode'
    <3>1. ip' \in [obj : 0..Len(heap'), pos : Nat]
      BY <2>1, EmptySeq
    <3>2. QED
      BY <2>1, <3>1 DEF InCode
  <2>4. QED
    BY <2>1, <2>2, <2>3 DEF MachineLive
<1>11. QED
  BY <1>3, <1>4, <1>5, <1>6, <1>7, <1>8, <1>9, <1>10 DEF MarchNext, Running

LEMMA MachineInvInit == MarchInit => MachineInv
<1> SUFFICES ASSUME MarchInit PROVE MachineInv
  OBVIOUS
<1>1. MarchInv
  BY MarchInvInit
<1>2. /\ heap = <<>> /\ links = <<>> /\ vm = "idle" /\ ip = [obj |-> 0, pos |-> 1]
      /\ ds = <<>> /\ rs = <<>> /\ nodes = <<>>
  BY DEF MarchInit, L!LoaderInit, V!VMInit, V!Position
<1>3. LoaderLive /\ StacksLive /\ nodes \in HP!Memory
  BY <1>2, NothingLive DEF LoaderLive, StacksLive
<1>4. InCode
  <2>1. ip \in [obj : 0..Len(heap), pos : Nat]
    BY <1>2, EmptySeq
  <2>2. QED
    BY <1>2, <2>1 DEF InCode
<1>5. QED
  BY <1>1, <1>2, <1>3, <1>4 DEF MachineInv, MachineLive

LEMMA MachineInvTypes == MachineInv => MachineTypeOK
<1> SUFFICES ASSUME MachineInv PROVE MachineTypeOK
  OBVIOUS
<1>1. LiveCells(heap) \subseteq L!RunCells
  BY DEF LiveCells
<1>2. Seq(LiveCells(heap)) \subseteq Seq(L!RunCells)
  BY <1>1
<1>3. LiveObjects(heap) \subseteq L!Objects
  BY <1>2 DEF LiveObjects, L!Objects
<1>4. LiveLinks(heap) \subseteq [cid : Nat, cells : Seq(L!RunCells)]
  BY <1>2 DEF LiveLinks
<1>5. heap \in Seq(L!Objects) /\ links \in Seq([cid : Nat, cells : Seq(L!RunCells)])
  BY <1>3, <1>4, SeqSubset DEF MachineInv, LoaderLive
<1>6. LiveValues(heap, nodes) \subseteq V!Values
  BY DEF LiveValues
<1>7. ds \in Seq(V!Values) /\ rs \in Seq(V!Values)
  BY <1>6, SeqSubset DEF MachineInv, MachineLive, StacksLive
<1>8. DOMAIN cache \subseteq Nat /\ \A cid \in DOMAIN cache : cache[cid] \in 1..Len(heap)
  <2>1. Len(blobs) \in Nat
    BY RowsCounted DEF MachineInv, MarchInv, StoreInv
  <2>2. \A cid \in DOMAIN cache : cid \in 1..Len(blobs) /\ cache[cid] \in 1..Len(heap)
    BY DEF MachineInv, MarchInv, MemoryOK
  <2>3. QED
    BY <2>1, <2>2
<1>9. L!LoaderTypeOK
  BY <1>5, <1>8 DEF L!LoaderTypeOK
<1>10. QED
  BY <1>7, <1>9 DEF MachineTypeOK, MachineInv, MachineLive, InCode

(* No stray address: every address in a cell, on a stack or in the         *)
(* instruction pointer is one of an object in memory, every map on a stack *)
(* is a node the library has handed out (since freed, perhaps), and while  *)
(* the machine runs the instruction pointer is at a cell.                  *)
THEOREM NoStrayAddress == NoCollisions => (MarchSpec => [](LoaderLive /\ MachineLive))
<1> SUFFICES ASSUME NoCollisions PROVE MarchSpec => [](LoaderLive /\ MachineLive)
  OBVIOUS
<1>1. MachineInv /\ [MarchNext]_allVars => MachineInv'
  BY MachineInvNext
<1>2. MachineInv => LoaderLive /\ MachineLive
  BY DEF MachineInv
<1>3. QED
  BY <1>1, <1>2, MachineInvInit, PTL DEF MarchSpec

(* Loader and machine keep their types, from one run to the next and       *)
(* whatever the program does to its stacks.                                *)
THEOREM MachineTyped == NoCollisions => (MarchSpec => []MachineTypeOK)
<1> SUFFICES ASSUME NoCollisions PROVE MarchSpec => []MachineTypeOK
  OBVIOUS
<1>1. MachineInv /\ [MarchNext]_allVars => MachineInv'
  BY MachineInvNext
<1>2. QED
  BY <1>1, MachineInvInit, MachineInvTypes, PTL DEF MarchSpec
=============================================================================
