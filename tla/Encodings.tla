------------------------------ MODULE Encodings ------------------------------
(***************************************************************************)
(* The bytes behind the items of module Code, and the words behind the     *)
(* cells of module Loader (src/src/cells.c).  The compiler appends items   *)
(* to a buffer that grows, the bytes are stored, and the loader decodes    *)
(* them into cells, which the dispatch loop of the machine takes apart.    *)
(* The buffer is cleared and used again for the next word.                 *)
(***************************************************************************)
EXTENDS Code

CONSTANTS
  Codes,         \* the words to encode: sequences of items
  MaxWords,      \* how many of them, one after the other
  Byte,          \* values of a byte (256)
  LitSize,       \* bytes of a number and of a cell (8)
  CidSize,       \* bytes of a CID (32)
  PrimId,        \* the number of each primitive (PRIM_ADD, ...)
  Digest,        \* the CID of each row referred to
  BlobCapacity,  \* bytes a new blob buffer holds (256)
  CellCapacity,  \* cells the loader makes room for first (64)
  PrimAddr,      \* the address of the code of each primitive
  RowAddr,       \* where each row referred to has been linked
  RowValue       \* the eight bytes there, for rows of data

Bytes == 0..Byte - 1

(* Byte^k; a cell has one of CellWords values, a number one of Numbers.    *)
Power[k \in Nat] == IF k = 0 THEN 1 ELSE Byte * Power[k - 1]
CellWords == Power[LitSize]
Numbers   == -(CellWords \div 2)..(CellWords \div 2) - 1

(* The items the compiler makes: primitives, numbers of LitSize bytes and  *)
(* references.                                                             *)
Encodable ==
  {Prim(p) : p \in DOMAIN PrimId} \cup {InlineLit(n) : n \in Numbers}
    \cup {Ref(kind, c) : kind \in Kinds, c \in DOMAIN Digest}

(* Tags hold a primitive number or a kind and one bit more; addresses are  *)
(* aligned, as the sections of an assembled file and what malloc and mmap  *)
(* return are, and fit where a cell has room for a number; PRIM_LIT is 0.  *)
ASSUME EncodingsAssumption ==
  /\ Codes \subseteq Seq(Items) /\ MaxWords \in Nat \ {0}
  /\ Byte \in Nat /\ Byte >= 4 /\ LitSize \in Nat \ {0} /\ CidSize \in Nat
  /\ BlobCapacity \in Nat \ {0, 1} /\ CellCapacity \in Nat \ {0}
  /\ \A w \in Codes : \A i \in 1..Len(w) : w[i] \in Encodable
  /\ \A p \in DOMAIN PrimId : PrimId[p] \in 1..((Byte * Byte) \div 2) - 1
  /\ \A p, q \in DOMAIN PrimId : PrimId[p] = PrimId[q] => p = q
  /\ \A c \in DOMAIN Digest : Digest[c] \in [1..CidSize -> Bytes]
  /\ \A c, d \in DOMAIN Digest : Digest[c] = Digest[d] => c = d
  /\ \A p \in DOMAIN PrimId : PrimAddr[p] \in 1..CellWords - 1 /\ PrimAddr[p] % 4 = 0
  /\ \A c \in DOMAIN Digest : RowAddr[c] \in Nat \ {0} /\ RowAddr[c] % 4 = 0
  /\ \A c \in DOMAIN Digest : RowAddr[c] < CellWords \div 8
  /\ \A c \in DOMAIN Digest : RowValue[c] \in Numbers
  /\ CellWords % 8 = 0

VARIABLES
  code,      \* the word that is being encoded or linked
  word,      \* its number
  done,      \* items of it encoded so far
  header,    \* the tag that is to be appended of the item that is being encoded
  tail,      \* and what is to follow it
  data,      \* the bytes of the buffer in use: blob->data up to blob->size
  capacity,  \* blob->capacity
  stored,    \* the bytes in the database
  ptr,       \* bytes of them decoded
  read,      \* the items they have been decoded to
  cells,     \* the cells linked from them
  room,      \* cells the loader has room for
  mode       \* "encode", "link" or "linked"

encoder == <<code, word, done, header, tail, data, capacity, stored>>
linker  == <<ptr, read, cells, room>>
vars == <<encoder, linker, mode>>

Init ==
  /\ code \in Codes
  /\ word = 1 /\ done = 0 /\ header = <<>> /\ tail = <<>> /\ data = <<>> /\ capacity = BlobCapacity
  /\ stored = <<>> /\ ptr = 0 /\ read = <<>> /\ cells = <<>> /\ room = CellCapacity
  /\ mode = "encode"

-----------------------------------------------------------------------------
(* Encoding. *)

(* Mutants of TagBytes: the upper byte is left out; nothing is masked. *)
TagBytesLow(tag) == <<tag % Byte, 0>>

TagBytesUnmasked(tag) == <<tag, tag \div Byte>>

(* A 16-bit tag, lower byte first. *)
TagBytes(tag) == <<tag % Byte, (tag \div Byte) % Byte>>

(* Mutant of LitBytes: the last byte is left out. *)
LitBytesShort(n) == [i \in 1..LitSize - 1 |-> (n \div Power[i - 1]) % Byte]

LitBytes(n) == [i \in 1..LitSize |-> (n \div Power[i - 1]) % Byte]

EncodingItem(form) ==
  mode = "encode" /\ header = <<>> /\ tail = <<>> /\ done < Len(code) /\ code[done + 1].tag = form

Encode(newTag, newTail) ==
  /\ header' = newTag /\ tail' = newTail
  /\ done' = done + 1
  /\ UNCHANGED <<code, word, data, capacity, stored, linker, mode>>

EncodePrimitive ==
  /\ EncodingItem("prim")
  /\ Encode(TagBytes(2 * PrimId[code[done + 1].s]), <<>>)

EncodeCidRef ==
  /\ EncodingItem("ref")
  /\ Encode(TagBytes(2 * code[done + 1].kind + 1), Digest[code[done + 1].n])

EncodeInlineLiteral ==
  /\ EncodingItem("lit")
  /\ Encode(TagBytes(0), LitBytes(code[done + 1].n))

(* Mutant of AppendU16: the room is looked for before the second byte. *)
AppendU16Late ==
  /\ header # <<>>
  /\ capacity' = IF Len(data) + 1 > capacity THEN 2 * capacity ELSE capacity
  /\ data' = data \o header
  /\ header' = <<>>
  /\ UNCHANGED <<code, word, done, tail, stored, linker, mode>>

(* blob_buffer_append_u16 doubles the buffer once, whatever its size;      *)
(* blob_buffer_append_bytes, as often as it takes.                         *)
AppendU16 ==
  /\ header # <<>>
  /\ capacity' = IF Len(data) + 2 > capacity THEN 2 * capacity ELSE capacity
  /\ data' = data \o header
  /\ header' = <<>>
  /\ UNCHANGED <<code, word, done, tail, stored, linker, mode>>

(* Mutant of Grow: the buffer stays as it is. *)
GrowNot ==
  /\ header = <<>> /\ tail # <<>>
  /\ Len(data) + Len(tail) > capacity
  /\ UNCHANGED vars

Grow ==
  /\ header = <<>> /\ tail # <<>>
  /\ Len(data) + Len(tail) > capacity
  /\ capacity' = 2 * capacity
  /\ UNCHANGED <<code, word, done, header, tail, data, stored, linker, mode>>

AppendBytes ==
  /\ header = <<>> /\ tail # <<>>
  /\ Len(data) + Len(tail) <= capacity
  /\ data' = data \o tail
  /\ tail' = <<>>
  /\ UNCHANGED <<code, word, done, header, capacity, stored, linker, mode>>

(* The word is stored. *)
Store ==
  /\ mode = "encode" /\ header = <<>> /\ tail = <<>> /\ done = Len(code)
  /\ stored' = data
  /\ ptr' = 0 /\ read' = <<>> /\ cells' = <<>> /\ room' = CellCapacity
  /\ mode' = "link"
  /\ UNCHANGED <<code, word, done, header, tail, data, capacity>>

(* blob_buffer_clear, for the next word: what has been allocated stays. *)
Clear ==
  /\ mode = "linked"
  /\ word < MaxWords
  /\ word' = word + 1
  /\ code' \in Codes
  /\ done' = 0 /\ data' = <<>>
  /\ mode' = "encode"
  /\ UNCHANGED <<header, tail, capacity, stored, linker>>

-----------------------------------------------------------------------------
(* Decoding, and the cells made of it. *)

Wrap(n)   == ((n + CellWords \div 2) % CellWords) - CellWords \div 2

(* Mutant of EncodeLit: the tag is left out. *)
EncodeLitUntagged(n) == (4 * n) % CellWords

EncodeLit(n) == (4 * n + 1) % CellWords

EncodeXt(addr) == addr - (addr % 4)
EncodeExit     == 0

(* The machine's .do_xt, .do_lit and .do_exit, by the lower two bits. *)
Dispatch(cell) ==
  CASE cell = 0                   -> [op |-> "exit", n |-> 0]
    [] cell # 0 /\ cell % 4 = 0   -> [op |-> "xt",   n |-> cell]
    [] cell % 4 = 1               -> [op |-> "lit",  n |-> Wrap(cell) \div 4]
    [] OTHER                      -> [op |-> "none", n |-> 0]

TagAt(p)      == stored[p + 1] + Byte * stored[p + 2]
CidAt(p)      == [i \in 1..CidSize |-> stored[p + i]]
LowBytes(bytes) ==
  LET low[k \in 0..LitSize] == IF k = 0 THEN 0 ELSE low[k - 1] + bytes[k] * Power[k - 1]
  IN  low
ValueAt(p)    == Wrap(LowBytes([i \in 1..LitSize |-> stored[p + i]])[LitSize])

(* decode_tag_ex, and how far it reads. *)
IsCid   == TagAt(ptr) % 2 = 1
IdOrKind == TagAt(ptr) \div 2
Size == 2 + (IF IsCid THEN CidSize ELSE IF IdOrKind = 0 THEN LitSize ELSE 0)

Decoding == mode = "link" /\ ptr < Len(stored)

(* Mutant of AppendCell: the loader never makes more room. *)
AppendCellNoRoom(item, cell) ==
  /\ read' = Append(read, item) /\ cells' = Append(cells, cell)
  /\ ptr' = ptr + Size
  /\ UNCHANGED <<encoder, room, mode>>

AppendCell(item, cell) ==
  /\ read' = Append(read, item) /\ cells' = Append(cells, cell)
  /\ room' = IF Len(cells) >= room THEN 2 * room ELSE room
  /\ ptr' = ptr + Size
  /\ UNCHANGED <<encoder, mode>>

DecodeLiteral ==
  /\ Decoding /\ ~IsCid /\ IdOrKind = 0
  /\ AppendCell(InlineLit(ValueAt(ptr + 2)), EncodeLit(ValueAt(ptr + 2)))

DecodePrimitive ==
  /\ Decoding /\ ~IsCid
  /\ \E p \in DOMAIN PrimId :
       PrimId[p] = IdOrKind /\ AppendCell(Prim(p), EncodeXt(PrimAddr[p]))

(* A word is called, the address of a quotation or the value of a row of   *)
(* data pushed.                                                            *)
UseOf(kind, c) ==
  CASE kind = BLOB_WORD      -> EncodeXt(RowAddr[c])
    [] kind = BLOB_QUOTATION -> EncodeLit(RowAddr[c])
    [] kind = BLOB_DATA      -> EncodeLit(RowValue[c])

DecodeRef ==
  /\ Decoding /\ IsCid
  /\ \E c \in DOMAIN Digest :
       Digest[c] = CidAt(ptr + 2) /\ AppendCell(Ref(IdOrKind, c), UseOf(IdOrKind, c))

AppendExit ==
  /\ mode = "link" /\ ptr >= Len(stored)
  /\ cells' = Append(cells, EncodeExit)
  /\ room' = IF Len(cells) >= room THEN room + 1 ELSE room
  /\ mode' = "linked"
  /\ UNCHANGED <<encoder, ptr, read>>

Next ==
  \/ EncodePrimitive \/ EncodeCidRef \/ EncodeInlineLiteral
  \/ AppendU16 \/ Grow \/ AppendBytes \/ Store \/ Clear
  \/ DecodeLiteral \/ DecodePrimitive \/ DecodeRef \/ AppendExit

Spec == Init /\ [][Next]_vars /\ WF_vars(Next)

-----------------------------------------------------------------------------
(* Properties. *)

(* The buffers hold bytes, the cells are words. *)
TypeOK ==
  /\ code \in Codes /\ word \in 1..MaxWords
  /\ done \in 0..Len(code)
  /\ header \in {<<>>} \cup (Bytes \X Bytes) /\ tail \in Seq(Bytes)
  /\ data \in Seq(Bytes) /\ stored \in Seq(Bytes) /\ capacity \in Nat
  /\ ptr \in Nat /\ read \in Seq(Items) /\ cells \in Seq(0..CellWords - 1) /\ room \in Nat
  /\ mode \in {"encode", "link", "linked"}

(* Neither blob_buffer_append_u16, which doubles its buffer once at most,  *)
(* nor blob_buffer_append_bytes, nor the loader's own array, which grows   *)
(* by one for the EXIT, is written past what has been allocated.           *)
Fits == Len(data) <= capacity /\ Len(cells) <= room

(* decode_tag_ex, which is not told where the bytes end, never reads past  *)
(* them: every item begins where the one before ended.                     *)
InBounds == Decoding => ptr + 2 <= Len(stored) /\ ptr + Size <= Len(stored)

(* The loader reads the items the compiler meant, and nothing else: that   *)
(* the items of module Code stand for the bytes loses nothing.             *)
DecodesBack ==
  /\ mode \in {"link", "linked"} => Len(read) <= Len(code) /\ read = SubSeq(code, 1, Len(read))
  /\ mode = "linked" => read = code

(* What the machine does with each cell: it calls the primitive or word,   *)
(* or pushes the number, less the two bits that the tag takes from it.     *)
Meaning(item) ==
  LET narrow(n) == ((n + CellWords \div 8) % (CellWords \div 4)) - CellWords \div 8
  IN  CASE item.tag = "prim" -> [op |-> "xt",  n |-> PrimAddr[item.s]]
        [] item.tag = "lit"  -> [op |-> "lit", n |-> narrow(item.n)]
        [] item.tag = "ref" /\ item.kind = BLOB_WORD      -> [op |-> "xt",  n |-> RowAddr[item.n]]
        [] item.tag = "ref" /\ item.kind = BLOB_QUOTATION -> [op |-> "lit", n |-> RowAddr[item.n]]
        [] item.tag = "ref" /\ item.kind = BLOB_DATA      -> [op |-> "lit", n |-> narrow(RowValue[item.n])]

CellsDispatch ==
  mode = "linked" =>
    [i \in 1..Len(cells) |-> Dispatch(cells[i])] =
      [i \in 1..Len(code) |-> Meaning(code[i])] \o <<[op |-> "exit", n |-> 0]>>

(* Every word is encoded, stored and linked: the loops that double a       *)
(* buffer, and the one that decodes, come to an end.                       *)
EveryWordLinked == <>[](mode = "linked" /\ word = MaxWords)
=============================================================================
