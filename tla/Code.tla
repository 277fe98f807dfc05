-------------------------------- MODULE Code --------------------------------
(***************************************************************************)
(* The two encodings of compiled code that the March compiler produces     *)
(* side by side (src/src/cells.c) and the rows of the blob table           *)
(* (src/src/database.c):                                                   *)
(*   - cells, the legacy stream of tagged words: Xt, Lit, Exit;            *)
(*   - items, the content-addressed encoding: a primitive number, an       *)
(*     inline literal, or a reference to a row with the kind it is used    *)
(*     as.                                                                 *)
(* A CID is the SHA-256 of a row's bytes; it is modelled by the number of  *)
(* the row that holds them: data with equal bytes share a row, and no      *)
(* others do, as long as no two of them have the same SHA-256.             *)
(***************************************************************************)
EXTENDS Integers, Sequences

CONSTANT
  TagLiterals  \* words of four primitives, and the number with the same bytes

(* Four tags of two bytes are as long as a literal.  The number of a word  *)
(* is beyond 2^48 in the code; a smaller one may stand for it here.        *)
ASSUME TagLiteralsAssumption ==
  /\ TagLiterals \in [DOMAIN TagLiterals -> Int]
  /\ DOMAIN TagLiterals \subseteq [1..4 -> STRING]
  /\ \A v, w \in DOMAIN TagLiterals : TagLiterals[v] = TagLiterals[w] => v = w

(* For sources in which no number has the bytes of a word. *)
NoTagLiterals == [w \in {} |-> 0]

(* Blob kinds.  BLOB_STRING and BLOB_QUOTATION are the same number. *)
BLOB_WORD      == 1
BLOB_QUOTATION == 2
BLOB_STRING    == 2
BLOB_DATA      == 3
CodeKinds == {BLOB_WORD, BLOB_QUOTATION}
Kinds     == {BLOB_WORD, BLOB_QUOTATION, BLOB_DATA}

(* NULL, where a name is expected. *)
NoName == ""

(* Legacy cells.  Xt(NoName) is encode_xt(NULL). *)
Xt(addr) == [tag |-> "xt",   s |-> addr, n |-> 0]
Lit(n)   == [tag |-> "lit",  s |-> NoName,   n |-> n]
Exit     == [tag |-> "exit", s |-> NoName,   n |-> 0]
Cells    == [tag : {"xt", "lit", "exit"}, s : STRING, n : Int]

(* Items of the content-addressed encoding. *)
Prim(p)        == [tag |-> "prim", kind |-> 0,    s |-> p,  n |-> 0]
InlineLit(n)   == [tag |-> "lit",  kind |-> 0,    s |-> NoName, n |-> n]
Ref(kind, cid) == [tag |-> "ref",  kind |-> kind, s |-> NoName, n |-> cid]
Items ==
  {i \in [tag : {"prim", "lit", "ref"}, kind : {0} \cup Kinds, s : STRING, n : Int] :
     i.tag = "ref" => i.kind # 0}

(* The data of a row: an eight-byte literal, a string with its header, or  *)
(* a sequence of items.  The form is what they were when they were stored, *)
(* as the row's kind tells it to readers; it is no part of the bytes.      *)
LitData(n)     == [form |-> "lit",  n |-> n, s |-> NoName, code |-> <<>>]
StrData(s)     == [form |-> "str",  n |-> 0, s |-> s,  code |-> <<>>]
CodeData(code) == [form |-> "code", n |-> 0, s |-> NoName, code |-> code]
Data == [form : {"lit", "str", "code"}, n : Int, s : STRING, code : Seq(Items)]
Rows == [kind : Kinds, data : Data]

(* Only a literal and a word of four primitives can have their bytes in    *)
(* common: strings are longer than literals, and code that begins with the *)
(* header of a string has a CID of 24 zeros or a jump over 2^32 in it.     *)
Prims(word) == [i \in 1..Len(word) |-> Prim(word[i])]

SameBytes(d, e) ==
  \/ d = e
  \/ \E w \in DOMAIN TagLiterals : {d, e} = {LitData(TagLiterals[w]), CodeData(Prims(w))}

(* Bytes that are a literal to some and code to others. *)
Shared(data) ==
  \E w \in DOMAIN TagLiterals : data \in {LitData(TagLiterals[w]), CodeData(Prims(w))}

(* db_store_blob: INSERT OR IGNORE keyed by the hash of the bytes alone,   *)
(* so bytes that are already there keep their row, and the kind it has.    *)
HoldersOf(rows, data) == {i \in 1..Len(rows) : SameBytes(rows[i].data, data)}

(* Mutants of StoreBlob: the row's kind is not written; a plain INSERT.    *)
StoreBlobUntyped(rows, kind, data) ==
  IF HoldersOf(rows, data) # {} THEN rows
  ELSE Append(rows, [kind |-> BLOB_WORD, data |-> data])

StoreBlobTwice(rows, kind, data) == Append(rows, [kind |-> kind, data |-> data])

StoreBlob(rows, kind, data) ==
  IF HoldersOf(rows, data) # {} THEN rows
  ELSE Append(rows, [kind |-> kind, data |-> data])

(* Mutant of CidOf: the id of the last insertion. *)
CidOfLast(rows, data) == Len(rows) + 1

CidOf(rows, data) ==
  IF HoldersOf(rows, data) # {} THEN CHOOSE i \in HoldersOf(rows, data) : TRUE
  ELSE Len(rows) + 1

(* Every reference of `code' is to one of the first n rows. *)
RefsBelow(code, n) ==
  \A i \in 1..Len(code) : code[i].tag = "ref" => code[i].n \in 1..n
=============================================================================
