----------------------------- MODULE MCEncodings -----------------------------
(***************************************************************************)
(* A small machine for module Encodings: bytes of two bits, numbers and    *)
(* cells of eight, CIDs long enough to need a buffer doubled twice.        *)
(***************************************************************************)
EXTENDS Encodings, SequencesExt

Ids       == [p \in {"dup", "map"} |-> IF p = "dup" THEN 1 ELSE 7]
Digests   == [c \in 1..2 |-> [i \in 1..9 |-> IF i = c THEN 3 ELSE 1]]
PrimAddrs == [p \in {"dup", "map"} |-> IF p = "dup" THEN 4 ELSE 252]
RowAddrs  == [c \in 1..2 |-> 12 * c]
RowValues == [c \in 1..2 |-> 40 - 41 * c]

Alphabet ==
  {Prim("dup"), Prim("map")} \cup {InlineLit(n) : n \in {0, -1, 31, -32, 100}}
    \cup {Ref(k, c) : k \in Kinds, c \in 1..2}

Long == {<<Ref(BLOB_WORD, 1), Prim("dup"), Prim("map"), Prim("dup")>>,
         <<Prim("dup"), Prim("map"), InlineLit(5), Prim("map"), Ref(BLOB_DATA, 1)>>,
         <<InlineLit(7), Prim("dup"), Ref(BLOB_WORD, 2), Ref(BLOB_QUOTATION, 1), InlineLit(-3)>>}

Words == SeqOf(Alphabet, 2) \cup Long
=============================================================================
