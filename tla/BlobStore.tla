----------------------------- MODULE BlobStore ------------------------------
(***************************************************************************)
(* What the blob table promises to everything that reads it, whoever       *)
(* writes it and however often the writing process dies: rows are only     *)
(* ever added, one at a time, each with data no other row has, and a row   *)
(* refers only to rows that were there before it.  A reader that follows   *)
(* references therefore always finds a row and always comes to an end.     *)
(***************************************************************************)
EXTENDS Code

VARIABLE rows

Init == rows = <<>>

(* The row a step adds, and what must hold of it. *)
NewRow == rows'[Len(rows) + 1]

Put == /\ Len(rows') = Len(rows) + 1
       /\ rows' = Append(rows, NewRow)
       /\ NewRow \in Rows
       /\ HoldersOf(rows, NewRow.data) = {}
       /\ RefsBelow(NewRow.data.code, Len(rows))

Spec == Init /\ [][Put]_rows
=============================================================================
