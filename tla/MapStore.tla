------------------------------ MODULE MapStore ------------------------------
(***************************************************************************)
(* What a persistent map (src/src/hamt.h) promises: every update makes a   *)
(* new version, which differs in one key from the version it was made      *)
(* from; no version changes until it is freed.  The promise can be taken   *)
(* up at any moment at which all versions are live.                        *)
(***************************************************************************)
EXTENDS Integers, Sequences

CONSTANTS Keys, Values

VARIABLES
  maps,  \* the versions: partial functions from keys to values
  live   \* the versions that are not freed

vars == <<maps, live>>

Empty == [k \in {} |-> 0]

(* A new version with contents f. *)
Add(f) == maps' = Append(maps, f) /\ live' = live \cup {Len(maps) + 1}

Init == live = 1..Len(maps)

New == Add(Empty)

(* Of a value all but its lowest bit is kept (the code's promise, not the  *)
(* one of hamt.h:17).                                                      *)
Kept(x) == x - (x % 2)

Set(v, k, x) ==
  /\ v \in live
  /\ LET m == maps[v]
     IN  Add([j \in DOMAIN m \cup {k} |-> IF j = k THEN Kept(x) ELSE m[j]])

Remove(v, k) ==
  /\ v \in live
  /\ LET m == maps[v]
     IN  Add([j \in DOMAIN m \ {k} |-> m[j]])

Free(v) ==
  /\ v \in live
  /\ live' = live \ {v}
  /\ maps' = [maps EXCEPT ![v] = Empty]

Next ==
  \/ New
  \/ \E v \in 1..Len(maps), k \in Keys : (\E x \in Values : Set(v, k, x)) \/ Remove(v, k)
  \/ \E v \in 1..Len(maps) : Free(v)

Spec == Init /\ [][Next]_vars
=============================================================================
