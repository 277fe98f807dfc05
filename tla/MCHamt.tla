------------------------------- MODULE MCHamt -------------------------------
(***************************************************************************)
(* Instances of module Hamt.  Three keys share the first chunk of their    *)
(* hash, two of them also the second; the fourth comes before them in      *)
(* every node.                                                             *)
(***************************************************************************)
EXTENDS Hamt

MCKeys == 1..4
MCHash == <<<<1, 0, 0>>, <<1, 0, 1>>, <<1, 1, 0>>, <<0, 0, 0>>>>

(* Nothing, the collisions in either order, all keys.                      *)
MCHistories == {<<>>, <<1, 2>>, <<2, 3, 1>>, <<4, 3>>, <<1, 2, 3, 4>>, <<3, 4, 2, 1>>}
=============================================================================
