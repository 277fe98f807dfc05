-------------------------------- MODULE Hamt --------------------------------
(***************************************************************************)
(* The persistent map (src/src/hamt.c): a hash array mapped trie with path *)
(* copying.  A node is a bitmap of the chunks of the hash that occur in it *)
(* and a dense array with one slot for each, in the order of the chunks.   *)
(* A slot holds a key and its value, or a pointer to a child; bit 0 of the *)
(* second word tells which.  Operations are recursive C functions on one   *)
(* thread; each is one step.                                               *)
(*                                                                         *)
(* A pointer is an even number, twice the number of the node in `nodes'.   *)
(***************************************************************************)
EXTENDS Integers, Sequences, FiniteSets

CONSTANTS
  Keys,         \* keys
  Values,       \* values: 64-bit words, of which bit 0 matters
  Hash,         \* hash of each key: its chunks, the lowest first
  Histories,    \* keys a map that is there from the start has been built from
  MaxVersions   \* bound: versions ever made

(* hamt_chunk: five bits of the hash at each level. *)
Chunks == 0..31

ASSUME HashAssumption ==
  /\ Keys \subseteq Nat /\ Keys # {} /\ Values \subseteq Nat /\ MaxVersions \in Nat
  /\ Hash \in [Keys -> Seq(Chunks) \ {<<>>}]
  /\ Histories \subseteq Seq(Keys)
  /\ \A j, k \in Keys : Hash[j] = Hash[k] => j = k
  /\ \A j, k \in Keys : Len(Hash[j]) = Len(Hash[k])

VARIABLES
  nodes,     \* everything malloc has returned, in order
  versions   \* the roots handed out, in order, and whether they are freed

vars == <<nodes, versions>>

NULL == 0

(* The chunks of a hash (13), and the one of each level. *)
Levels == Len(Hash[CHOOSE k \in Keys : TRUE])
Chunk(key, level) == Hash[key][level + 1]

(* hamt_tag_value, hamt_untag_value, hamt_is_value. *)
Untagged(word) == 2 * (word \div 2)
Tagged(value)  == Untagged(value) + 1
IsValue(word)  == word % 2 = 1

Leaf(key, value) == [key |-> key, word |-> Tagged(value)]
Branch(child)    == [key |-> 0, word |-> child]
Node(bitmap, count, slots) == [bitmap |-> bitmap, count |-> count, slots |-> slots]
(* hamt_slot_index: the bits below the chunk. *)
SlotIndex(bitmap, chunk) == 1 + Cardinality({c \in bitmap : c < chunk})

(* Memory: nodes with one slot for each bit, and in it a key or a pointer  *)
(* to a node.  A node is allocated, read and written through its pointer.  *)
Pointers(h) == {p \in 0..2 * Len(h) : p % 2 = 0}
Nodes == [bitmap : SUBSET Chunks, count : Int, slots : Seq([key : Nat, word : Int])]
WellFormed(n, h) ==
  /\ Len(n.slots) = Cardinality(n.bitmap)
  /\ \A i \in 1..Len(n.slots) :
       IF IsValue(n.slots[i].word) THEN n.slots[i].key \in Keys ELSE n.slots[i].word \in Pointers(h)
Memory == {h \in Seq(Nodes) : \A i \in 1..Len(h) : WellFormed(h[i], h)}

At(h, p) == h[p \div 2]
Malloc(h, node) == [heap |-> Append(h, node), node |-> 2 * (Len(h) + 1)]
Write(h, p, node) == [h EXCEPT ![p \div 2] = node]
SlotOf(n, chunk) == n.slots[SlotIndex(n.bitmap, chunk)]

(* Mutant of WithSlot: the new slot goes to the end. *)
WithSlotLast(slots, i, slot) == Append(slots, slot)

(* Slots with a new one at, or without the one at, index i. *)
WithSlot(slots, i, slot) == SubSeq(slots, 1, i - 1) \o <<slot>> \o SubSeq(slots, i, Len(slots))

WithoutSlot(slots, i) == SubSeq(slots, 1, i - 1) \o SubSeq(slots, i + 1, Len(slots))

(* Memory, the node the call returns, whether *inserted or *removed is set.*)
Result(h, p, flag) == [heap |-> h, node |-> p, flag |-> flag]

(* Mutant of CloneWith: the slot is replaced in the node itself. *)
CloneWithInPlace(h, p, i, slot, count, flag) ==
  Result(Write(h, p, [At(h, p) EXCEPT !.slots[i] = slot, !.count = count]), p, flag)

(* hamt_clone_node, then slot i and the count of the clone are replaced.   *)
CloneWith(h, p, i, slot, count, flag) ==
  LET new == Malloc(h, At(h, p))
  IN  Result(Write(new.heap, new.node,
                   [At(h, p) EXCEPT !.slots[i] = slot, !.count = count]),
             new.node, flag)

(* Mutant of CloneWithout: the bit stays set. *)
CloneWithoutBit(h, p, chunk) ==
  LET n == At(h, p)
      new == Malloc(h, Node(n.bitmap, n.count - 1,
                            WithoutSlot(n.slots, SlotIndex(n.bitmap, chunk))))
  IN  IF Len(n.slots) = 1 THEN Result(h, NULL, TRUE) ELSE Result(new.heap, new.node, TRUE)

(* The node without the slot of chunk; NULL if there is no other. *)
CloneWithout(h, p, chunk) ==
  LET n == At(h, p)
      new == Malloc(h, Node(n.bitmap \ {chunk}, n.count - 1,
                            WithoutSlot(n.slots, SlotIndex(n.bitmap, chunk))))
  IN  IF Len(n.slots) = 1 THEN Result(h, NULL, TRUE) ELSE Result(new.heap, new.node, TRUE)

(* The count of an inner node whose child `below' has grown, or shrunk, by *)
(* one key if its flag says so.                                            *)
CountUp(n, below) == n.count + (IF below.flag THEN 1 ELSE 0)

(* Mutant of CountDown: the count of an inner node is not reduced.         *)
CountKept(n, below) == n.count

CountDown(n, below) == n.count - (IF below.flag THEN 1 ELSE 0)

(* What the recursive functions are passed; value matters to hamt_set_impl *)
(* only.  There is nothing to look at past the end of the hash: the code   *)
(* never gets there, as no two keys have the same one.                     *)
Call(h, p, key, value, level) ==
  [heap |-> h, node |-> p, key |-> key, value |-> value, level |-> level]
Calls ==
  {c \in [heap : Memory, node : Nat, key : Keys, value : Int, level : 0..Levels] :
     c.node \in Pointers(c.heap)}

(* One level down. *)
Below(c, h, p) == Call(h, p, c.key, c.value, c.level + 1)

ChunkAt(c) == Chunk(c.key, c.level)
NodeAt(c)  == At(c.heap, c.node)
IndexAt(c) == SlotIndex(NodeAt(c).bitmap, ChunkAt(c))
SlotAt(c)  == SlotOf(NodeAt(c), ChunkAt(c))

(* There is a node; in it a slot for the key, with a key, or with a child. *)
NodeHere(c) == c.level < Levels /\ c.node # NULL
Occupied(c) == NodeHere(c) /\ ChunkAt(c) \in NodeAt(c).bitmap
LeafAt(c)   == Occupied(c) /\ IsValue(SlotAt(c).word)
BranchAt(c) == Occupied(c) /\ ~IsValue(SlotAt(c).word)
Found(c)    == LeafAt(c) /\ SlotAt(c).key = c.key

(* What hamt_set_impl does: a node with one leaf; a leaf in a new slot;    *)
(* another value in a slot; another child in a slot.                       *)
NewLeaf(c) ==
  LET new == Malloc(c.heap, Node({ChunkAt(c)}, 1, <<Leaf(c.key, c.value)>>))
  IN  Result(new.heap, new.node, TRUE)

AddLeaf(c) ==
  LET n   == NodeAt(c)
      new == Malloc(c.heap, Node(n.bitmap \cup {ChunkAt(c)}, n.count + 1,
                                 WithSlot(n.slots, IndexAt(c), Leaf(c.key, c.value))))
  IN  Result(new.heap, new.node, TRUE)

SetLeaf(c) ==
  CloneWith(c.heap, c.node, IndexAt(c), Leaf(c.key, c.value), NodeAt(c).count, FALSE)

SetBranch(c, below, count, flag) ==
  CloneWith(below.heap, c.node, IndexAt(c), Branch(below.node), count, flag)

(* hamt_set_impl. *)
SetImpl[c \in Calls] ==
  LET below == SetImpl[Below(c, c.heap, SlotAt(c).word)]
      \* Both keys of a collision, one level down.
      one   == SetImpl[Call(c.heap, NULL, SlotAt(c).key, Untagged(SlotAt(c).word), c.level + 1)]
      both  == SetImpl[Below(c, one.heap, one.node)]
  IN  CASE c.level < Levels /\ c.node = NULL -> NewLeaf(c)
        [] NodeHere(c) /\ ~Occupied(c) -> AddLeaf(c)
        [] Found(c) -> SetLeaf(c)
        [] LeafAt(c) /\ ~Found(c) -> SetBranch(c, both, NodeAt(c).count + 1, TRUE)
        [] BranchAt(c) /\ below.node # SlotAt(c).word ->
             SetBranch(c, below, CountUp(NodeAt(c), below), below.flag)
        [] OTHER -> Result(c.heap, c.node, FALSE)

(* hamt_remove_impl. *)
RemoveImpl[c \in Calls] ==
  LET below == RemoveImpl[Below(c, c.heap, SlotAt(c).word)]
  IN  CASE Found(c) -> CloneWithout(c.heap, c.node, ChunkAt(c))
        [] BranchAt(c) /\ below.node # SlotAt(c).word ->
             IF below.node = NULL THEN CloneWithout(below.heap, c.node, ChunkAt(c))
             ELSE SetBranch(c, below, CountDown(NodeAt(c), below), below.flag)
        [] OTHER -> Result(c.heap, c.node, FALSE)

(* hamt_set, hamt_remove. *)
HamtSet(p, key, value) == SetImpl[Call(nodes, p, key, value, 0)]
HamtRemove(p, key)     == RemoveImpl[Call(nodes, p, key, 0, 0)]

(* hamt_get: 0 for a key that is not there. *)
GetFrom[c \in Calls] ==
  LET below == GetFrom[Below(c, c.heap, SlotAt(c).word)]
  IN  CASE Found(c)    -> Untagged(SlotAt(c).word)
        [] BranchAt(c) -> below
        [] OTHER       -> 0

Get(p, key) == GetFrom[Call(nodes, p, key, 0, 0)]

(* hamt_size reads the header of the root. *)
Size(p) == IF p = NULL THEN 0 ELSE At(nodes, p).count

(* The nodes hamt_free visits: those that can be reached. *)
SlotsOf(n) == {n.slots[i] : i \in 1..Len(n.slots)}
ChildNodes(n) == {s.word : s \in {t \in SlotsOf(n) : ~IsValue(t.word)}}

ReachFrom(h, p, level) ==
  LET from[left \in 0..Levels] ==
        [q \in Pointers(h) |->
           IF left = 0 \/ q = NULL THEN {}
           ELSE {q} \cup UNION {from[left - 1][c] : c \in ChildNodes(At(h, q))}]
  IN  from[Levels - level][p]
Reach(p) == ReachFrom(nodes, p, 0)

-----------------------------------------------------------------------------
(* Versions.  A program keeps every root it has been given.                *)

Live(v) == v \in 1..Len(versions) /\ ~versions[v].freed
Version(p) == [root |-> p, freed |-> FALSE]
More == Len(versions) < MaxVersions

(* Memory and root after the keys of history have been set, one by one, to *)
(* some value.                                                             *)
Built(history, value) ==
  LET built[n \in 0..Len(history)] ==
        IF n = 0 THEN Result(<<>>, NULL, TRUE)
        ELSE SetImpl[Call(built[n - 1].heap, built[n - 1].node, history[n], value, 0)]
  IN  built[Len(history)]

Init ==
  \E history \in Histories, value \in Values :
    LET b == Built(history, value)
    IN  nodes = b.heap /\ versions = <<Version(b.node)>>

New ==
  /\ More
  /\ versions' = Append(versions, Version(NULL))
  /\ UNCHANGED nodes

Set(v, key, value) ==
  /\ More
  /\ Live(v)
  /\ LET r == HamtSet(versions[v].root, key, value) IN
     /\ nodes' = r.heap
     /\ versions' = Append(versions, Version(r.node))

Remove(v, key) ==
  /\ More
  /\ Live(v)
  /\ LET r == HamtRemove(versions[v].root, key) IN
     /\ nodes' = r.heap
     /\ versions' = Append(versions, Version(r.node))

(* hamt_free follows child pointers and frees what it finds, also what     *)
(* other versions share: to free only what nothing else needs is left to   *)
(* the caller.  Freed memory is empty from then on.                        *)
Gone == Node({}, 0, <<>>)

Unshared(v) ==
  \A w \in 1..Len(versions) :
    w # v /\ Live(w) => Reach(versions[w].root) \cap Reach(versions[v].root) = {}

Free(v) ==
  /\ Live(v)
  /\ Unshared(v)
  /\ nodes' = [i \in 1..Len(nodes) |-> IF 2 * i \in Reach(versions[v].root) THEN Gone ELSE nodes[i]]
  /\ versions' = [versions EXCEPT ![v].freed = TRUE]

Next ==
  \/ New
  \/ \E v \in 1..Len(versions), key \in Keys :
       (\E value \in Values : Set(v, key, value)) \/ Remove(v, key)
  \/ \E v \in 1..Len(versions) : Free(v)

Spec == Init /\ [][Next]_vars

-----------------------------------------------------------------------------
(* Properties. *)

(* Every node is well formed: one slot for each bit, children that are     *)
(* nodes; and every version is a node or NULL.                             *)
TypeOK ==
  /\ nodes \in Memory
  /\ \A i \in 1..Len(nodes) : nodes[i].count \in Nat
  /\ versions \in Seq([root : Pointers(nodes), freed : BOOLEAN])

(* The leaves a root reaches: the pairs of the map. *)
LeavesOf(h, reached) == {s \in UNION {SlotsOf(At(h, q)) : q \in reached} : IsValue(s.word)}
Pairs(p) == LeavesOf(nodes, Reach(p))

Mapping(pairs) ==
  [k \in {s.key : s \in pairs} |-> Untagged((CHOOSE s \in pairs : s.key = k).word)]
Contents(p) == Mapping(Pairs(p))

(* The trie implements the persistent map: updates go into a new version   *)
(* with the right contents, and no other version changes.                  *)
LiveVersions == {v \in 1..Len(versions) : Live(v)}
Maps ==
  INSTANCE MapStore WITH
    maps <- [v \in 1..Len(versions) |-> Contents(IF Live(v) THEN versions[v].root ELSE NULL)],
    live <- LiveVersions
MapSpec == Maps!Spec

(* hamt_get finds every key that is in a version, with its value, and no   *)
(* other: a leaf is where the chunks of its key lead.                      *)
GetAgrees ==
  \A v \in 1..Len(versions) : Live(v) =>
    LET map == Contents(versions[v].root)
    IN  \A k \in Keys :
          Get(versions[v].root, k) = IF k \in DOMAIN map THEN map[k] ELSE 0

(* hamt_size, which reads a counter kept along the path of each update, is *)
(* the number of keys.                                                     *)
SizeAgrees ==
  \A v \in 1..Len(versions) : Live(v) =>
    Size(versions[v].root) = Cardinality(DOMAIN Contents(versions[v].root))
=============================================================================
