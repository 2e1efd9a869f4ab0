---------------------------- MODULE RoutingTable ----------------------------
(***************************************************************************)
(* The DHT routing table: a tree of buckets over the identifiers, kept in  *)
(* a vector as in BucketTree, with its dump to dht.json.                   *)
(*                                                                         *)
(* An identifier is a number of IdBits bits and Self our own.  Of a node's *)
(* record the model keeps what makes it bad: whether we ever asked it, and *)
(* its errors in a row (two are as good as more).                          *)
(***************************************************************************)
EXTENDS Integers, Sequences, SequencesExt, FiniteSets, FiniteSetsExt, TLC

CONSTANTS IdBits,      \* bits of an identifier (160)
          Self,        \* our identifier
          BucketSize,  \* nodes of a bucket (8)
          MaxSize,     \* DEFAULT_MAX_SIZE (512)
          Known,       \* identifiers that are met
          MaxReplaced, \* bound: replacements of bad nodes
          MaxFailing   \* bound: nodes with errors at a time

VARIABLES data,        \* BucketTree.data
          treeSize,    \* BucketTree.size
          len          \* RoutingTable.size

vars == <<data, treeSize, len>>

Leaf(bits, start, end, nodes) ==
    [bits |-> bits, start |-> start, end |-> end, leaf |-> TRUE, nodes |-> nodes, kids |-> <<>>]
NewNode(id) == [id |-> id, asked |-> FALSE, errors |-> 0]
Bad(n) == n.asked /\ n.errors >= 2

NewTree == <<Leaf(IdBits, 0, 2^IdBits - 1, <<>>)>>

----------------------------------------------------------------------------
(* BucketTree *)

\* get_leaf: the walk from the root, left when the identifier is in the left child's range.
GetLeaf(d, id) ==
    LET walk[i \in 1..Len(d)] ==
          IF d[i].leaf THEN i
          ELSE LET left == d[d[i].kids[1]]
               IN IF left.start <= id /\ id <= left.end THEN walk[d[i].kids[1]]
                  ELSE walk[d[i].kids[2]]
    IN walk[1]

Find(d, id) ==
    LET nodes == d[GetLeaf(d, id)].nodes IN {k \in DOMAIN nodes : nodes[k].id = id}

ById(a, b) == a.id < b.id
Sorted(nodes) == SortSeq(nodes, ById)

\* BucketTreeIterator: the leaves from left to right.
Leaves(d) ==
    LET walk[i \in 1..Len(d)] ==
          IF d[i].leaf THEN <<i>> ELSE walk[d[i].kids[1]] \o walk[d[i].kids[2]]
    IN walk[1]
Iter(d) == FlattenSeq([k \in DOMAIN Leaves(d) |-> d[Leaves(d)[k]].nodes])

\* A mutant: the new halves overlap in one identifier.
SplitAtOverlaps(node) ==
    LET half == 2^(node.bits - 1) IN [leftEnd |-> node.end - half + 1, rightStart |-> node.start + half]

\* compute_split_start_end: the first bit that varies is cleared in the end, set in the start.
SplitAt(node) == LET half == 2^(node.bits - 1) IN [leftEnd |-> node.end - half, rightStart |-> node.start + half]

\* The drained nodes go to two new leaves at the end of the vector; the bucket becomes inner.
Split(d, i) ==
    LET at == SplitAt(d[i])
        below(n) == n.id < at.rightStart
        above(n) == ~below(n)
        left == Leaf(d[i].bits - 1, d[i].start, at.leftEnd, SelectSeq(d[i].nodes, below))
        right == Leaf(d[i].bits - 1, at.rightStart, d[i].end, SelectSeq(d[i].nodes, above))
    IN Append(Append([d EXCEPT ![i] = [@ EXCEPT !.leaf = FALSE, !.nodes = <<>>,
                                                !.kids = <<Len(d) + 1, Len(d) + 2>>]],
                     left), right)

Answer(d, size, result) == [data |-> d, size |-> size, result |-> result]

\* One round of insert_into_leaf: its early returns in their order, or the need to split.
InsertHere(d, size, i, id) ==
    LET nodes == d[i].nodes
        bad == {k \in DOMAIN nodes : Bad(nodes[k])}
        put(ns) == [d EXCEPT ![i].nodes = Sorted(ns)]
    IN CASE \E k \in DOMAIN nodes : nodes[k].id = id -> Answer(d, size, "WasExisting")
         [] OTHER ->
            IF bad # {} THEN Answer(put([nodes EXCEPT ![Min(bad)] = NewNode(id)]), size, "ReplacedBad")
            ELSE IF size = MaxSize THEN Answer(d, size, "Ignored")
            ELSE IF Len(nodes) < BucketSize
                 THEN Answer(put(Append(nodes, NewNode(id))), size + 1, "Added")
            ELSE IF Self < d[i].start \/ Self > d[i].end THEN Answer(d, size, "Ignored")
            ELSE Answer(Split(d, i), size, "Split")

\* The loop of insert_into_leaf, which goes on in one of the two new leaves after a split; an
\* identifier has IdBits bits to split at.
InsertIntoLeaf(d, size, i, id) ==
    LET round[k \in 0..IdBits] ==
          IF k = 0 THEN InsertHere(d, size, i, id)
          ELSE LET answer == round[k - 1]
                   right == Len(answer.data)
               IN IF answer.result # "Split" THEN answer
                  ELSE InsertHere(answer.data, answer.size,
                                  IF id < answer.data[right].start THEN right - 1 ELSE right, id)
    IN round[IdBits]

----------------------------------------------------------------------------
(* RoutingTable, under the lock of one of the two tables *)

Insert(id) == InsertIntoLeaf(data, treeSize, GetLeaf(data, id), id)

\* add_node; the callers go on with mark_outgoing_request unless the node was ignored.
AddNode(id) ==
    LET answer == Insert(id)
        found == Find(answer.data, id)
        leaf == GetLeaf(answer.data, id)
    IN /\ answer.result = "ReplacedBad" => len - treeSize < MaxReplaced
       /\ treeSize' = answer.size
       /\ len' = IF answer.result \in {"ReplacedBad", "Added"} THEN len + 1 ELSE len
       /\ data' = IF answer.result = "Ignored" THEN answer.data
                  ELSE [answer.data EXCEPT ![leaf].nodes =
                          [k \in DOMAIN @ |-> IF k \in found THEN [@[k] EXCEPT !.asked = TRUE] ELSE @[k]]]

\* get_mut, and the node that was found changed.
Stored(id) == data[GetLeaf(data, id)].nodes[CHOOSE k \in Find(data, id) : TRUE]

Mark(id, node) ==
    /\ Find(data, id) # {}
    /\ data' = [data EXCEPT ![GetLeaf(data, id)].nodes =
                  [k \in DOMAIN @ |-> IF @[k].id = id THEN node ELSE @[k]]]
    /\ UNCHANGED <<treeSize, len>>

MarkOutgoingRequest(id) == Mark(id, [Stored(id) EXCEPT !.asked = TRUE])
MarkResponse(id) == Mark(id, [Stored(id) EXCEPT !.asked = TRUE, !.errors = 0])
MarkError(id) ==
    LET failing(n) == n.errors > 0 /\ n.id # id
    IN /\ Len(SelectSeq(Iter(data), failing)) < MaxFailing
       /\ Mark(id, [Stored(id) EXCEPT !.errors = IF @ = 2 THEN 2 ELSE @ + 1])

----------------------------------------------------------------------------
(* PersistentDht *)

\* dump_dht writes the tree and both sizes; of a node its identifier and address come back.
Dumped(d) == [i \in DOMAIN d |-> [d[i] EXCEPT !.nodes = [k \in DOMAIN @ |-> NewNode(@[k].id)]]]

\* A restart.  An older dump is the table of an earlier state.  The file is renamed before the
\* writer's buffer reaches it, and one that does not parse is as good as none.
Create ==
    \/ data' = Dumped(data) /\ UNCHANGED <<treeSize, len>>
    \/ data' = NewTree /\ treeSize' = 0 /\ len' = 0

----------------------------------------------------------------------------
Init == data = NewTree /\ treeSize = 0 /\ len = 0

Next ==
    \/ \E id \in Known : AddNode(id) \/ MarkOutgoingRequest(id) \/ MarkResponse(id) \/ MarkError(id)
    \/ Create

Spec == Init /\ [][Next]_vars

----------------------------------------------------------------------------
(* Properties *)

\* The buckets cut the identifiers into consecutive ranges, in the order in which they are
\* iterated, whatever was split (compute_split_start_end and its assertions).
LeavesPartitionIds ==
    LET ls == Leaves(data)
    IN /\ data[ls[1]].start = 0 /\ data[ls[Len(ls)]].end = 2^IdBits - 1
       /\ \A k \in 1..Len(ls) - 1 : data[ls[k]].end + 1 = data[ls[k + 1]].start
       /\ \A k \in DOMAIN ls : data[ls[k]].start <= data[ls[k]].end

\* iter() yields the nodes in the order of their identifiers, each once (test_iter_is_ordered),
\* after any mixture of insertions, replacements, splits and reloads; so a node is always found
\* by the walk from the root.
IterIsOrdered ==
    LET ns == Iter(data)
    IN /\ \A k \in 1..Len(ns) - 1 : ns[k].id < ns[k + 1].id
       /\ \A k \in DOMAIN ns : Find(data, ns[k].id) # {}

\* The size that limits the table is the number of nodes in it, over splits, replacements and
\* reloads of a dump, and never exceeds the limit.
TreeSizeIsExact == treeSize = Len(Iter(data)) /\ treeSize <= MaxSize

\* The tree of buckets is in order after any mixture of insertions, splits, replacements, errors
\* and reloads: ranges, order of iteration (test_iter_is_ordered) and the size that limits it.
TableIsSound == LeavesPartitionIds /\ IterIsOrdered /\ TreeSizeIsExact

=============================================================================
