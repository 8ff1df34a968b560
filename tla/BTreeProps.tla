----------------------------- MODULE BTreeProps -----------------------------
(***************************************************************************)
(* What makes the B+ tree correct between two calls.                        *)
(***************************************************************************)
EXTENDS BTree

Idle == pc = "idle" /\ root # NULL

\* The local variables of the functions that have more than the node they are at.
Ops == {"insert", "erase", "delete_pair", "get"}
Locals ==
    [insert_in_parent |-> [parent : Pointer, N : Pointer, k : KeySlot, Nprime : Pointer,
                           n : Pointer, leaked : SUBSET NodeIds],
     split_parent     |-> [parent : Pointer, N : Pointer, k : KeySlot, Nprime : Pointer,
                           n : Pointer, leaked : SUBSET NodeIds,
                           pNode : NodeIds, ppNode : NodeIds, i : Nat, slot : Nat, j : Nat,
                           added : BOOLEAN, kp : KeySlot],
     merge_leaf       |-> [at : Pointer, to : Pointer, i : Nat, loc : Int],
     delete_inner     |-> [N : Pointer, kP : KeySlot, P : Pointer],
     shift_children   |-> [N : Pointer, loc : Int, i : Int],
     find             |-> [at : Pointer],
     balance          |-> [at : Pointer],
     rebalance        |-> [at : Pointer],
     merge_next       |-> [at : Pointer, to : Pointer, i : Int, kp : KeySlot],
     merge_prev       |-> [at : Pointer, to : Pointer, i : Nat, kp : KeySlot]]

Children(n) == {heap[n].firstChild[i] : i \in 0 .. heap[n].numChildren - 1}

\* A node below the root is well linked: its children are live, know it as their
\* parent and are well linked themselves, and it has one child more than keys.
WellLinked ==
    LET linked[n \in NodeIds] ==
          \/ IsLeaf(heap, n)
          \/ /\ IsInner(heap, n)
             /\ heap[n].numChildren = heap[n].slotsinuse + 1
             /\ heap[n].slotsinuse <= NodeSlots
             /\ \A c \in Children(n) :
                   Live(heap, c) /\ heap[c].parent = n /\ ~heap[c].isrootnode /\ linked[c]
    IN  linked

NodesBelow ==
    LET below[n \in Pointer] ==
          {n} \cup IF IsInner(heap, n) THEN UNION {below[c] : c \in Children(n)} ELSE {}
    IN  below

\* How far the leaves are below a node, along its first children.
FirstPath ==
    LET path[n \in Pointer] ==
          {n} \cup IF IsInner(heap, n) THEN path[heap[n].firstChild[0]] ELSE {}
    IN  path
Depth(n) == Cardinality(FirstPath[n])

Tree == NodesBelow[root]
KeysIn(l) == {heap[l].keySlots[i] : i \in 0 .. heap[l].slotsinuse - 1}
KeysBelow(n) == UNION {KeysIn(l) : l \in LeavesBelow[n]}

-----------------------------------------------------------------------------
\* Every node has the layout its flag says, pointers lead to addresses or nowhere, and
\* the local variables are those of the function pc is in.
TypeOK ==
    /\ heap \in Heap
    /\ root \in Pointer /\ headleaf \in Pointer
    /\ totalkeycount \in Int
    /\ pc \in {"idle", "undefined"} \cup Ops \cup DOMAIN Locals
    /\ call \in {NoCall} \cup [op : Ops, key : Keys, data : DataSlot]
    /\ pc # "undefined" => local \in (IF pc \in DOMAIN Locals THEN Locals[pc] ELSE [at : Pointer])
    /\ result \in [code : {"none", "ok", "absent", "duplicate"}, data : DataSlot]

\* The nodes form a tree (insertInnerNodeChildAt, deleteInnerNode and the merges keep
\* children, parents, counts and the root flag in step): between two calls no child is
\* lost, freed or shared, and only the root is flagged isrootnode.
TreeShape ==
    Idle => /\ WellLinked[root]
            /\ heap[root].isrootnode /\ heap[root].parent = NULL

\* Searching finds every key (find relies on it): in each inner node the key at slot i
\* is above every key below child i and not above any key below child i + 1, and the
\* keys of a leaf ascend.
SearchOrder ==
    Idle => /\ TreeShape
            /\ \A n \in Tree :
                  IF heap[n].isleafnode
                  THEN \A i, j \in 0 .. heap[n].slotsinuse - 1 :
                          i < j => heap[n].keySlots[i] <= heap[n].keySlots[j]
                  ELSE \A i \in 0 .. heap[n].slotsinuse - 1 :
                          /\ \A k \in KeysBelow(heap[n].firstChild[i]) : k < heap[n].keySlots[i]
                          /\ \A k \in KeysBelow(heap[n].firstChild[i + 1]) :
                                heap[n].keySlots[i] <= k

\* Splits and merges keep every leaf at the same depth, and every node but the root at
\* least half full (isunderflow, bt_leafnodemin, bt_innernodemin).
Balanced ==
    Idle => /\ TreeShape
            /\ \A n \in Tree :
                  /\ heap[n].isleafnode
                     \/ \A c \in Children(n) : Depth(c) = Depth(heap[n].firstChild[0])
                  /\ \/ n = root
                     \/ IF heap[n].isleafnode THEN heap[n].slotsinuse >= LeafSlots \div 2
                                              ELSE heap[n].numChildren >= NodeSlots \div 2 + 1

\* Range queries walk nextLeaf (comment of leafNode): the chain visits every leaf in
\* ascending order and ends at the last one.
LeafChain ==
    Idle => /\ TreeShape
            /\ \A l \in TreeLeaves :
                  LET after == {m \in TreeLeaves : heap[m].keySlots[0] > heap[l].keySlots[0]}
                  IN  IF after = {} THEN heap[l].nextLeaf = NULL
                      ELSE /\ heap[l].nextLeaf \in after
                           /\ \A m \in after :
                                 heap[heap[l].nextLeaf].keySlots[0] <= heap[m].keySlots[0]

\* The leaves of one parent stay chained to each other, in both directions and in their
\* order, whatever is deleted (the loops of deleteInnerNode, l. 1415 and 1448, and
\* insertInnerNodeChildAt, which also mends the chain where the leaves of two parents
\* come together).  Between two parents a deletion may cut the chain (l. 1381).
SiblingsChained ==
    Idle => \A n \in Tree :
               ~heap[n].isleafnode => \A i \in 0 .. heap[n].numChildren - 2 :
                   LET a == heap[n].firstChild[i]
                       b == heap[n].firstChild[i + 1]
                   IN  heap[a].isleafnode => heap[a].nextLeaf = b /\ heap[b].prevLeaf = a

\* prevLeaf is the inverse of nextLeaf among the leaves of the tree.  (Of the first leaf's
\* it says nothing: it may dangle, LinksLeadToLeaves of BTreeClaims.)
ChainBackwards ==
    Idle => /\ TreeShape
            /\ \A l, m \in TreeLeaves : heap[l].nextLeaf = m <=> heap[m].prevLeaf = l

\* totalkeycount, the size of the tree, is the number of entries in its leaves: a pair
\* moved between leaves is neither counted twice nor lost.
KeyCount ==
    Idle => TreeShape /\ totalkeycount = Cardinality(Entries)

\* "there is a duplicate pair return a special error" (insertleafpair): no pair is in the
\* tree twice, although an insertion is retried and the scan for duplicates, the splits
\* and the merges all copy pairs.
PairsUnique ==
    Idle => Cardinality(Contents) = Cardinality(Entries)

\* No call uses freed or null memory, writes outside an array, or depends on an
\* indeterminate value.
NeverUndefined == pc # "undefined"

\* Whatever the order of the calls, and even in a tree they have damaged, no node holds
\* more than its arrays have room for (isfull, the assert of insertinnernodepair and the
\* split test of insert_in_parent).
CapacityRespected ==
    \A n \in NodeIds :
        Live(heap, n) =>
            IF heap[n].isleafnode
            THEN heap[n].slotsinuse <= LeafSlots
            ELSE heap[n].slotsinuse <= NodeSlots /\ heap[n].numChildren <= NodeSlots + 1

\* The root survives whatever happens below it: between two calls the root pointer leads
\* to a live node, flagged as root and without a parent.
RootStaysValid ==
    Idle => Live(heap, root) /\ heap[root].isrootnode /\ heap[root].parent = NULL

\* insert answers "duplicate" (-2) only when some leaf holds that very pair.
DuplicateHonest ==
    pc = "idle" /\ result.code = "duplicate" =>
        \E l \in NodeIds, i \in LeafIndex :
            /\ IsLeaf(heap, l) /\ i < heap[l].slotsinuse
            /\ heap[l].keySlots[i] = call.key /\ heap[l].dataSlots[i] = call.data
=============================================================================
