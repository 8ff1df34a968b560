----------------------------- MODULE BTreeNodes -----------------------------
(***************************************************************************)
(* The nodes of the B+ tree of src/src/btree.h and the helpers that read    *)
(* and write them.  The heap is a total function from node identifiers to   *)
(* nodes; an identifier whose memory is not allocated is mapped to Free.    *)
(* Slot arrays keep what the code leaves in them beyond slotsinuse: a       *)
(* deletion leaves the last key behind, and a key slot of a new node holds  *)
(* Junk, an indeterminate value.                                            *)
(*                                                                         *)
(* A helper that would use freed or null memory, or write outside an array, *)
(* returns Fault, a heap with no node at all, and every helper maps Fault   *)
(* to Fault, so that helpers compose.                                       *)
(***************************************************************************)
EXTENDS Integers, FiniteSets

CONSTANTS
    Keys,        \* the keys (int in src/src/test.cc)
    Payloads,    \* the data values
    EmptyData,   \* the empty string a new dataSlots array is filled with
    NodeSlots,   \* _nodeslots, bt_innernodemax
    LeafSlots,   \* _leafslots, bt_leafnodemax
    NodeIds,     \* the addresses a node can have
    NULL,        \* the null pointer
    Free,        \* what an address without a node holds
    Junk         \* an uninitialised key slot

ASSUME KeysAssumption == Keys \subseteq Int
\* Every instantiation of the template has as many leaf slots as node slots; insert
\* relies on it when it tests a full leaf against bt_innernodemax.
ASSUME SlotsAssumption == NodeSlots \in 2 .. 1000 /\ LeafSlots = NodeSlots
ASSUME NodeIdsAssumption == NodeIds \subseteq Nat /\ NULL \notin NodeIds
ASSUME JunkAssumption == Junk \notin Keys

-----------------------------------------------------------------------------
LeafIndex  == 0 .. LeafSlots - 1
InnerIndex == 0 .. NodeSlots - 1
ChildIndex == 0 .. NodeSlots
Pointer    == NodeIds \cup {NULL}
KeySlot    == Keys \cup {Junk}
DataSlot   == Payloads \cup {EmptyData}

UShortMax == 65535
UShort    == 0 .. UShortMax
Dec(n)    == (n + UShortMax) % (UShortMax + 1)
Inc(n)    == (n + 1) % (UShortMax + 1)

leafNode ==
    [isleafnode : {TRUE}, isrootnode : BOOLEAN, parent : Pointer, slotsinuse : UShort,
     keySlots : [LeafIndex -> KeySlot], dataSlots : [LeafIndex -> DataSlot],
     nextLeaf : Pointer, prevLeaf : Pointer]

innerNode ==
    [isleafnode : {FALSE}, isrootnode : BOOLEAN, parent : Pointer, slotsinuse : UShort,
     keySlots : [InnerIndex -> KeySlot], firstChild : [ChildIndex -> Pointer],
     numChildren : Int]

node == leafNode \cup innerNode

ASSUME FreeAssumption == Free \notin node

\* Fault model: initialize() does not say that the node is a leaf.
NewLeafUnflagged ==
    [isleafnode |-> FALSE, isrootnode |-> FALSE, parent |-> NULL, slotsinuse |-> 0,
     keySlots |-> [i \in LeafIndex |-> Junk], dataSlots |-> [i \in LeafIndex |-> EmptyData],
     nextLeaf |-> NULL, prevLeaf |-> NULL]

\* The states a leafNode and an innerNode are in after initialize().
NewLeaf ==
    [isleafnode |-> TRUE, isrootnode |-> FALSE, parent |-> NULL, slotsinuse |-> 0,
     keySlots |-> [i \in LeafIndex |-> Junk], dataSlots |-> [i \in LeafIndex |-> EmptyData],
     nextLeaf |-> NULL, prevLeaf |-> NULL]

NewInner ==
    [isleafnode |-> FALSE, isrootnode |-> FALSE, parent |-> NULL, slotsinuse |-> 0,
     keySlots |-> [i \in InnerIndex |-> Junk], firstChild |-> [i \in ChildIndex |-> NULL],
     numChildren |-> 0]

-----------------------------------------------------------------------------
\* Memory.
Heap  == [NodeIds -> node \cup {Free}]
Fault == [n \in NodeIds |-> Free]

Live(h, n)        == n \in NodeIds /\ h[n] # Free
IsLeaf(h, n)      == Live(h, n) /\ h[n].isleafnode
IsInner(h, n)     == Live(h, n) /\ ~h[n].isleafnode
new(h, n, record) == [h EXCEPT ![n] = record]
freeNode(h, n)    == IF Live(h, n) THEN [h EXCEPT ![n] = Free] ELSE Fault

\* A node whose slots in use lie inside its arrays and are initialised: a scan of
\* it is defined.
Readable(h, n) ==
    /\ Live(h, n)
    /\ h[n].slotsinuse <= (IF h[n].isleafnode THEN LeafSlots ELSE NodeSlots)
    /\ \A i \in 0 .. h[n].slotsinuse - 1 : h[n].keySlots[i] # Junk

\* The pointers a node holds, in use or stale.
PointersOf(r) ==
    {r.parent} \cup (IF r.isleafnode THEN {r.nextLeaf, r.prevLeaf}
                                     ELSE {r.firstChild[i] : i \in ChildIndex})
PointedTo(h, S) == UNION {PointersOf(h[n]) : n \in {m \in S : h[m] # Free}}

Least(S) == CHOOSE n \in S : \A m \in S : n <= m

-----------------------------------------------------------------------------
\* Arrays: room for v at i among the first n entries; the entry at i taken out of
\* the first n, the last of which stays behind.
ShiftIn(f, n, i, v) ==
    [j \in DOMAIN f |-> IF j = i THEN v ELSE IF i < j /\ j <= n THEN f[j - 1] ELSE f[j]]
ShiftOut(f, n, i) ==
    [j \in DOMAIN f |-> IF i <= j /\ j < n - 1 THEN f[j + 1] ELSE f[j]]

\* keyequal(a, k) where a may be indeterminate: junk is what it compares to.
keyequal(a, k, junk) == IF a = Junk THEN junk ELSE a = k

\* A key slot read by index; what lies beyond the array is indeterminate too.
KeyAt(r, i) == IF i \in DOMAIN r.keySlots THEN r.keySlots[i] ELSE Junk

\* Fault model: the last child is out of reach.
getChildButLast(r, i) == IF i < 0 \/ i >= r.slotsinuse THEN NULL ELSE r.firstChild[i]

getChild(r, i) == IF i < 0 \/ i > r.slotsinuse THEN NULL ELSE r.firstChild[i]

\* Fault model: a leaf counts as full, or as underflowing, one pair too late.
isfullLate(r)      == r.slotsinuse > LeafSlots
isunderflowLate(r) == IF r.isleafnode THEN r.slotsinuse < LeafSlots \div 2 - 1
                                      ELSE r.numChildren < NodeSlots \div 2 + 1

isfull(r)      == r.slotsinuse = LeafSlots
isunderflow(r) == IF r.isleafnode THEN r.slotsinuse < LeafSlots \div 2
                                  ELSE r.numChildren < NodeSlots \div 2 + 1

\* The slots in use whose key is above k; the first slot at or above k, if any;
\* the first slot equal to k, if any.
SlotsAbove(r, k) == {i \in 0 .. r.slotsinuse - 1 : r.keySlots[i] > k}
find_lowerkey(r, k) ==
    LET at == {i \in 0 .. r.slotsinuse - 1 : k <= r.keySlots[i]}
    IN  IF r.slotsinuse = 0 THEN 0 ELSE IF at = {} THEN -1 ELSE Least(at)
findKeyLoc(r, k) ==
    LET at == {i \in 0 .. r.slotsinuse - 1 : r.keySlots[i] >= k}
    IN  IF at = {} THEN r.slotsinuse ELSE Least(at)
\* Fault model: the first slot at or above k will do.
findKeyEqualOrAbove(r, k) == findKeyLoc(r, k)
findKeyEqual(r, k) ==
    LET at == {i \in 0 .. r.slotsinuse - 1 : r.keySlots[i] = k}
    IN  IF at = {} THEN r.slotsinuse ELSE Least(at)
findInnerNodeKey(r, k) ==
    LET at == {i \in 0 .. r.slotsinuse - 1 : r.keySlots[i] = k}
    IN  IF at = {} THEN -1 ELSE Least(at)

-----------------------------------------------------------------------------
\* Inner nodes.

\* The position of child c in n, judged by c's first key alone; -1 if either is
\* null or the child is a leaf that is not found.
findInnerNodeLoc(h, n, c) ==
    IF n = NULL \/ c = NULL THEN -1
    ELSE LET k     == h[c].keySlots[0]
             above == SlotsAbove(h[n], k)
             end   == h[n].slotsinuse
         IN  IF above # {} THEN Least(above)
             ELSE IF h[c].isleafnode
                  THEN IF /\ end < h[n].numChildren
                          /\ h[h[n].firstChild[end]].keySlots[0] = k THEN end ELSE -1
                  ELSE end

\* What findInnerNodeLoc reads is there and initialised: the keys of n and the
\* first keys of c and, when it looks at it, of the last child.
LocDefined(h, n, c) ==
    \/ n = NULL \/ c = NULL
    \/ /\ Readable(h, n) /\ Live(h, c) /\ ~h[n].isleafnode
       /\ h[c].keySlots[0] # Junk
       /\ \/ SlotsAbove(h[n], h[c].keySlots[0]) # {}
          \/ h[n].slotsinuse >= h[n].numChildren
          \/ LET last == h[n].firstChild[IF h[c].isleafnode THEN h[n].slotsinuse
                                                            ELSE h[n].numChildren - 1]
             IN  Live(h, last) /\ h[last].keySlots[0] # Junk

insertInnerNodeKeyAt(h, n, k, index) ==
    IF ~IsInner(h, n) THEN Fault
    ELSE IF index \notin InnerIndex THEN h
    ELSE IF index < h[n].slotsinuse /\ h[n].slotsinuse >= NodeSlots THEN Fault
    ELSE [h EXCEPT ![n].keySlots = ShiftIn(@, h[n].slotsinuse, index, k),
                   ![n].slotsinuse = Inc(@)]

\* Fault model: only the forward pointer is set.
LinkLeavesOneWay(h, a, b) ==
    IF IsLeaf(h, a) /\ IsLeaf(h, b) THEN [h EXCEPT ![a].nextLeaf = b] ELSE Fault

\* a and b become neighbours in the chain of leaves.
LinkLeaves(h, a, b) ==
    IF IsLeaf(h, a) /\ IsLeaf(h, b)
    THEN [h EXCEPT ![a].nextLeaf = b, ![b].prevLeaf = a]
    ELSE Fault

\* Fault model: the leaf is not linked with the one before it.
LinkWithSiblingsAfter(h, dest, index) ==
    IF index + 1 < h[dest].numChildren
    THEN LinkLeaves(h, h[dest].firstChild[index], h[dest].firstChild[index + 1])
    ELSE h

\* The leaf at index is linked with the leaves beside it in the same parent.
LinkWithSiblings(h, dest, index) ==
    LET child == h[dest].firstChild
        h1    == IF index - 1 >= 0 THEN LinkLeaves(h, child[index - 1], child[index]) ELSE h
    IN  IF index + 1 < h[dest].numChildren
        THEN LinkLeaves(h1, child[index], child[index + 1])
        ELSE h1

insertInnerNodeChildAt(h, dest, n, index) ==
    IF ~IsInner(h, dest) THEN Fault
    ELSE IF index \notin ChildIndex THEN h
    ELSE IF ~Live(h, n) THEN Fault
    ELSE IF index < h[dest].numChildren /\ h[dest].numChildren > NodeSlots THEN Fault
    ELSE LET h1 == [h EXCEPT
                      ![dest].firstChild  = ShiftIn(@, h[dest].numChildren, index, n),
                      ![dest].numChildren = @ + 1,
                      ![n].parent         = dest]
         IN  IF h[n].isleafnode THEN LinkWithSiblings(h1, dest, index) ELSE h1

\* The location insertinnernodepair computes: its loop has no break, so it is the
\* last slot whose key is above k.
PairLocation(r, k) ==
    IF SlotsAbove(r, k) = {} THEN r.slotsinuse
    ELSE CHOOSE i \in SlotsAbove(r, k) : \A j \in SlotsAbove(r, k) : j <= i

insertinnernodepair(h, n, k, child) ==
    LET loc == PairLocation(h[n], k)
    IN  insertInnerNodeChildAt(insertInnerNodeKeyAt(h, n, k, loc), n, child, loc)

AddToChildren(h, n, delta) ==
    IF IsInner(h, n) THEN [h EXCEPT ![n].numChildren = @ + delta] ELSE Fault

\* Fault model: the separator is never updated.
replacekeyNever(h, n, replacee, replacer) == h

replacekey(h, n, replacee, replacer) ==
    IF n = NULL THEN h
    ELSE IF ~IsInner(h, n) THEN Fault
    ELSE LET i == findInnerNodeKey(h[n], replacee)
         IN  IF i = -1 THEN h ELSE [h EXCEPT ![n].keySlots[i] = replacer]

-----------------------------------------------------------------------------
\* Leaves.

\* Fault model: a pair with the same key is taken for a duplicate.
DuplicateFromKeyOnly(h, l, loc, k, d, junk) ==
    IF loc < h[l].slotsinuse /\ h[l].keySlots[loc] = k THEN "pair" ELSE "none"

\* Fault model: no duplicate is ever found.
DuplicateFromNever(h, l, loc, k, d, junk) == "none"

\* The loop of insertleafpair that looks for an equal pair, from slot start of leaf
\* cur and on through the leaves that begin with k: "none", "pair" or, at a freed
\* leaf, "fault".
DuplicateFrom(h, l, loc, k, d, junk) ==
    LET scan[cur \in Pointer] ==
          LET start == IF cur = l THEN loc ELSE 0
              r     == h[cur]
          IN  IF cur = NULL THEN "none"
              ELSE IF ~(IsLeaf(h, cur) /\ Readable(h, cur)) THEN "fault"
              ELSE IF ~keyequal(r.keySlots[start], k, junk) THEN "none"
              ELSE IF \E j \in start .. r.slotsinuse - 1 :
                        /\ r.dataSlots[j] = d
                        /\ \A m \in start .. j : keyequal(r.keySlots[m], k, junk)
                   THEN "pair"
              ELSE scan[r.nextLeaf]
    IN  scan[l]

\* What insertleafpair returns: "full" (-1), "duplicate" (-2), "inserted" (1).
PairResult(h, l, k, d, junk) ==
    IF ~(IsLeaf(h, l) /\ Readable(h, l)) THEN "fault"
    ELSE IF isfull(h[l]) THEN "full"
    ELSE CASE DuplicateFrom(h, l, findKeyLoc(h[l], k), k, d, junk) = "pair"  -> "duplicate"
           [] DuplicateFrom(h, l, findKeyLoc(h[l], k), k, d, junk) = "none"  -> "inserted"
           [] DuplicateFrom(h, l, findKeyLoc(h[l], k), k, d, junk) = "fault" -> "fault"

\* Fault model: slotsinuse is not incremented.
insertleafAtUncounted(h, l, k, d, index) ==
    [h EXCEPT ![l].keySlots = ShiftIn(@, h[l].slotsinuse, index, k), ![l].dataSlots[index] = d]

\* insertleafKeyAt shifts the keys; insertleafDataAt overwrites the datum.
insertleafAt(h, l, k, d, index) ==
    [h EXCEPT ![l].keySlots = ShiftIn(@, h[l].slotsinuse, index, k),
              ![l].dataSlots[index] = d,
              ![l].slotsinuse = Inc(@)]

insertleafpair(h, l, k, d, junk) ==
    CASE PairResult(h, l, k, d, junk) = "fault"    -> Fault
      [] PairResult(h, l, k, d, junk) = "inserted" -> insertleafAt(h, l, k, d, findKeyLoc(h[l], k))
      [] OTHER -> h

\* deleteleafpair: the key and its datum leave the leaf.  A key above every key of
\* the leaf makes find_lowerkey return -1, and the slot before the array is read.
Deletes(h, l, k) ==
    LET loc == find_lowerkey(h[l], k)
    IN  h[l].slotsinuse >= 1 /\ loc >= 0 /\ h[l].keySlots[loc] = k
deleteleafpair(h, l, k) ==
    IF ~(IsLeaf(h, l) /\ Readable(h, l)) THEN Fault
    ELSE IF Deletes(h, l, k)
    THEN LET loc == find_lowerkey(h[l], k) n == h[l].slotsinuse
         IN  [h EXCEPT ![l].keySlots = ShiftOut(@, n, loc),
                       ![l].dataSlots = ShiftOut(@, n, loc),
                       ![l].slotsinuse = Dec(@)]
    ELSE h

\* The two leaves the full leaf r and the pair (k, d) are split into.  The loop goes
\* back one slot after it has placed k, except from slot 0: then pair 0 is passed
\* over and k is placed a second time, as if (k, d) had overwritten pair 0.
SplitLeaf(r, k, d) ==
    LET above == SlotsAbove(r, k)
        n     == r.slotsinuse
        first == IF above # {} /\ Least(above) = 0 THEN 1 ELSE 0
        keys  == [r.keySlots  EXCEPT ![0] = IF first = 1 THEN k ELSE @]
        data  == [r.dataSlots EXCEPT ![0] = IF first = 1 THEN d ELSE @]
        pos   == IF above = {} THEN n ELSE IF first = 1 THEN 1 ELSE Least(above)
        half  == n \div 2
        low   == IF pos < half THEN half + 1 ELSE half    \* pairs of the first leaf
        Pair(i) == IF i < pos THEN <<keys[i], data[i]>>
                   ELSE IF i = pos THEN <<k, d>> ELSE <<keys[i - 1], data[i - 1]>>
        Leaf(from, count) ==
          [NewLeaf EXCEPT
             !.slotsinuse = count,
             !.keySlots   = [i \in LeafIndex |-> IF i < count THEN Pair(from + i)[1] ELSE Junk],
             !.dataSlots  = [i \in LeafIndex |-> IF i < count THEN Pair(from + i)[2] ELSE EmptyData]]
    IN  [ln |-> Leaf(0, low), lp |-> Leaf(low, n + 1 - low)]
=============================================================================
