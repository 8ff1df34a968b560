---------------------------- MODULE BTreeProofs ----------------------------
(***************************************************************************)
(* The B+ tree keeps its types, whatever calls are made in whatever order,  *)
(* for any keys, payloads, node size and addresses.                         *)
(*                                                                         *)
(* First what its helpers do to the heap: each maps a heap to a heap in     *)
(* which the same addresses hold a leaf or an inner node, or to Fault.      *)
(***************************************************************************)
EXTENDS BTreeProps, FiniteSetTheorems, TLAPS

\* The same addresses are free, and a leaf stays a leaf.
Alike(h, g) ==
    \A n \in NodeIds : /\ g[n] = Free <=> h[n] = Free
                       /\ h[n] # Free => g[n].isleafnode = h[n].isleafnode

\* What a helper that neither allocates nor frees can make of h.
Edits(h) == {g \in Heap : g = Fault \/ Alike(h, g)}

-----------------------------------------------------------------------------
\* A nonempty set of numbers has a least one.
LEMMA LeastThere ==
    ASSUME NEW S \in SUBSET Nat, S # {}
    PROVE  \E n \in S : \A m \in S : n <= m
<1> DEFINE Below == {0 .. n : n \in S}
<1>1. Below # {} /\ Below \subseteq FiniteSubsetsOf(Nat)
  <2>1. ASSUME NEW n \in S PROVE 0 .. n \in FiniteSubsetsOf(Nat)
    BY FS_Interval, 0 \in Int, n \in Int DEF FiniteSubsetsOf
  <2> QED
    BY <2>1
<1>2. PICK b \in Below : \A c \in Below : ~(<<c, b>> \in StrictSubsetOrdering(Nat))
  <2> HIDE DEF Below
  <2> QED
    BY <1>1, WFMin, FS_StrictSubsetOrderingWellFounded, Zenon
<1>3. PICK x \in S : b = 0 .. x
  OBVIOUS
<1>4. ASSUME NEW y \in S PROVE x <= y
  <2>1. SUFFICES ASSUME ~(x <= y) PROVE FALSE
    OBVIOUS
  <2>2. 0 .. y \subseteq 0 .. x /\ 0 .. y # 0 .. x
    BY <2>1
  <2>3. <<0 .. y, b>> \in StrictSubsetOrdering(Nat)
    BY <2>2, <1>1, <1>3, FS_Interval DEF StrictSubsetOrdering, FiniteSubsetsOf
  <2> QED
    BY <1>2, <2>3
<1> QED
  BY <1>4

\* Least (the first slot a scan stops at, the first address malloc gives) is it.
LEMMA LeastIsMember ==
    ASSUME NEW S \in SUBSET Nat, S # {}
    PROVE  Least(S) \in S
  BY LeastThere DEF Least

\* What is not free is a node, a leaf or an inner node as its flag says.
LEMMA LiveTypes ==
    ASSUME NEW h \in Heap, NEW n
    PROVE  /\ IsLeaf(h, n)  => h[n] \in leafNode /\ n \in NodeIds
           /\ IsInner(h, n) => h[n] \in innerNode /\ n \in NodeIds
           /\ Live(h, n)    => n \in NodeIds /\ (IsLeaf(h, n) \/ IsInner(h, n))
  BY DEF Heap, Live, IsLeaf, IsInner, node, leafNode, innerNode

\* The heap of undefined behaviour is one.
LEMMA FaultIsHeap == Fault \in Heap
  BY DEF Fault, Heap

\* Doing nothing, and faulting, are edits.
LEMMA Unedited ==
    ASSUME NEW h \in Heap
    PROVE  h \in Edits(h) /\ Fault \in Edits(h)
  BY FaultIsHeap DEF Edits, Alike

\* Helpers compose.
LEMMA EditsCompose ==
    ASSUME NEW h \in Heap, NEW g \in Edits(h), NEW f \in Edits(g)
    PROVE  f \in Edits(h)
<1>1. f \in Heap /\ g \in Heap
  BY DEF Edits
<1>2. CASE g = Fault
  <2>1. f = Fault
    <3>1. ASSUME Alike(Fault, f) PROVE f = Fault
      <4>1. \A n \in NodeIds : f[n] = Free
        BY <3>1 DEF Alike, Fault
      <4> QED
        BY <1>1, <4>1 DEF Heap, Fault
    <3> QED
      BY <3>1, <1>2 DEF Edits
  <2> QED
    BY <2>1, Unedited
<1>3. CASE Alike(h, g)
  BY <1>1, <1>3 DEF Edits, Alike
<1> QED
  BY <1>2, <1>3 DEF Edits

\* An edit that does not fault leaves leaves and inner nodes where they are.
LEMMA EditsKeep ==
    ASSUME NEW h \in Heap, NEW g \in Edits(h), g # Fault, NEW n
    PROVE  /\ Live(g, n) <=> Live(h, n)
           /\ IsLeaf(g, n) <=> IsLeaf(h, n)
           /\ IsInner(g, n) <=> IsInner(h, n)
  BY DEF Edits, Alike, Live, IsLeaf, IsInner

\* A node is overwritten by one of its kind.
LEMMA PutLeaf ==
    ASSUME NEW h \in Heap, NEW n, IsLeaf(h, n), NEW r \in leafNode
    PROVE  [h EXCEPT ![n] = r] \in Edits(h)
<1>1. r # Free /\ r \in node /\ r.isleafnode = TRUE
  BY FreeAssumption DEF node, leafNode
<1>2. h[n] # Free /\ h[n].isleafnode = TRUE /\ n \in NodeIds
  BY LiveTypes DEF IsLeaf, Live, leafNode
<1>3. [h EXCEPT ![n] = r] \in Heap
  BY <1>1, <1>2 DEF Heap
<1> QED
  BY <1>1, <1>2, <1>3 DEF Edits, Alike, Heap

\* The same for inner nodes.
LEMMA PutInner ==
    ASSUME NEW h \in Heap, NEW n, IsInner(h, n), NEW r \in innerNode
    PROVE  [h EXCEPT ![n] = r] \in Edits(h)
<1>1. r # Free /\ r \in node /\ r.isleafnode = FALSE
  BY FreeAssumption DEF node, innerNode
<1>2. h[n] # Free /\ h[n].isleafnode = FALSE /\ n \in NodeIds
  BY LiveTypes DEF IsInner, Live, innerNode
<1>3. [h EXCEPT ![n] = r] \in Heap
  BY <1>1, <1>2 DEF Heap
<1> QED
  BY <1>1, <1>2, <1>3 DEF Edits, Alike, Heap

-----------------------------------------------------------------------------
\* Arrays: shifting room into one, or an entry out of one, keeps its type, as long as
\* the entries counted lie inside it.
LEMMA ShiftInTypes ==
    ASSUME NEW last \in Int, NEW T, NEW f \in [0 .. last -> T], NEW n \in Int,
           NEW i \in 0 .. last, NEW v \in T
    PROVE  ShiftIn(f, n, i, v) \in [0 .. last -> T]
  BY DEF ShiftIn

\* An entry leaves, the last counted one stays behind.
LEMMA ShiftOutTypes ==
    ASSUME NEW last \in Int, NEW T, NEW f \in [0 .. last -> T], NEW n \in Int,
           n <= last + 1, NEW i
    PROVE  ShiftOut(f, n, i) \in [0 .. last -> T]
  BY DEF ShiftOut

\* A 16-bit count stays one.
LEMMA CountTypes ==
    ASSUME NEW n \in UShort
    PROVE  /\ n \in Nat
           /\ Inc(n) \in UShort /\ Dec(n) \in UShort
<1>1. \A m \in Nat, i \in Nat : i % (m + 1) \in 0 .. m
  OBVIOUS
<1>2. UShortMax \in Nat
  BY DEF UShortMax
<1> QED
  BY <1>1, <1>2 DEF Inc, Dec, UShort

\* The fields of a node.
LEMMA NodeTypes ==
    ASSUME NEW r \in node
    PROVE  /\ r.slotsinuse \in UShort /\ r.slotsinuse \in Nat /\ r.parent \in Pointer
           /\ r \in leafNode <=> r.isleafnode
           /\ r \in leafNode \/ r \in innerNode
           /\ r \in innerNode => /\ r.keySlots \in [0 .. NodeSlots - 1 -> KeySlot]
                                 /\ r.firstChild \in [0 .. NodeSlots -> Pointer]
                                 /\ r.numChildren \in Int
           /\ r \in leafNode  => /\ r.keySlots \in [0 .. LeafSlots - 1 -> KeySlot]
                                 /\ r.dataSlots \in [0 .. LeafSlots - 1 -> DataSlot]
                                 /\ r.nextLeaf \in Pointer /\ r.prevLeaf \in Pointer
<1>1. r.slotsinuse \in UShort /\ r.parent \in Pointer
  BY DEF node, leafNode, innerNode
<1>2. r \in innerNode => /\ r.keySlots \in [0 .. NodeSlots - 1 -> KeySlot]
                         /\ r.firstChild \in [0 .. NodeSlots -> Pointer]
                         /\ r.numChildren \in Int
  BY DEF innerNode, InnerIndex, ChildIndex
<1>3. r \in leafNode  => /\ r.keySlots \in [0 .. LeafSlots - 1 -> KeySlot]
                         /\ r.dataSlots \in [0 .. LeafSlots - 1 -> DataSlot]
                         /\ r.nextLeaf \in Pointer /\ r.prevLeaf \in Pointer
  BY DEF leafNode, LeafIndex
<1>4. /\ r \in leafNode <=> r.isleafnode
      /\ r \in leafNode \/ r \in innerNode
  BY DEF node, leafNode, innerNode
<1> QED
  BY <1>1, <1>2, <1>3, <1>4, CountTypes

\* A key slot read by index, wherever it is, holds a key or junk.
LEMMA KeyAtTypes ==
    ASSUME NEW r \in node, NEW i
    PROVE  KeyAt(r, i) \in KeySlot
  BY DEF KeyAt, node, leafNode, innerNode, KeySlot

\* The searches in a node return slots of it, its count or -1.
LEMMA SearchTypes ==
    ASSUME NEW r \in node, NEW k
    PROVE  /\ SlotsAbove(r, k) \in SUBSET (0 .. r.slotsinuse - 1)
           /\ SlotsAbove(r, k) # {} => Least(SlotsAbove(r, k)) \in 0 .. r.slotsinuse - 1
           /\ findKeyLoc(r, k) \in 0 .. r.slotsinuse
           /\ findKeyEqual(r, k) \in 0 .. r.slotsinuse
           /\ findInnerNodeKey(r, k) \in {-1} \cup 0 .. r.slotsinuse - 1
           /\ find_lowerkey(r, k) \in {-1, 0} \cup 0 .. r.slotsinuse - 1
<1> DEFINE Slots == 0 .. r.slotsinuse - 1
<1>1. r.slotsinuse \in Nat
  BY NodeTypes
<1>2. ASSUME NEW S \in SUBSET Slots, S # {} PROVE Least(S) \in Slots
  <2>1. S \in SUBSET Nat
    BY <1>1
  <2> QED
    BY <1>2, <2>1, LeastIsMember
<1>3. SlotsAbove(r, k) \in SUBSET Slots
  BY DEF SlotsAbove
<1>4. findKeyLoc(r, k) \in 0 .. r.slotsinuse
  <2> DEFINE at == {i \in 0 .. r.slotsinuse - 1 : r.keySlots[i] >= k}
  <2>1. at \in SUBSET Slots
    OBVIOUS
  <2>2. findKeyLoc(r, k) = IF at = {} THEN r.slotsinuse ELSE Least(at)
    BY DEF findKeyLoc
  <2> HIDE DEF at
  <2> QED
    BY <1>1, <1>2, <2>1, <2>2
<1>5. findKeyEqual(r, k) \in 0 .. r.slotsinuse /\ findInnerNodeKey(r, k) \in {-1} \cup Slots
  <2> DEFINE at == {i \in 0 .. r.slotsinuse - 1 : r.keySlots[i] = k}
  <2>1. at \in SUBSET Slots
    OBVIOUS
  <2> QED
    BY <1>1, <1>2, <2>1 DEF findKeyEqual, findInnerNodeKey
<1>6. find_lowerkey(r, k) \in {-1, 0} \cup Slots
  <2> DEFINE at == {i \in 0 .. r.slotsinuse - 1 : k <= r.keySlots[i]}
  <2>1. at \in SUBSET Slots
    OBVIOUS
  <2> QED
    BY <1>1, <1>2, <2>1 DEF find_lowerkey
<1> QED
  BY <1>2, <1>3, <1>4, <1>5, <1>6

\* findInnerNodeLoc returns a number when what it reads is there.
LEMMA LocTypes ==
    ASSUME NEW h \in Heap, NEW n, NEW c, LocDefined(h, n, c)
    PROVE  findInnerNodeLoc(h, n, c) \in Int
<1>1. CASE n = NULL \/ c = NULL
  BY <1>1 DEF findInnerNodeLoc
<1>2. CASE ~(n = NULL \/ c = NULL)
  <2>1. h[n] \in node
    BY <1>2, LiveTypes DEF LocDefined, node, Live, Readable
  <2>2. h[n].slotsinuse \in Int
    BY <2>1, NodeTypes
  <2> DEFINE k     == h[c].keySlots[0]
             above == SlotsAbove(h[n], k)
  <2>3. above # {} => Least(above) \in Int
    BY <2>1, <2>2, SearchTypes
  <2> HIDE DEF k
  <2>4. findInnerNodeLoc(h, n, c) \in {-1, Least(above), h[n].slotsinuse}
        /\ (above = {} => findInnerNodeLoc(h, n, c) \in {-1, h[n].slotsinuse})
    BY <1>2 DEF findInnerNodeLoc, k
  <2> QED
    BY <2>2, <2>3, <2>4
<1> QED
  BY <1>1, <1>2

\* A field of a node is overwritten by a value of its type.
LEMMA InnerUpdates ==
    ASSUME NEW r \in innerNode
    PROVE  /\ \A c \in Int : [r EXCEPT !.numChildren = c] \in innerNode
           /\ \A f \in [ChildIndex -> Pointer] : [r EXCEPT !.firstChild = f] \in innerNode
           /\ \A f \in [ChildIndex -> Pointer], c \in Int :
                 [r EXCEPT !.firstChild = f, !.numChildren = c] \in innerNode
           /\ \A p \in Pointer : [r EXCEPT !.parent = p] \in innerNode
           /\ \A u \in UShort : [r EXCEPT !.slotsinuse = u] \in innerNode
           /\ \A a \in [InnerIndex -> KeySlot] : [r EXCEPT !.keySlots = a] \in innerNode
           /\ \A a \in [InnerIndex -> KeySlot], u \in UShort :
                 [r EXCEPT !.keySlots = a, !.slotsinuse = u] \in innerNode
           /\ \A a \in [InnerIndex -> KeySlot], f \in [ChildIndex -> Pointer], u \in UShort :
                 [r EXCEPT !.keySlots = a, !.firstChild = f, !.slotsinuse = u] \in innerNode
  BY DEF innerNode

\* The same for leaves.
LEMMA LeafUpdates ==
    ASSUME NEW r \in leafNode
    PROVE  /\ \A p \in Pointer : /\ [r EXCEPT !.parent = p] \in leafNode
                                 /\ [r EXCEPT !.nextLeaf = p] \in leafNode
                                 /\ [r EXCEPT !.prevLeaf = p] \in leafNode
           /\ \A a \in [LeafIndex -> KeySlot], u \in UShort :
                 [r EXCEPT !.keySlots = a, !.slotsinuse = u] \in leafNode
           /\ \A a \in [LeafIndex -> KeySlot], b \in [LeafIndex -> DataSlot], u \in UShort :
                 [r EXCEPT !.keySlots = a, !.dataSlots = b, !.slotsinuse = u] \in leafNode
  BY DEF leafNode

-----------------------------------------------------------------------------
\* Inner nodes.
LEMMA InsertKeyEdits ==
    ASSUME NEW h \in Heap, NEW n, NEW k \in KeySlot, NEW index
    PROVE  insertInnerNodeKeyAt(h, n, k, index) \in Edits(h)
<1> DEFINE r == [h[n] EXCEPT !.keySlots = ShiftIn(@, h[n].slotsinuse, index, k),
                             !.slotsinuse = Inc(@)]
<1>1. CASE IsInner(h, n) /\ index \in InnerIndex
  <2>1. h[n] \in innerNode /\ n \in NodeIds
    BY <1>1, LiveTypes
  <2>2. ShiftIn(h[n].keySlots, h[n].slotsinuse, index, k) \in [InnerIndex -> KeySlot]
    <3>1. NodeSlots - 1 \in Int
      BY SlotsAssumption
    <3>2. /\ h[n].keySlots \in [0 .. NodeSlots - 1 -> KeySlot]
          /\ h[n].slotsinuse \in Int
      BY <2>1, NodeTypes DEF node
    <3> DEFINE last == NodeSlots - 1
               f    == h[n].keySlots
               u    == h[n].slotsinuse
    <3>3. last \in Int /\ f \in [0 .. last -> KeySlot] /\ u \in Int /\ index \in 0 .. last
      BY <1>1, <3>1, <3>2 DEF InnerIndex
    <3> HIDE DEF last, f, u
    <3>4. ShiftIn(f, u, index, k) \in [0 .. last -> KeySlot]
      BY <3>3, ShiftInTypes
    <3> QED
      BY <3>4 DEF last, f, u, InnerIndex
  <2>3. Inc(h[n].slotsinuse) \in UShort
    BY <2>1, CountTypes DEF innerNode
  <2>4. r \in innerNode
    BY <2>1, <2>2, <2>3 DEF innerNode
  <2>5. [h EXCEPT ![n] = r] \in Edits(h)
    BY <1>1, <2>4, PutInner
  <2>6. [h EXCEPT ![n].keySlots = ShiftIn(@, h[n].slotsinuse, index, k),
                  ![n].slotsinuse = Inc(@)] = [h EXCEPT ![n] = r]
    BY <2>1 DEF Heap
  <2> QED
    BY <1>1, <2>5, <2>6, Unedited DEF insertInnerNodeKeyAt
<1> QED
  BY <1>1, Unedited DEF insertInnerNodeKeyAt

\* Two leaves become neighbours.
LEMMA LinkLeavesEdits ==
    ASSUME NEW h \in Heap, NEW a, NEW b
    PROVE  LinkLeaves(h, a, b) \in Edits(h)
<1>1. CASE IsLeaf(h, a) /\ IsLeaf(h, b)
  <2> DEFINE ra == [h[a] EXCEPT !.nextLeaf = b]
             h1 == [h EXCEPT ![a] = ra]
             rb == [h1[b] EXCEPT !.prevLeaf = a]
  <2>1. h[a] \in leafNode /\ a \in NodeIds /\ b \in NodeIds
    BY <1>1, LiveTypes
  <2>2. ra \in leafNode
    BY <2>1 DEF leafNode, Pointer
  <2>3. h1 \in Edits(h) /\ h1 \in Heap
    BY <1>1, <2>2, PutLeaf DEF Edits
  <2>4. h1[b] \in leafNode /\ IsLeaf(h1, b)
    <3>1. h1[b] = IF b = a THEN ra ELSE h[b]
      BY <2>1 DEF Heap
    <3>2. h[b] \in leafNode
      BY <1>1, LiveTypes
    <3>3. h1[b] \in leafNode
      BY <2>2, <3>1, <3>2
    <3> QED
      BY <2>1, <3>3, FreeAssumption DEF IsLeaf, Live, node, leafNode
  <2>5. rb \in leafNode
    BY <2>1, <2>4 DEF leafNode, Pointer
  <2>6. [h1 EXCEPT ![b] = rb] \in Edits(h1)
    BY <2>3, <2>4, <2>5, PutLeaf
  <2>7. [h EXCEPT ![a].nextLeaf = b, ![b].prevLeaf = a] = [h1 EXCEPT ![b] = rb]
    OBVIOUS
  <2> QED
    BY <1>1, <2>3, <2>6, <2>7, EditsCompose DEF LinkLeaves
<1> QED
  BY <1>1, Unedited DEF LinkLeaves

\* A leaf is linked with the leaves beside it.
LEMMA LinkWithSiblingsEdits ==
    ASSUME NEW h \in Heap, NEW dest, NEW index
    PROVE  LinkWithSiblings(h, dest, index) \in Edits(h)
<1> DEFINE below == h[dest].firstChild
           h1 == IF index - 1 >= 0 THEN LinkLeaves(h, below[index - 1], below[index]) ELSE h
           h2 == LinkLeaves(h1, below[index], below[index + 1])
<1>1. h1 \in Edits(h)
  BY LinkLeavesEdits, Unedited
<1>2. h1 \in Heap
  BY <1>1 DEF Edits
<1>3. h2 \in Edits(h1)
  BY <1>2, LinkLeavesEdits
<1>4. h2 \in Edits(h)
  BY <1>1, <1>3, EditsCompose
<1>5. LinkWithSiblings(h, dest, index) = IF index + 1 < h[dest].numChildren THEN h2 ELSE h1
  BY DEF LinkWithSiblings
<1> QED
  BY <1>1, <1>4, <1>5

\* A child is put into an inner node, before it is linked with its siblings.
LEMMA AddChildEdits ==
    ASSUME NEW h \in Heap, NEW dest, IsInner(h, dest), NEW n, Live(h, n),
           NEW index \in ChildIndex
    PROVE  [h EXCEPT ![dest].firstChild  = ShiftIn(@, h[dest].numChildren, index, n),
                     ![dest].numChildren = @ + 1,
                     ![n].parent         = dest] \in Edits(h)
<1> DEFINE rd == [h[dest] EXCEPT !.firstChild  = ShiftIn(@, h[dest].numChildren, index, n),
                                 !.numChildren = @ + 1]
           g  == [h EXCEPT ![dest] = rd]
           rn == [g[n] EXCEPT !.parent = dest]
           h1 == [h EXCEPT ![dest].firstChild  = ShiftIn(@, h[dest].numChildren, index, n),
                           ![dest].numChildren = @ + 1,
                           ![n].parent         = dest]
<1>1. h[dest] \in innerNode /\ dest \in NodeIds /\ n \in NodeIds /\ n \in Pointer
  BY LiveTypes DEF Pointer
<1>2. rd \in innerNode
  <2> DEFINE f == h[dest].firstChild
             c == h[dest].numChildren
  <2>1. f \in [0 .. NodeSlots -> Pointer] /\ c \in Int /\ NodeSlots \in Int
    BY <1>1, NodeTypes, SlotsAssumption DEF node
  <2>2. index \in 0 .. NodeSlots
    BY DEF ChildIndex
  <2>3. ShiftIn(f, c, index, n) \in [ChildIndex -> Pointer]
    <3> HIDE DEF f, c
    <3> QED
      BY <1>1, <2>1, <2>2, ShiftInTypes DEF ChildIndex
  <2>4. [h[dest] EXCEPT !.firstChild = ShiftIn(f, c, index, n), !.numChildren = c + 1]
          \in innerNode
    <3>1. c + 1 \in Int
      BY <2>1
    <3> HIDE DEF f, c
    <3> QED
      BY <1>1, <2>3, <3>1, InnerUpdates
  <2> QED
    BY <2>4
<1>3. g \in Edits(h) /\ g \in Heap
  BY <1>2, PutInner DEF Edits
<1>4. g # Fault
  BY <1>1, <1>2, FreeAssumption DEF Heap, Fault, node
<1>5. Live(g, n)
  BY <1>3, <1>4, EditsKeep
<1>6. [g EXCEPT ![n] = rn] \in Edits(g)
  <2>1. CASE IsLeaf(g, n)
    <3>1. rn \in leafNode
      <4>1. g[n] \in leafNode /\ dest \in Pointer
        BY <1>1, <1>3, <2>1, LiveTypes DEF Pointer
      <4> HIDE DEF g
      <4> QED
        BY <4>1, LeafUpdates
    <3> QED
      BY <1>3, <2>1, <3>1, PutLeaf
  <2>2. CASE IsInner(g, n)
    <3>1. rn \in innerNode
      <4>1. g[n] \in innerNode /\ dest \in Pointer
        BY <1>1, <1>3, <2>2, LiveTypes DEF Pointer
      <4> HIDE DEF g
      <4> QED
        BY <4>1, InnerUpdates
    <3> QED
      BY <1>3, <2>2, <3>1, PutInner
  <2> QED
    BY <1>3, <1>5, <2>1, <2>2, LiveTypes
<1>7. h1 = [g EXCEPT ![n] = rn]
  <2>1. h1[dest] = [g EXCEPT ![n] = rn][dest]
    BY <1>1 DEF Heap
  <2> QED
    BY <1>1, <2>1 DEF Heap
<1>8. h1 \in Edits(h)
  <2> HIDE DEF h1, g, rn
  <2> QED
    BY <1>3, <1>6, <1>7, EditsCompose DEF Edits
<1> QED
  BY <1>8

\* A child is inserted, wherever the location is.
LEMMA InsertChildEdits ==
    ASSUME NEW h \in Heap, NEW dest, NEW n, NEW index
    PROVE  insertInnerNodeChildAt(h, dest, n, index) \in Edits(h)
<1> DEFINE h1 == [h EXCEPT ![dest].firstChild  = ShiftIn(@, h[dest].numChildren, index, n),
                           ![dest].numChildren = @ + 1,
                           ![n].parent         = dest]
<1>1. CASE IsInner(h, dest) /\ index \in ChildIndex /\ Live(h, n)
  <2>1. h1 \in Edits(h) /\ h1 \in Heap
    BY <1>1, AddChildEdits DEF Edits
  <2>2. LinkWithSiblings(h1, dest, index) \in Edits(h)
    <3> HIDE DEF h1
    <3> QED
      BY <2>1, LinkWithSiblingsEdits, EditsCompose
  <2> HIDE DEF h1
  <2> QED
    BY <1>1, <2>1, <2>2, Unedited DEF insertInnerNodeChildAt, h1
<1> QED
  BY <1>1, Unedited DEF insertInnerNodeChildAt

\* A key and its child are inserted.
LEMMA InsertPairEdits ==
    ASSUME NEW h \in Heap, NEW n, NEW k \in KeySlot, NEW c
    PROVE  insertinnernodepair(h, n, k, c) \in Edits(h)
<1> DEFINE loc == PairLocation(h[n], k)
           g   == insertInnerNodeKeyAt(h, n, k, loc)
<1>1. g \in Edits(h) /\ g \in Heap
  BY InsertKeyEdits DEF Edits
<1>2. insertInnerNodeChildAt(g, n, c, loc) \in Edits(g)
  BY <1>1, InsertChildEdits
<1> QED
  BY <1>1, <1>2, EditsCompose DEF insertinnernodepair

\* numChildren is changed alone.
LEMMA AddToChildrenEdits ==
    ASSUME NEW h \in Heap, NEW n, NEW delta \in Int
    PROVE  AddToChildren(h, n, delta) \in Edits(h)
<1> DEFINE r == [h[n] EXCEPT !.numChildren = @ + delta]
<1>1. CASE IsInner(h, n)
  <2>1. h[n] \in innerNode /\ h[n].numChildren + delta \in Int
    BY <1>1, LiveTypes, NodeTypes DEF node
  <2>2. r \in innerNode
    BY <2>1, InnerUpdates
  <2> QED
    BY <1>1, <2>2, PutInner DEF AddToChildren
<1> QED
  BY <1>1, Unedited DEF AddToChildren

\* A separator is replaced.
LEMMA ReplaceKeyEdits ==
    ASSUME NEW h \in Heap, NEW n, NEW old, NEW k \in KeySlot
    PROVE  replacekey(h, n, old, k) \in Edits(h)
<1> DEFINE i == findInnerNodeKey(h[n], old)
           r == [h[n] EXCEPT !.keySlots[i] = k]
<1>1. CASE n # NULL /\ IsInner(h, n)
  <2>1. r \in innerNode
    BY <1>1, LiveTypes DEF innerNode
  <2>2. [h EXCEPT ![n] = r] \in Edits(h)
    BY <1>1, <2>1, PutInner
  <2> QED
    BY <1>1, <2>2, Unedited DEF replacekey
<1> QED
  BY <1>1, Unedited DEF replacekey

-----------------------------------------------------------------------------
\* Leaves.
LEMMA InsertAtEdits ==
    ASSUME NEW h \in Heap, NEW l, IsLeaf(h, l), NEW k \in KeySlot, NEW d \in DataSlot,
           NEW index \in LeafIndex
    PROVE  /\ insertleafAt(h, l, k, d, index) \in Edits(h)
           /\ insertleafAt(h, l, k, d, index)[l].slotsinuse = Inc(h[l].slotsinuse)
           /\ \A n \in NodeIds \ {l} : insertleafAt(h, l, k, d, index)[n] = h[n]
<1> DEFINE keys  == ShiftIn(h[l].keySlots, h[l].slotsinuse, index, k)
           data  == [h[l].dataSlots EXCEPT ![index] = d]
           count == Inc(h[l].slotsinuse)
           r     == [h[l] EXCEPT !.keySlots = keys, !.dataSlots = data, !.slotsinuse = count]
<1>1. h[l] \in leafNode /\ h[l] \in node /\ l \in NodeIds
  BY LiveTypes DEF node
<1>2. keys \in [LeafIndex -> KeySlot]
  <2> DEFINE a == h[l].keySlots
             u == h[l].slotsinuse
  <2>1. a \in [0 .. LeafSlots - 1 -> KeySlot] /\ u \in Int /\ LeafSlots - 1 \in Int
    BY <1>1, NodeTypes, SlotsAssumption
  <2>2. index \in 0 .. LeafSlots - 1
    BY DEF LeafIndex
  <2> HIDE DEF a, u
  <2>3. ShiftIn(a, u, index, k) \in [LeafIndex -> KeySlot]
    BY <2>1, <2>2, ShiftInTypes DEF LeafIndex
  <2> QED
    BY <2>3 DEF a, u
<1>3. data \in [LeafIndex -> DataSlot] /\ count \in UShort
  BY <1>1, NodeTypes, CountTypes DEF LeafIndex
<1>4. r \in leafNode
  <2> HIDE DEF keys, data, count
  <2> QED
    BY <1>1, <1>2, <1>3, LeafUpdates
<1>5. insertleafAt(h, l, k, d, index) = [h EXCEPT ![l] = r]
  BY <1>1 DEF Heap, insertleafAt
<1>6. r.slotsinuse = count
  BY <1>1 DEF leafNode
<1>7. [h EXCEPT ![l] = r] \in Edits(h)
  BY <1>4, PutLeaf
<1> HIDE DEF r
<1> QED
  BY <1>1, <1>5, <1>6, <1>7 DEF Heap

\* insertleafpair inserts, refuses or faults, and overfills no leaf.
LEMMA InsertLeafPairEdits ==
    ASSUME NEW h \in Heap, NEW l, NEW k \in KeySlot, NEW d \in DataSlot, NEW junk
    PROVE  /\ insertleafpair(h, l, k, d, junk) \in Edits(h)
           /\ \A n \in NodeIds : IsLeaf(h, n) /\ h[n].slotsinuse <= LeafSlots
                                 /\ insertleafpair(h, l, k, d, junk) # Fault
                 => insertleafpair(h, l, k, d, junk)[n].slotsinuse <= LeafSlots
<1> DEFINE g == insertleafpair(h, l, k, d, junk)
           index == findKeyLoc(h[l], k)
<1>1. CASE PairResult(h, l, k, d, junk) = "inserted"
  <2>1. IsLeaf(h, l) /\ Readable(h, l) /\ ~isfull(h[l])
    BY <1>1 DEF PairResult
  <2>2. h[l] \in leafNode /\ h[l] \in node /\ l \in NodeIds
    BY <2>1, LiveTypes DEF node
  <2>3. /\ h[l].slotsinuse \in Nat /\ h[l].slotsinuse < LeafSlots
        /\ LeafSlots \in Nat /\ LeafSlots < UShortMax
    BY <2>1, <2>2, NodeTypes, SlotsAssumption DEF isfull, Readable, IsLeaf, UShortMax
  <2>4. index \in LeafIndex
    <3>1. index \in 0 .. h[l].slotsinuse
      BY <2>2, SearchTypes
    <3> HIDE DEF index
    <3> QED
      BY <2>3, <3>1 DEF LeafIndex
  <2>5. g = insertleafAt(h, l, k, d, index)
    BY <1>1 DEF insertleafpair
  <2>6. Inc(h[l].slotsinuse) <= LeafSlots
    <3>1. \A m \in Nat, i \in Nat : i <= m => i % (m + 1) = i
      OBVIOUS
    <3>2. UShortMax \in Nat /\ h[l].slotsinuse + 1 \in Nat /\ h[l].slotsinuse + 1 <= UShortMax
      BY <2>3 DEF UShortMax
    <3>3. (h[l].slotsinuse + 1) % (UShortMax + 1) = h[l].slotsinuse + 1
      BY <3>1, <3>2
    <3> QED
      BY <2>3, <3>3 DEF Inc
  <2> HIDE DEF index, g
  <2> QED
    BY <2>1, <2>4, <2>5, <2>6, InsertAtEdits DEF g
<1>2. CASE PairResult(h, l, k, d, junk) = "fault"
  BY <1>2, Unedited DEF insertleafpair
<1>3. CASE PairResult(h, l, k, d, junk) \notin {"fault", "inserted"}
  BY <1>3, Unedited DEF insertleafpair
<1> QED
  BY <1>1, <1>2, <1>3

\* The keys of a readable leaf move down over slot i.
LEMMA RemoveKeyEdits ==
    ASSUME NEW h \in Heap, NEW l, IsLeaf(h, l), Readable(h, l), NEW i
    PROVE  /\ [h EXCEPT ![l].keySlots = ShiftOut(@, h[l].slotsinuse, i),
                        ![l].slotsinuse = Dec(@)] \in Edits(h)
           /\ [h EXCEPT ![l].keySlots = ShiftOut(@, h[l].slotsinuse, i),
                        ![l].dataSlots = ShiftOut(@, h[l].slotsinuse, i),
                        ![l].slotsinuse = Dec(@)] \in Edits(h)
<1> DEFINE u  == h[l].slotsinuse
           ks == ShiftOut(h[l].keySlots, u, i)
           ds == ShiftOut(h[l].dataSlots, u, i)
           v  == Dec(u)
           r1 == [h[l] EXCEPT !.keySlots = ks, !.slotsinuse = v]
           r2 == [h[l] EXCEPT !.keySlots = ks, !.dataSlots = ds, !.slotsinuse = v]
<1>1. h[l] \in leafNode /\ h[l] \in node /\ l \in NodeIds
  BY LiveTypes DEF node
<1>2. u \in UShort /\ u \in Nat /\ u <= LeafSlots /\ LeafSlots \in Nat
  BY <1>1, NodeTypes, SlotsAssumption DEF Readable, IsLeaf
<1>3. ks \in [LeafIndex -> KeySlot] /\ ds \in [LeafIndex -> DataSlot] /\ v \in UShort
  <2> DEFINE a    == h[l].keySlots
             b    == h[l].dataSlots
             last == LeafSlots - 1
  <2>1. a \in [0 .. last -> KeySlot] /\ b \in [0 .. last -> DataSlot]
    BY <1>1, NodeTypes
  <2>2. last \in Int /\ u \in Int /\ u <= last + 1
    BY <1>2
  <2>3. v \in UShort
    BY <1>2, CountTypes
  <2> HIDE DEF a, b, u, last
  <2>4. /\ ShiftOut(a, u, i) \in [0 .. last -> KeySlot]
        /\ ShiftOut(b, u, i) \in [0 .. last -> DataSlot]
    BY <2>1, <2>2, ShiftOutTypes
  <2> QED
    BY <2>3, <2>4 DEF a, b, last, LeafIndex
<1>4. r1 \in leafNode /\ r2 \in leafNode
  <2> HIDE DEF ks, ds, v
  <2> QED
    BY <1>1, <1>3, LeafUpdates
<1>5. [h EXCEPT ![l] = r1] \in Edits(h) /\ [h EXCEPT ![l] = r2] \in Edits(h)
  <2> HIDE DEF r1, r2
  <2> QED
    BY <1>4, PutLeaf
<1> QED
  BY <1>1, <1>5 DEF Heap

\* deleteleafpair removes a pair, finds none or faults.
LEMMA DeleteLeafPairEdits ==
    ASSUME NEW h \in Heap, NEW l, NEW k
    PROVE  deleteleafpair(h, l, k) \in Edits(h)
<1>1. CASE IsLeaf(h, l) /\ Readable(h, l) /\ Deletes(h, l, k)
  BY <1>1, RemoveKeyEdits DEF deleteleafpair
<1> QED
  BY <1>1, Unedited DEF deleteleafpair

-----------------------------------------------------------------------------
\* Memory: initialize() makes nodes of their types; allocating and freeing an address
\* leave the others as they are.
LEMMA NewNodes ==
    /\ NewLeaf \in leafNode /\ [NewLeaf EXCEPT !.isrootnode = TRUE] \in leafNode
    /\ NewInner \in innerNode /\ [NewInner EXCEPT !.isrootnode = TRUE] \in innerNode
<1>1. 0 \in UShort
  BY DEF UShort, UShortMax
<1>2. /\ [i \in LeafIndex |-> Junk] \in [LeafIndex -> KeySlot]
      /\ [i \in LeafIndex |-> EmptyData] \in [LeafIndex -> DataSlot]
      /\ [i \in InnerIndex |-> Junk] \in [InnerIndex -> KeySlot]
      /\ [i \in ChildIndex |-> NULL] \in [ChildIndex -> Pointer]
      /\ NULL \in Pointer
  BY DEF Pointer, KeySlot, DataSlot
<1>3. NewLeaf \in leafNode
  BY <1>1, <1>2 DEF NewLeaf, leafNode
<1>4. NewInner \in innerNode
  BY <1>1, <1>2 DEF NewInner, innerNode
<1>5. \A r \in leafNode : [r EXCEPT !.isrootnode = TRUE] \in leafNode
  BY DEF leafNode
<1>6. \A r \in innerNode : [r EXCEPT !.isrootnode = TRUE] \in innerNode
  BY DEF innerNode
<1> QED
  BY <1>3, <1>4, <1>5, <1>6

\* new gives one address a node.
LEMMA NewInHeap ==
    ASSUME NEW h \in Heap, NEW n \in NodeIds, NEW r \in node
    PROVE  /\ new(h, n, r) \in Heap /\ new(h, n, r)[n] = r /\ Live(new(h, n, r), n)
           /\ \A m \in NodeIds \ {n} : new(h, n, r)[m] = h[m]
  BY FreeAssumption DEF new, Heap, Live

\* delete takes the node from one address.
LEMMA FreeInHeap ==
    ASSUME NEW h \in Heap, NEW n
    PROVE  /\ freeNode(h, n) \in Heap
           /\ \A m \in NodeIds \ {n} : freeNode(h, n) # Fault => freeNode(h, n)[m] = h[m]
           /\ \A m \in NodeIds : freeNode(h, n)[m] # Free => freeNode(h, n)[m] = h[m]
<1>1. CASE Live(h, n)
  <2>1. freeNode(h, n) = [h EXCEPT ![n] = Free]
    BY <1>1 DEF freeNode
  <2> QED
    BY <1>1, <2>1 DEF Heap, Live
<1>2. CASE ~Live(h, n)
  <2>1. freeNode(h, n) = Fault
    BY <1>2 DEF freeNode
  <2> QED
    BY <2>1, FaultIsHeap DEF Fault
<1> QED
  BY <1>1, <1>2

\* Splitting a full leaf gives two leaves.
LEMMA SplitLeafTypes ==
    ASSUME NEW r \in leafNode, isfull(r), NEW k \in KeySlot, NEW d \in DataSlot
    PROVE  SplitLeaf(r, k, d).ln \in leafNode /\ SplitLeaf(r, k, d).lp \in leafNode
<1> DEFINE above == SlotsAbove(r, k)
           n     == r.slotsinuse
           first == IF above # {} /\ Least(above) = 0 THEN 1 ELSE 0
           keys  == [r.keySlots  EXCEPT ![0] = IF first = 1 THEN k ELSE @]
           data  == [r.dataSlots EXCEPT ![0] = IF first = 1 THEN d ELSE @]
           pos   == IF above = {} THEN n ELSE IF first = 1 THEN 1 ELSE Least(above)
           half  == n \div 2
           low   == IF pos < half THEN half + 1 ELSE half
           Pair(i) == IF i < pos THEN <<keys[i], data[i]>>
                      ELSE IF i = pos THEN <<k, d>> ELSE <<keys[i - 1], data[i - 1]>>
           Leaf(from, count) ==
             [NewLeaf EXCEPT
                !.slotsinuse = count,
                !.keySlots   = [i \in LeafIndex |->
                                   IF i < count THEN Pair(from + i)[1] ELSE Junk],
                !.dataSlots  = [i \in LeafIndex |->
                                   IF i < count THEN Pair(from + i)[2] ELSE EmptyData]]
<1>1. r \in node /\ n = LeafSlots /\ n \in Nat /\ 2 <= n /\ n <= 1000
  BY SlotsAssumption DEF isfull, node
<1>2. keys \in [0 .. n - 1 -> KeySlot] /\ data \in [0 .. n - 1 -> DataSlot]
  BY <1>1, NodeTypes
<1>3. pos \in 0 .. n
  <2>1. above # {} => Least(above) \in 0 .. n - 1
    BY <1>1, SearchTypes
  <2> HIDE DEF above
  <2> QED
    BY <1>1, <2>1
<1>4. \A i \in 0 .. n : Pair(i)[1] \in KeySlot /\ Pair(i)[2] \in DataSlot
  <2> HIDE DEF keys, data, pos, n
  <2>1. TAKE i \in 0 .. n
  <2>2. CASE i < pos
    BY <1>1, <1>2, <1>3, <2>2
  <2>3. CASE i = pos
    BY <2>3
  <2>4. CASE i > pos
    <3>1. i - 1 \in 0 .. n - 1
      BY <1>1, <1>3, <2>4
    <3> QED
      BY <1>1, <1>2, <1>3, <2>4, <3>1
  <2> QED
    BY <1>1, <1>3, <2>2, <2>3, <2>4
<1>5. ASSUME NEW from \in 0 .. n, NEW count \in 0 .. n + 1, from + count <= n + 1
      PROVE  Leaf(from, count) \in leafNode
  <2> DEFINE ks == [i \in LeafIndex |-> IF i < count THEN Pair(from + i)[1] ELSE Junk]
             ds == [i \in LeafIndex |-> IF i < count THEN Pair(from + i)[2] ELSE EmptyData]
  <2>1. count \in UShort
    <3>1. 1001 <= UShortMax /\ UShortMax \in Nat
      BY DEF UShortMax
    <3> QED
      BY <1>1, <3>1 DEF UShort
  <2>2. \A i \in LeafIndex : i < count => from + i \in 0 .. n
    BY <1>1, <1>5 DEF LeafIndex
  <2> HIDE DEF Pair, n
  <2>3. ks \in [LeafIndex -> KeySlot] /\ ds \in [LeafIndex -> DataSlot]
    BY <1>4, <2>2 DEF KeySlot, DataSlot
  <2>4. Leaf(from, count) = [NewLeaf EXCEPT !.slotsinuse = count, !.keySlots = ks, !.dataSlots = ds]
    OBVIOUS
  <2> HIDE DEF ks, ds, Leaf
  <2> QED
    BY <2>1, <2>3, <2>4, NewNodes DEF leafNode
<1>6. low \in 0 .. n /\ n + 1 - low \in 0 .. n + 1 /\ low + (n + 1 - low) <= n + 1
  <2> HIDE DEF n, pos
  <2> QED
    BY <1>1, <1>3
<1>7. SplitLeaf(r, k, d) = [ln |-> Leaf(0, low), lp |-> Leaf(low, n + 1 - low)]
  BY DEF SplitLeaf
<1> HIDE DEF Leaf, low, n
<1>8. Leaf(0, low) \in leafNode /\ Leaf(low, n + 1 - low) \in leafNode
  BY <1>1, <1>5, <1>6
<1> QED
  BY <1>7, <1>8

-----------------------------------------------------------------------------
\* A call that has been made.
Calling == [op : Ops, key : Keys, data : DataSlot]

\* What the code takes for granted at step p, with heap h, local variables l and call
\* c: the node a function works on is still allocated and of the kind its static_cast
\* says, and the scan that has just found a key in it stayed inside its arrays.
Standing(h, p, l, c) ==
    /\ p \notin {"idle", "undefined"} => c \in Calling
    /\ p \in Ops => IsLeaf(h, l.at) /\ Readable(h, l.at)
    /\ p = "balance" => IsLeaf(h, l.at)
    /\ p = "merge_leaf" => IsLeaf(h, l.at) /\ h[l.at].slotsinuse <= LeafSlots
    /\ p = "split_parent" => IsInner(h, l.parent)
    /\ p = "delete_inner" => l.P \in NodeIds
    /\ p = "shift_children" => IsInner(h, l.N)
    /\ p \in {"rebalance", "merge_next", "merge_prev"} => IsInner(h, l.at)

\* The inductive invariant behind the types.
TypeInv == TypeOK /\ Standing(heap, pc, local, call)

-----------------------------------------------------------------------------
\* Steps of the control.
LEMMA LocalsFields ==
    /\ DOMAIN Locals = {"insert_in_parent", "split_parent", "merge_leaf", "delete_inner",
                        "shift_children", "find", "balance", "rebalance", "merge_next",
                        "merge_prev"}
    /\ Locals["insert_in_parent"] =
           [parent : Pointer, N : Pointer, k : KeySlot, Nprime : Pointer, n : Pointer,
            leaked : SUBSET NodeIds]
    /\ Locals["split_parent"] =
           [parent : Pointer, N : Pointer, k : KeySlot, Nprime : Pointer, n : Pointer,
            leaked : SUBSET NodeIds, pNode : NodeIds, ppNode : NodeIds, i : Nat, slot : Nat,
            j : Nat, added : BOOLEAN, kp : KeySlot]
    /\ Locals["merge_leaf"] = [at : Pointer, to : Pointer, i : Nat, loc : Int]
    /\ Locals["delete_inner"] = [N : Pointer, kP : KeySlot, P : Pointer]
    /\ Locals["shift_children"] = [N : Pointer, loc : Int, i : Int]
    /\ Locals["find"] = [at : Pointer]
    /\ Locals["balance"] = [at : Pointer]
    /\ Locals["rebalance"] = [at : Pointer]
    /\ Locals["merge_next"] = [at : Pointer, to : Pointer, i : Int, kp : KeySlot]
    /\ Locals["merge_prev"] = [at : Pointer, to : Pointer, i : Nat, kp : KeySlot]
  BY DEF Locals

\* The invariant at each step the code can be at.
LEMMA TypesAt ==
    ASSUME TypeInv
    PROVE  /\ pc \in Ops => local \in [at : Pointer]
           /\ pc \in DOMAIN Locals => local \in Locals[pc]
           /\ pc \in Ops \cup DOMAIN Locals => call \in Calling
<1>1. Ops \cap DOMAIN Locals = {} /\ "undefined" \notin Ops \cup DOMAIN Locals
      /\ "idle" \notin Ops \cup DOMAIN Locals
  BY LocalsFields DEF Ops
<1> QED
  BY <1>1 DEF TypeInv, TypeOK, Standing

\* A step with a result types if its outcome does.
LEMMA ReturnTypes ==
    ASSUME TypeInv, NEW g \in Heap, NEW code \in {"ok", "absent", "duplicate"},
           NEW d \in DataSlot, Return(g, code, d),
           root' \in Pointer, headleaf' \in Pointer, totalkeycount' \in Int,
           call' \in {NoCall} \cup Calling
    PROVE  TypeInv'
<1>1. CASE g = Fault
  BY <1>1 DEF Return, Go, TypeInv, TypeOK, Standing, Ops, Calling
<1>2. CASE g # Fault
  <2>1. /\ heap' = g /\ pc' = "idle" /\ local' = [at |-> NULL]
        /\ result' = [code |-> code, data |-> d]
    BY <1>2 DEF Return, Go
  <2>2. "idle" \notin DOMAIN Locals
    BY LocalsFields
  <2>3. TypeOK'
    BY <2>1, <2>2 DEF TypeOK, Calling, Pointer
  <2> QED
    BY <2>1, <2>3 DEF TypeInv, Standing, Ops
<1> QED
  BY <1>1, <1>2

\* A step to a function with local variables l.
LEMMA GoTypes ==
    ASSUME TypeInv, NEW g \in Heap, NEW p \in DOMAIN Locals, NEW l, Go(g, p, l),
           g # Fault => l \in Locals[p] /\ Standing(g, p, l, call),
           UNCHANGED <<root, headleaf, call, result>>, totalkeycount' \in Int
    PROVE  TypeInv'
<1>1. CASE g = Fault
  BY <1>1 DEF Go, TypeInv, TypeOK, Standing, Ops, Calling
<1>2. CASE g # Fault
  <2>1. heap' = g /\ pc' = p /\ local' = l
    BY <1>2 DEF Go
  <2>2. TypeOK'
    BY <1>2, <2>1 DEF TypeInv, TypeOK
  <2> QED
    BY <1>2, <2>1, <2>2 DEF TypeInv
<1> QED
  BY <1>1, <1>2

-----------------------------------------------------------------------------
\* The caller.
LEMMA Addresses ==
    /\ UnusedIds # {} => FirstId \in NodeIds /\ heap[FirstId] = Free
    /\ CanAllocate => /\ FirstId \in NodeIds /\ SecondId \in NodeIds /\ FirstId # SecondId
                      /\ heap[FirstId] = Free /\ heap[SecondId] = Free
<1>1. UnusedIds \in SUBSET Nat /\ UnusedIds \ {FirstId} \in SUBSET Nat
  BY NodeIdsAssumption DEF UnusedIds
<1>2. UnusedIds # {} => FirstId \in UnusedIds
  BY <1>1, LeastIsMember DEF FirstId
<1>3. UnusedIds \ {FirstId} # {} => SecondId \in UnusedIds \ {FirstId}
  BY <1>1, LeastIsMember DEF SecondId
<1>4. UnusedIds \subseteq {n \in NodeIds : heap[n] = Free}
  BY DEF UnusedIds
<1> QED
  BY <1>2, <1>3, <1>4 DEF CanAllocate

\* A pair the caller stores is typed.
LEMMA Data ==
    ASSUME NEW k \in Keys, NEW d \in PayloadsOf[k]
    PROVE  d \in DataSlot /\ EmptyData \in DataSlot /\ k \in KeySlot
  BY WorkloadAssumption DEF DataSlot, KeySlot

\* The empty tree types.
LEMMA InitTypes == Init => TypeInv
<1>1. "idle" \notin DOMAIN Locals
  BY LocalsFields
<1> QED
  BY <1>1, FaultIsHeap
     DEF Init, TypeInv, TypeOK, Standing, Pointer, Ops, NoResult, DataSlot

\* A call starts at find, whatever the key.
LEMMA StartTypes ==
    ASSUME TypeInv, NEW op \in Ops, NEW k \in Keys, NEW d \in DataSlot, Start(op, k, d)
    PROVE  TypeInv'
<1>1. /\ "find" \in DOMAIN Locals /\ Locals["find"] = [at : Pointer]
      /\ "find" \notin Ops
  BY LocalsFields DEF Ops
<1>2. TypeOK'
  BY <1>1 DEF Start, TypeInv, TypeOK, NoResult, DataSlot
<1> QED
  BY <1>1, <1>2 DEF Start, TypeInv, Standing, Calling

\* insert into the empty tree makes a root leaf of one pair.
LEMMA MakeRootTypes ==
    ASSUME TypeInv, NEW k \in Keys, NEW d \in PayloadsOf[k], MakeRoot(k, d)
    PROVE  TypeInv'
<1> DEFINE l == FirstId
           r == [NewLeaf EXCEPT !.isrootnode = TRUE]
           h == new(heap, l, r)
           g == insertleafAt(h, l, k, d, 0)
<1>1. l \in NodeIds /\ l \in Pointer
  <2>1. UnusedIds # {}
    <3>1. Cardinality(UnusedIds) >= Reserve /\ Reserve \in Nat \ {0}
      BY WorkloadAssumption DEF MakeRoot
    <3>2. UnusedIds = {} => Cardinality(UnusedIds) = 0
      BY FS_EmptySet, Zenon
    <3> QED
      BY <3>1, <3>2
  <2> QED
    BY <2>1, Addresses DEF Pointer
<1>2. heap \in Heap /\ totalkeycount + 1 \in Int
  BY DEF TypeInv, TypeOK
<1>3. h \in Heap /\ IsLeaf(h, l)
  <2>1. r \in leafNode /\ r \in node /\ r.isleafnode
    BY NewNodes DEF node, leafNode
  <2> HIDE DEF r, l
  <2> QED
    BY <1>1, <1>2, <2>1, NewInHeap DEF IsLeaf
<1>4. g \in Heap
  <2>1. 0 \in LeafIndex
    BY SlotsAssumption DEF LeafIndex
  <2>2. k \in KeySlot /\ d \in DataSlot
    BY Data
  <2> HIDE DEF h, l
  <2>3. g \in Edits(h)
    BY <1>3, <2>1, <2>2, InsertAtEdits
  <2> QED
    BY <2>3 DEF Edits
<1>5. call' \in Calling
  BY Data DEF MakeRoot, Calling, Ops
<1>6. root' \in Pointer /\ headleaf' \in Pointer /\ totalkeycount' \in Int
  BY <1>1, <1>2 DEF MakeRoot
<1>7. Return(g, "ok", EmptyData)
  BY DEF MakeRoot
<1>8. EmptyData \in DataSlot
  BY DEF DataSlot
<1> HIDE DEF g
<1> QED
  BY <1>4, <1>5, <1>6, <1>7, <1>8, ReturnTypes

\* Every call the caller can make types.
LEMMA CallsTypes ==
    ASSUME TypeInv, Calls
    PROVE  TypeInv'
<1>1. PICK k \in Keys :
          \/ \E d \in PayloadsOf[k] : MakeRoot(k, d) \/ CallInsert(k, d)
          \/ \E d \in Payloads : CallDeletePair(k, d)
          \/ CallErase(k) \/ CallGet(k)
          \/ \E op \in {"get", "erase", "delete_pair"} : CallOnEmptyTree(op, k)
  BY DEF Calls
<1>2. ASSUME NEW d \in PayloadsOf[k], MakeRoot(k, d) PROVE TypeInv'
  BY <1>2, MakeRootTypes
<1>3. ASSUME NEW d \in PayloadsOf[k], CallInsert(k, d) PROVE TypeInv'
  BY <1>3, StartTypes, Data DEF CallInsert, Ops
<1>4. ASSUME NEW d \in Payloads, CallDeletePair(k, d) PROVE TypeInv'
  BY <1>4, StartTypes DEF CallDeletePair, Ops, DataSlot
<1>5. EmptyData \in DataSlot
  BY DEF DataSlot
<1>6. CASE CallErase(k)
  BY <1>5, <1>6, StartTypes DEF CallErase, Ops
<1>7. CASE CallGet(k)
  BY <1>5, <1>7, StartTypes DEF CallGet, Ops
<1>8. ASSUME NEW op \in {"get", "erase", "delete_pair"}, CallOnEmptyTree(op, k) PROVE TypeInv'
  <2>1. op \in Ops
    BY DEF Ops
  <2>2. call' \in Calling
    BY <1>5, <1>8, <2>1 DEF CallOnEmptyTree, Calling
  <2>3. TypeOK'
    BY <1>5, <1>8, <2>2 DEF CallOnEmptyTree, TypeInv, TypeOK, Calling
  <2> QED
    BY <1>8, <2>2, <2>3 DEF CallOnEmptyTree, TypeInv, Standing, Ops
<1> QED
  BY <1>1, <1>2, <1>3, <1>4, <1>6, <1>7, <1>8

-----------------------------------------------------------------------------
\* find and get.
LEMMA ReadableTypes ==
    ASSUME NEW h \in Heap, NEW n, Readable(h, n)
    PROVE  /\ h[n] \in node /\ h[n].slotsinuse \in Nat
           /\ IsLeaf(h, n)  => h[n] \in leafNode /\ h[n].slotsinuse <= LeafSlots
           /\ IsInner(h, n) => h[n] \in innerNode /\ h[n].slotsinuse <= NodeSlots
<1>1. h[n] \in node
  BY LiveTypes DEF Readable, node
<1> QED
  BY <1>1, NodeTypes, LiveTypes DEF Readable, IsLeaf, IsInner

\* getChild stays inside firstChild, or returns NULL.
LEMMA GetChildTypes ==
    ASSUME NEW r \in innerNode, r.slotsinuse <= NodeSlots, NEW i \in Int
    PROVE  getChild(r, i) \in Pointer
<1>1. r.firstChild \in [0 .. NodeSlots -> Pointer] /\ r.slotsinuse \in Nat
  BY NodeTypes DEF node
<1>2. NULL \in Pointer /\ NodeSlots \in Nat
  BY SlotsAssumption DEF Pointer
<1> QED
  BY <1>1, <1>2 DEF getChild

\* A level of find leads to a child, or nowhere.
LEMMA FindChildTypes ==
    ASSUME TypeInv, FindChild
    PROVE  TypeInv'
<1> DEFINE n     == heap[local.at]
           above == SlotsAbove(n, call.key)
           to    == IF above = {} THEN getChild(n, n.slotsinuse)
                    ELSE IF n.numChildren <= n.slotsinuse THEN local.at
                    ELSE IF getChild(n, Least(above)) # NULL THEN getChild(n, Least(above))
                    ELSE getChild(n, n.numChildren - 1)
<1>1. /\ "find" \in DOMAIN Locals /\ Locals["find"] = [at : Pointer]
      /\ pc = "find" /\ pc' = "find"
  BY LocalsFields DEF FindChild
<1>2. local \in [at : Pointer] /\ heap \in Heap
  BY <1>1 DEF TypeInv, TypeOK
<1>3. n \in innerNode /\ n.slotsinuse <= NodeSlots /\ n.slotsinuse \in Int /\ n \in node
  BY <1>2, ReadableTypes DEF FindChild
<1>4. above # {} => Least(above) \in Int
  BY <1>3, SearchTypes
<1>5. n.numChildren - 1 \in Int
  BY <1>3, NodeTypes
<1>6. to \in Pointer
  <2> HIDE DEF n, above
  <2> QED
    BY <1>2, <1>3, <1>4, <1>5, GetChildTypes
<1>7. local' = [at |-> to] /\ UNCHANGED <<heap, root, headleaf, totalkeycount, call, result>>
  BY DEF FindChild
<1> HIDE DEF to
<1> QED
  BY <1>1, <1>6, <1>7 DEF TypeInv, TypeOK, Standing, Ops

\* A step along the leaves, and the end of find: the leaf found is live, readable, and
\* the one the operation works on.
LEMMA FindTypes ==
    ASSUME TypeInv, FindNextLeaf \/ FindLeaf
    PROVE  TypeInv'
<1>1. /\ "find" \in DOMAIN Locals /\ Locals["find"] = [at : Pointer]
      /\ pc = "find" /\ Ops \cap DOMAIN Locals = {} /\ "undefined" \notin Ops
      /\ "idle" \notin Ops /\ "balance" \notin Ops
  BY LocalsFields DEF FindNextLeaf, FindLeaf, Ops
<1>2. local \in [at : Pointer] /\ heap \in Heap /\ call \in Calling
  BY <1>1 DEF TypeInv, TypeOK, Standing
<1>3. CASE FindNextLeaf
  <2>1. heap[local.at].nextLeaf \in Pointer
    BY <1>2, <1>3, LiveTypes, NodeTypes DEF FindNextLeaf, node
  <2> QED
    BY <1>1, <1>3, <2>1 DEF FindNextLeaf, TypeInv, TypeOK, Standing, Ops
<1>4. CASE FindLeaf
  <2>1. pc' \in Ops
    BY <1>2, <1>4 DEF FindLeaf, Calling
  <2>2. TypeOK'
    BY <1>1, <1>2, <1>4, <2>1 DEF FindLeaf, TypeInv, TypeOK
  <2>3. Standing(heap, pc', local, call)
    BY <1>2, <1>4, <2>1 DEF FindLeaf, Standing, Ops
  <2> QED
    BY <1>4, <2>2, <2>3 DEF FindLeaf, TypeInv
<1> QED
  BY <1>3, <1>4

\* get returns a datum of the leaf.
LEMMA GetTypes ==
    ASSUME TypeInv, Get
    PROVE  TypeInv'
<1> DEFINE r  == heap[local.at]
           at == findKeyEqual(r, call.key)
<1>1. /\ IsLeaf(heap, local.at) /\ Readable(heap, local.at) /\ heap \in Heap
      /\ root \in Pointer /\ headleaf \in Pointer /\ totalkeycount \in Int
      /\ call \in {NoCall} \cup Calling
  BY DEF Get, TypeInv, TypeOK, Standing, Ops, Calling
<1>2. at \in 0 .. r.slotsinuse /\ r.slotsinuse \in Nat /\ r.slotsinuse <= LeafSlots
  BY <1>1, ReadableTypes, SearchTypes
<1>3. at < r.slotsinuse => r.dataSlots[at] \in DataSlot
  <2>1. r.dataSlots \in [0 .. LeafSlots - 1 -> DataSlot] /\ LeafSlots \in Int
    BY <1>1, LiveTypes, NodeTypes, SlotsAssumption DEF node
  <2> HIDE DEF at
  <2> QED
    BY <1>2, <2>1
<1>4. EmptyData \in DataSlot
  BY DEF DataSlot
<1>5. CASE at < r.slotsinuse
  BY <1>1, <1>3, <1>5, ReturnTypes DEF Get
<1>6. CASE ~(at < r.slotsinuse)
  BY <1>1, <1>4, <1>6, ReturnTypes DEF Get
<1> QED
  BY <1>5, <1>6

-----------------------------------------------------------------------------
\* insert.
LEMMA Globals ==
    ASSUME TypeInv
    PROVE  /\ heap \in Heap /\ root \in Pointer /\ headleaf \in Pointer
           /\ totalkeycount \in Int /\ totalkeycount + 1 \in Int /\ totalkeycount - 1 \in Int
           /\ call \in {NoCall} \cup Calling /\ EmptyData \in DataSlot
  BY DEF TypeInv, TypeOK, Calling, DataSlot

\* The parameters of a call.
LEMMA CallFields ==
    ASSUME NEW c \in Calling
    PROVE  c.op \in Ops /\ c.key \in Keys /\ c.key \in KeySlot /\ c.data \in DataSlot
  BY DEF Calling, KeySlot

\* Where a function starts, its leaf or inner node is there.
LEMMA AtOps ==
    ASSUME TypeInv, pc \in Ops
    PROVE  /\ IsLeaf(heap, local.at) /\ Readable(heap, local.at) /\ local.at \in NodeIds
           /\ heap[local.at] \in leafNode /\ heap[local.at] \in node
           /\ heap[local.at].slotsinuse \in Nat /\ heap[local.at].slotsinuse <= LeafSlots
           /\ call \in Calling
<1>1. /\ IsLeaf(heap, local.at) /\ Readable(heap, local.at) /\ call \in Calling
  BY DEF TypeInv, Standing, Ops
<1> QED
  BY <1>1, Globals, LiveTypes, ReadableTypes DEF node

\* A pair is inserted into a leaf with room, or refused.
LEMMA InsertPairTypes ==
    ASSUME TypeInv, NEW junk, InsertPair(junk) \/ InsertDuplicate(junk)
    PROVE  TypeInv'
<1>1. pc \in Ops
  BY DEF InsertPair, InsertDuplicate, Ops
<1>2. call.key \in KeySlot /\ call.data \in DataSlot
  BY <1>1, AtOps, CallFields
<1>3. CASE InsertPair(junk)
  <2> DEFINE g == insertleafpair(heap, local.at, call.key, call.data, junk)
  <2>1. g \in Heap
    BY <1>2, Globals, InsertLeafPairEdits DEF Edits
  <2>2. Return(g, "ok", EmptyData) /\ totalkeycount' = totalkeycount + 1
        /\ UNCHANGED <<root, headleaf, call>>
    BY <1>3 DEF InsertPair
  <2> HIDE DEF g
  <2> QED
    BY <2>1, <2>2, Globals, ReturnTypes
<1>4. CASE InsertDuplicate(junk)
  BY <1>4, Globals, ReturnTypes DEF InsertDuplicate
<1> QED
  BY <1>3, <1>4

\* A full leaf is split into two new leaves.
LEMMA SplitFullLeafTypes ==
    ASSUME TypeInv, SplitFullLeaf
    PROVE  TypeInv'
<1> DEFINE n     == local.at
           ln    == FirstId
           lp    == SecondId
           split == SplitLeaf(heap[n], call.key, call.data)
           rn    == [split.ln EXCEPT !.nextLeaf = lp]
           rp    == [split.lp EXCEPT !.prevLeaf = ln]
           h1    == new(heap, ln, rn)
           g     == new(h1, lp, rp)
           l     == [parent |-> heap[n].parent, N |-> ln, k |-> split.lp.keySlots[0],
                     Nprime |-> lp, n |-> n, leaked |-> {}]
<1>1. pc \in Ops
  BY DEF SplitFullLeaf, Ops
<1>2. /\ ln \in NodeIds /\ lp \in NodeIds /\ ln \in Pointer /\ lp \in Pointer
  BY Addresses DEF SplitFullLeaf, Pointer
<1>3. split.ln \in leafNode /\ split.lp \in leafNode
  BY <1>1, AtOps, CallFields, SplitLeafTypes DEF SplitFullLeaf
<1>4. rn \in node /\ rp \in node
  <2> HIDE DEF split, ln, lp
  <2> QED
    BY <1>2, <1>3, LeafUpdates DEF node
<1>5. g \in Heap
  <2>1. h1 \in Heap
    BY <1>2, <1>4, Globals, NewInHeap
  <2> HIDE DEF h1, rp
  <2> QED
    BY <1>2, <1>4, <2>1, NewInHeap
<1>6. l \in Locals["insert_in_parent"]
  <2>1. split.lp.keySlots[0] \in KeySlot
    <3>1. split.lp.keySlots \in [0 .. LeafSlots - 1 -> KeySlot] /\ 0 \in 0 .. LeafSlots - 1
      BY <1>3, NodeTypes, SlotsAssumption DEF node
    <3> QED
      BY <3>1
  <2>2. heap[n].parent \in Pointer /\ n \in Pointer
    BY <1>1, AtOps, NodeTypes DEF Pointer
  <2> HIDE DEF split, n, ln, lp
  <2> QED
    BY <1>2, <2>1, <2>2, LocalsFields
<1>7. /\ Go(g, "insert_in_parent", l)
      /\ totalkeycount' = totalkeycount + 1 /\ UNCHANGED <<root, headleaf, call, result>>
  BY DEF SplitFullLeaf
<1>8. Standing(g, "insert_in_parent", l, call)
  BY <1>1, AtOps DEF Standing, Ops
<1> HIDE DEF g, l
<1> QED
  BY <1>5, <1>6, <1>7, <1>8, Globals, LocalsFields, GoTypes

\* The local variables of insert_in_parent.
LEMMA AtInsertInParent ==
    ASSUME TypeInv, pc \in {"insert_in_parent", "split_parent"}
    PROVE  /\ local.parent \in Pointer /\ local.N \in Pointer /\ local.k \in KeySlot
           /\ local.Nprime \in Pointer /\ local.n \in Pointer
           /\ local.leaked \in SUBSET NodeIds
           /\ call \in Calling
<1>1. pc \in DOMAIN Locals
  BY LocalsFields
<1>2. local \in Locals[pc] /\ call \in Calling
  BY <1>1, TypesAt
<1>3. CASE pc = "insert_in_parent"
  BY <1>2, <1>3, LocalsFields
<1>4. CASE pc = "split_parent"
  BY <1>2, <1>4, LocalsFields
<1> QED
  BY <1>3, <1>4

\* The end of an insertion frees the leaf that was split.
LEMMA InsertEndsTypes ==
    ASSUME TypeInv, NEW h \in Heap, InsertEnds(h),
           root' \in Pointer, UNCHANGED <<headleaf, totalkeycount, call>>
    PROVE  TypeInv'
<1> DEFINE h1     == freeNode(h, local.n)
           unseen == local.leaked \ PointedTo(h1, NodeIds \ local.leaked)
           g      == [n \in NodeIds |-> IF n \in unseen THEN Free ELSE h1[n]]
<1>1. h1 \in Heap
  BY FreeInHeap
<1>2. g \in Heap
  <2> HIDE DEF h1, unseen
  <2> QED
    BY <1>1 DEF Heap
<1>3. Return(g, "ok", EmptyData)
  BY DEF InsertEnds
<1> HIDE DEF g
<1> QED
  BY <1>2, <1>3, Globals, ReturnTypes

\* insert_in_parent makes a new root.
LEMMA NewRootTypes ==
    ASSUME TypeInv, NewRoot
    PROVE  TypeInv'
<1> DEFINE tnode == FirstId
           h1    == new(heap, tnode, [NewInner EXCEPT !.isrootnode = TRUE])
           h2    == insertInnerNodeKeyAt(h1, tnode, local.k, 0)
           h3    == insertInnerNodeChildAt(h2, tnode, local.N, 0)
           h4    == insertInnerNodeChildAt(h3, tnode, local.Nprime, 1)
<1>1. local.k \in KeySlot
  BY AtInsertInParent DEF NewRoot
<1>2. tnode \in NodeIds /\ tnode \in Pointer
  BY Addresses DEF NewRoot, Pointer
<1>3. h1 \in Heap
  BY <1>2, Globals, NewNodes, NewInHeap DEF node
<1>4. h2 \in Heap
  BY <1>1, <1>3, InsertKeyEdits DEF Edits
<1>5. h3 \in Heap
  BY <1>4, InsertChildEdits DEF Edits
<1>6. h4 \in Heap
  BY <1>5, InsertChildEdits DEF Edits
<1>7. /\ InsertEnds(h4) /\ root' = tnode /\ UNCHANGED <<headleaf, totalkeycount, call>>
  BY DEF NewRoot
<1> HIDE DEF h4
<1> QED
  BY <1>2, <1>6, <1>7, InsertEndsTypes

\* insert_in_parent finds room in the parent.
LEMMA InsertInParentTypes ==
    ASSUME TypeInv, InsertInParent
    PROVE  TypeInv'
<1> DEFINE p   == local.parent
           loc == PairLocation(heap[p], local.k)
           h0  == AddToChildren(heap, p, -1)
           h1  == insertinnernodepair(h0, p, local.k, local.N)
           h2  == IF loc >= 1 THEN insertInnerNodeChildAt(h1, p, local.Nprime, loc + 1) ELSE h1
<1>1. local.k \in KeySlot
  BY AtInsertInParent DEF InsertInParent
<1>2. h0 \in Heap
  BY Globals, AddToChildrenEdits DEF Edits
<1>3. h1 \in Heap
  BY <1>1, <1>2, InsertPairEdits DEF Edits
<1>4. h2 \in Heap
  BY <1>3, InsertChildEdits DEF Edits
<1>5. InsertEnds(h2) /\ UNCHANGED <<root, headleaf, totalkeycount, call>>
  BY DEF InsertInParent
<1> HIDE DEF h2
<1> QED
  BY <1>4, <1>5, Globals, InsertEndsTypes

\* insert_in_parent allocates two inner nodes; the full parent is still there.
LEMMA SplitParentTypes ==
    ASSUME TypeInv, SplitParent
    PROVE  TypeInv'
<1> DEFINE h1 == new(heap, FirstId, NewInner)
           g  == new(h1, SecondId, NewInner)
           l  == [parent |-> local.parent, N |-> local.N, k |-> local.k,
                  Nprime |-> local.Nprime, n |-> local.n, leaked |-> local.leaked,
                  pNode |-> FirstId, ppNode |-> SecondId,
                  i |-> 0, slot |-> 0, j |-> 0, added |-> FALSE, kp |-> Junk]
<1>1. /\ FirstId \in NodeIds /\ SecondId \in NodeIds
      /\ heap[FirstId] = Free /\ heap[SecondId] = Free
  BY Addresses DEF SplitParent
<1>2. h1 \in Heap
  BY <1>1, Globals, NewNodes, NewInHeap DEF node
<1>3. g \in Heap
  <2> HIDE DEF h1
  <2> QED
    BY <1>1, <1>2, NewNodes, NewInHeap DEF node
<1>4. /\ local.parent \in Pointer /\ local.N \in Pointer /\ local.k \in KeySlot
      /\ local.Nprime \in Pointer /\ local.n \in Pointer /\ local.leaked \in SUBSET NodeIds
      /\ call \in Calling
  BY AtInsertInParent DEF SplitParent
<1>5. l \in Locals["split_parent"]
  <2>1. Junk \in KeySlot
    BY DEF KeySlot
  <2> QED
    BY <1>1, <1>4, <2>1, LocalsFields
<1>6. Standing(g, "split_parent", l, call)
  <2>1. IsInner(heap, local.parent) /\ local.parent \in NodeIds /\ heap[local.parent] # Free
    BY DEF SplitParent, IsInner, Live
  <2>0. local.parent \in NodeIds \ {FirstId} /\ local.parent \in NodeIds \ {SecondId}
    BY <1>1, <2>1
  <2>2. h1[local.parent] = heap[local.parent]
    <3>1. NewInner \in node
      BY NewNodes DEF node
    <3> QED
      BY <1>1, <2>0, <3>1, Globals, NewInHeap
  <2>3. g[local.parent] = h1[local.parent]
    <3>1. NewInner \in node
      BY NewNodes DEF node
    <3> HIDE DEF h1
    <3> QED
      BY <1>1, <1>2, <2>0, <3>1, NewInHeap
  <2>4. IsInner(g, l.parent)
    <3> HIDE DEF g, h1
    <3> QED
      BY <2>1, <2>2, <2>3 DEF IsInner, Live
  <2> HIDE DEF g, l
  <2> QED
    BY <1>4, <2>4 DEF Standing, Ops
<1>7. /\ Go(g, "split_parent", l)
      /\ UNCHANGED <<root, headleaf, totalkeycount, call, result>>
  BY DEF SplitParent
<1> HIDE DEF g, l
<1> QED
  BY <1>3, <1>5, <1>6, <1>7, Globals, LocalsFields, GoTypes

\* An iteration of the loop that fills the two nodes places one or two pairs.
LEMMA PlaceEdits ==
    ASSUME NEW h \in Heap, NEW dest, NEW at
    PROVE  /\ \A k \in KeySlot : \A N, M : PlaceNewPair(h, dest, k, N, M, at) \in Edits(h)
           /\ \A p \in node : \A i : PlaceOldPair(h, dest, p, i, at) \in Edits(h)
<1>1. ASSUME NEW k \in KeySlot, NEW N, NEW M PROVE PlaceNewPair(h, dest, k, N, M, at) \in Edits(h)
  <2> DEFINE h1 == insertInnerNodeKeyAt(h, dest, k, at)
             h2 == insertInnerNodeChildAt(h1, dest, N, at)
             h3 == insertInnerNodeChildAt(h2, dest, M, at + 1)
  <2>1. h1 \in Edits(h) /\ h1 \in Heap
    BY InsertKeyEdits DEF Edits
  <2>2. h2 \in Edits(h1) /\ h2 \in Heap
    BY <2>1, InsertChildEdits DEF Edits
  <2>3. h3 \in Edits(h2)
    BY <2>2, InsertChildEdits
  <2>4. PlaceNewPair(h, dest, k, N, M, at) = h3
    BY DEF PlaceNewPair
  <2> HIDE DEF h1, h2, h3
  <2>5. h2 \in Edits(h)
    BY <2>1, <2>2, EditsCompose
  <2> QED
    BY <2>3, <2>4, <2>5, EditsCompose
<1>2. ASSUME NEW p \in node, NEW i PROVE PlaceOldPair(h, dest, p, i, at) \in Edits(h)
  <2> DEFINE h1 == insertInnerNodeKeyAt(h, dest, KeyAt(p, i), at)
             h2 == insertInnerNodeChildAt(h1, dest, p.firstChild[i], at)
  <2>1. h1 \in Edits(h) /\ h1 \in Heap
    BY KeyAtTypes, InsertKeyEdits DEF Edits
  <2>2. h2 \in Edits(h1)
    BY <2>1, InsertChildEdits
  <2>3. PlaceOldPair(h, dest, p, i, at) = h2
    BY DEF PlaceOldPair
  <2> HIDE DEF h1, h2
  <2> QED
    BY <2>1, <2>2, <2>3, EditsCompose
<1> QED
  BY <1>1, <1>2

\* At the split point the first node loses its last key.
LEMMA CutEdits ==
    ASSUME NEW h \in Heap, NEW n, NEW p, NEW i
    PROVE  /\ CutFirstHalf(h, n, p, i) \in Edits(h)
           /\ CutFirstHalf(h, n, p, i) # Fault => IsInner(h, n)
<1> DEFINE r  == [h[n] EXCEPT !.slotsinuse = Dec(@)]
           h1 == [h EXCEPT ![n] = r]
           c  == p.firstChild
<1>1. CASE IsInner(h, n) /\ Live(h, p.firstChild[i])
  <2>1. r \in innerNode
    <3>1. h[n] \in innerNode /\ Dec(h[n].slotsinuse) \in UShort
      BY <1>1, LiveTypes, NodeTypes, CountTypes DEF node
    <3> QED
      BY <3>1, InnerUpdates
  <2>2. h1 \in Edits(h) /\ h1 \in Heap
    <3> HIDE DEF r
    <3> QED
      BY <1>1, <2>1, PutInner DEF Edits
  <2>3. LinkLeaves(h1, c[i - 1], c[i]) \in Edits(h)
    <3>1. LinkLeaves(h1, c[i - 1], c[i]) \in Edits(h1)
      BY <2>2, LinkLeavesEdits
    <3> HIDE DEF h1
    <3> QED
      BY <2>2, <3>1, EditsCompose
  <2> QED
    BY <1>1, <2>2, <2>3 DEF CutFirstHalf
<1>2. CASE ~(IsInner(h, n) /\ Live(h, p.firstChild[i]))
  BY <1>2, Unedited DEF CutFirstHalf
<1> QED
  BY <1>1, <1>2

\* The counters of that loop.
LEMMA SplitLocals ==
    ASSUME NEW l \in Locals["split_parent"], NEW m \in Nat, NEW s \in Nat, NEW j \in Nat,
           NEW a \in BOOLEAN, NEW q \in KeySlot
    PROVE  [l EXCEPT !.i = m, !.slot = s, !.j = j, !.added = a, !.kp = q]
              \in Locals["split_parent"]
<1> DEFINE S == [parent : Pointer, N : Pointer, k : KeySlot, Nprime : Pointer, n : Pointer,
                 leaked : SUBSET NodeIds, pNode : NodeIds, ppNode : NodeIds, i : Nat,
                 slot : Nat, j : Nat, added : BOOLEAN, kp : KeySlot]
<1>1. Locals["split_parent"] = S
  BY LocalsFields
<1>2. \A f \in S : [f EXCEPT !.i = m, !.slot = s, !.j = j, !.added = a, !.kp = q] \in S
  BY ZenonT(30)
<1> QED
  BY <1>1, <1>2

\* An iteration of that loop types.
LEMMA SplitParentLoopTypes ==
    ASSUME TypeInv, SplitParentLoop
    PROVE  TypeInv'
<1> DEFINE p    == heap[local.parent]
           half == p.slotsinuse \div 2
           here == p.keySlots[local.i] > local.k /\ local.slot = local.i
           low  == local.i < half + 1
           h1   == IF here THEN PlaceNewPair(heap, local.pNode, local.k, local.N, local.Nprime,
                                             IF low THEN local.slot ELSE local.j)
                           ELSE heap
           j1   == IF here /\ ~low THEN local.j + 1 ELSE local.j
           i    == IF here /\ local.i > 0 THEN local.i - 1 ELSE local.i
           h2   == IF i < half + 1 /\ local.slot = i
                   THEN PlaceOldPair(h1, local.pNode, p, i, local.slot) ELSE h1
           h3   == IF i > half THEN PlaceOldPair(h2, local.ppNode, p, i, j1) ELSE h2
           h4   == IF i = half + 1 THEN CutFirstHalf(h3, local.pNode, p, i) ELSE h3
           kp   == IF i = half + 1 THEN KeyAt(h3[local.pNode], i - 1) ELSE local.kp
           l    == [local EXCEPT !.i = i + 1, !.slot = @ + 1,
                                 !.j = IF i > half THEN j1 + 1 ELSE j1,
                                 !.added = @ \/ here, !.kp = kp]
<1>1. pc = "split_parent" /\ local \in Locals["split_parent"] /\ call \in Calling
  BY TypesAt, LocalsFields DEF SplitParentLoop
<1>2. /\ IsInner(heap, local.parent) /\ p \in innerNode /\ p \in node
  BY <1>1, LiveTypes, Globals DEF TypeInv, Standing, node
<1>3. /\ local.k \in KeySlot /\ local.i \in Nat /\ local.slot \in Nat /\ local.j \in Nat
      /\ local.kp \in KeySlot /\ local.added \in BOOLEAN
  BY <1>1, LocalsFields
<1>4. h1 \in Edits(heap) /\ h1 \in Heap
  BY <1>3, Globals, PlaceEdits, Unedited DEF Edits
<1>5. h2 \in Edits(h1) /\ h2 \in Heap
  <2> HIDE DEF h1, i, p
  <2> QED
    BY <1>2, <1>4, PlaceEdits, Unedited DEF Edits
<1>6. h3 \in Edits(h2) /\ h3 \in Heap
  <2> HIDE DEF h2, i, p, j1
  <2> QED
    BY <1>2, <1>5, PlaceEdits, Unedited DEF Edits
<1>7. h4 \in Edits(h3) /\ h4 \in Heap
  <2> HIDE DEF h3, i, p
  <2> QED
    BY <1>6, CutEdits, Unedited DEF Edits
<1>8. h4 \in Edits(heap)
  <2> HIDE DEF h1, h2, h3, h4
  <2>1. h2 \in Edits(heap)
    BY <1>4, <1>5, Globals, EditsCompose
  <2>2. h3 \in Edits(heap)
    BY <1>6, <2>1, Globals, EditsCompose
  <2> QED
    BY <1>7, <2>2, Globals, EditsCompose
<1>9. h4 # Fault => kp \in KeySlot
  <2> HIDE DEF h3, i, half, p
  <2>1. CASE i = half + 1 /\ h4 # Fault
    <3>1. IsInner(h3, local.pNode)
      BY <1>6, <2>1, CutEdits
    <3>2. h3[local.pNode] \in node
      BY <1>6, <3>1, LiveTypes DEF node
    <3> QED
      BY <2>1, <3>2, KeyAtTypes
  <2> QED
    BY <1>3, <2>1
<1>10. i \in Nat /\ j1 \in Nat
  <2> HIDE DEF p, half
  <2> QED
    BY <1>3
<1>11. h4 # Fault => l \in Locals["split_parent"]
  <2> DEFINE a == local.added \/ here
             s == local.slot + 1
             j == IF i > half THEN j1 + 1 ELSE j1
  <2>1. i + 1 \in Nat /\ s \in Nat /\ j \in Nat /\ a \in BOOLEAN
    <3> HIDE DEF i, j1, half, here
    <3> QED
      BY <1>3, <1>10
  <2>2. l = [local EXCEPT !.i = i + 1, !.slot = s, !.j = j, !.added = a, !.kp = kp]
    OBVIOUS
  <2> DEFINE m == i + 1
  <2> HIDE DEF l, m, a, s, j, i, kp, h4
  <2>3. SUFFICES ASSUME kp \in KeySlot PROVE l \in Locals["split_parent"]
    BY <1>9
  <2>4. m \in Nat /\ l = [local EXCEPT !.i = m, !.slot = s, !.j = j, !.added = a, !.kp = kp]
    BY <2>1, <2>2 DEF m
  <2> QED
    BY <1>1, <2>1, <2>3, <2>4, SplitLocals
<1>12. h4 # Fault => Standing(h4, "split_parent", l, call)
  <2>1. l.parent = local.parent
    BY <1>1, LocalsFields
  <2> HIDE DEF h4, l
  <2>2. h4 # Fault => IsInner(h4, local.parent)
    BY <1>2, <1>8, Globals, EditsKeep
  <2> QED
    BY <1>1, <2>1, <2>2 DEF Standing, Ops
<1>13. /\ Go(h4, "split_parent", l)
       /\ UNCHANGED <<root, headleaf, totalkeycount, call, result>>
  BY DEF SplitParentLoop
<1> HIDE DEF h4, l
<1> QED
  BY <1>7, <1>11, <1>12, <1>13, Globals, LocalsFields, GoTypes

\* After that loop insert_in_parent calls itself.
LEMMA SplitParentEndTypes ==
    ASSUME TypeInv, SplitParentEnd
    PROVE  TypeInv'
<1> DEFINE p    == heap[local.parent]
           pp   == local.ppNode
           last == p.firstChild[local.i]
           h1   == IF last = NULL THEN heap ELSE insertInnerNodeChildAt(heap, pp, last, local.j)
           h0   == AddToChildren(h1, pp, -1)
           h2   == IF local.added THEN h1
                   ELSE PlaceNewPair(h0, pp, local.k, local.N, local.Nprime, local.j)
           l    == [parent |-> p.parent, N |-> local.pNode, k |-> local.kp, Nprime |-> pp,
                    n |-> local.n, leaked |-> local.leaked \cup {local.parent}]
<1>1. pc = "split_parent" /\ local \in Locals["split_parent"] /\ call \in Calling
  BY TypesAt, LocalsFields DEF SplitParentEnd
<1>2. p \in node /\ local.parent \in NodeIds
  BY <1>1, LiveTypes, Globals DEF TypeInv, Standing, node
<1>3. /\ local.k \in KeySlot /\ local.kp \in KeySlot /\ local.n \in Pointer
      /\ local.pNode \in Pointer /\ pp \in Pointer /\ local.leaked \in SUBSET NodeIds
  BY <1>1, LocalsFields DEF Pointer
<1>4. h1 \in Heap
  BY Globals, InsertChildEdits DEF Edits
<1>5. h0 \in Heap
  <2> HIDE DEF h1
  <2> QED
    BY <1>4, AddToChildrenEdits DEF Edits
<1>6. h2 \in Heap
  <2> HIDE DEF h0, h1
  <2> QED
    BY <1>3, <1>4, <1>5, PlaceEdits DEF Edits
<1>7. l \in Locals["insert_in_parent"]
  <2>1. p.parent \in Pointer
    BY <1>2, NodeTypes
  <2> HIDE DEF p, pp
  <2> QED
    BY <1>2, <1>3, <2>1, LocalsFields
<1>8. Standing(h2, "insert_in_parent", l, call)
  BY <1>1 DEF Standing, Ops
<1>9. Go(h2, "insert_in_parent", l) /\ UNCHANGED <<root, headleaf, totalkeycount, call, result>>
  BY DEF SplitParentEnd
<1> HIDE DEF h2, l
<1> QED
  BY <1>6, <1>7, <1>8, <1>9, Globals, LocalsFields, GoTypes

-----------------------------------------------------------------------------
\* erase and delete_pair.
LEMMA EraseTypes ==
    ASSUME TypeInv, NEW junk, Erase(junk) \/ EraseAbsent(junk)
    PROVE  TypeInv'
<1> DEFINE at == findKeyEqual(heap[local.at], call.key)
           g  == [heap EXCEPT ![local.at].keySlots = ShiftOut(@, heap[local.at].slotsinuse, at),
                              ![local.at].slotsinuse = Dec(@)]
           l  == local
<1>1. pc \in Ops /\ "balance" \in DOMAIN Locals
  BY LocalsFields DEF Erase, EraseAbsent, Ops
<1>2. g \in Edits(heap) /\ g \in Heap
  BY <1>1, AtOps, Globals, RemoveKeyEdits DEF Edits
<1>3. CASE EraseAbsent(junk)
  BY <1>3, Globals, ReturnTypes DEF EraseAbsent
<1>4. CASE Erase(junk) /\ heap[local.at].isrootnode
  <2>1. /\ Return(g, "ok", EmptyData) /\ totalkeycount' = totalkeycount - 1
        /\ UNCHANGED <<root, headleaf, call>>
    BY <1>4 DEF Erase
  <2> HIDE DEF g
  <2> QED
    BY <1>2, <2>1, Globals, ReturnTypes
<1>5. CASE Erase(junk) /\ ~heap[local.at].isrootnode
  <2>1. /\ Go(g, "balance", l) /\ totalkeycount' = totalkeycount - 1
        /\ UNCHANGED <<root, headleaf, call, result>>
    BY <1>5 DEF Erase
  <2> HIDE DEF g
  <2>2. g # Fault => IsLeaf(g, l.at)
    BY <1>1, <1>2, AtOps, Globals, EditsKeep
  <2>3. g # Fault => Standing(g, "balance", l, call)
    BY <1>1, <2>2, AtOps DEF Standing, Ops
  <2>4. l \in Locals["balance"]
    BY <1>1, TypesAt, LocalsFields
  <2> HIDE DEF l
  <2> QED
    BY <1>1, <1>2, <2>1, <2>3, <2>4, Globals, GoTypes
<1> QED
  BY <1>3, <1>4, <1>5

\* delete_pair removes a pair from the leaf found, or finds none.
LEMMA DeletePairTypes ==
    ASSUME TypeInv, DeletePair \/ DeletePairAbsent
    PROVE  TypeInv'
<1> DEFINE g == deleteleafpair(heap, local.at, call.key)
           l == local
<1>1. pc \in Ops /\ "balance" \in DOMAIN Locals
  BY LocalsFields DEF DeletePair, DeletePairAbsent, Ops
<1>2. CASE DeletePairAbsent
  BY <1>2, Globals, ReturnTypes DEF DeletePairAbsent
<1>3. CASE DeletePair
  <2>1. /\ Go(g, "balance", l) /\ totalkeycount' = totalkeycount - 1
        /\ UNCHANGED <<root, headleaf, call, result>>
    BY <1>3 DEF DeletePair
  <2>2. g \in Edits(heap) /\ g \in Heap
    BY Globals, DeleteLeafPairEdits DEF Edits
  <2> HIDE DEF g
  <2>3. g # Fault => IsLeaf(g, l.at)
    BY <1>1, <2>2, AtOps, Globals, EditsKeep
  <2>4. g # Fault => Standing(g, "balance", l, call)
    BY <1>1, <2>3, AtOps DEF Standing, Ops
  <2>5. l \in Locals["balance"]
    BY <1>1, TypesAt, LocalsFields
  <2> HIDE DEF l
  <2> QED
    BY <1>1, <2>1, <2>2, <2>4, <2>5, Globals, GoTypes
<1> QED
  BY <1>2, <1>3

-----------------------------------------------------------------------------
\* balancetree.
LEMMA AtBalance ==
    ASSUME TypeInv, pc \in {"balance", "merge_leaf"}
    PROVE  /\ IsLeaf(heap, local.at) /\ leaf \in leafNode /\ leaf \in node
           /\ local.at \in NodeIds /\ local.at \in Pointer
           /\ leaf.slotsinuse \in Nat /\ leaf.parent \in Pointer /\ call \in Calling
           /\ Neighbour \in Pointer
<1>1. IsLeaf(heap, local.at) /\ call \in Calling
  BY DEF TypeInv, Standing, Ops
<1>2. leaf \in leafNode /\ leaf \in node /\ local.at \in NodeIds
  BY <1>1, Globals, LiveTypes DEF leaf, node
<1> HIDE DEF leaf
<1> QED
  BY <1>1, <1>2, NodeTypes DEF Neighbour, Pointer

\* Where a location is computed, the parent is there.
LEMMA ParentTypes ==
    ASSUME NEW h \in Heap, NEW n, NEW c \in NodeIds, LocDefined(h, n, c)
    PROVE  n # NULL => /\ IsInner(h, n) /\ h[n] \in innerNode /\ h[n] \in node
                       /\ h[n].slotsinuse <= NodeSlots
<1>1. c # NULL
  BY NodeIdsAssumption
<1>2. n # NULL => Readable(h, n) /\ IsInner(h, n)
  BY <1>1 DEF LocDefined, Readable, IsInner
<1> QED
  BY <1>2, ReadableTypes

\* An underflowing leaf is merged into a neighbour with room: it is not overfull.
LEMMA MergeLeafTypes ==
    ASSUME TypeInv, MergeLeaf
    PROVE  TypeInv'
<1> DEFINE l == [at |-> local.at, to |-> Neighbour, i |-> 0,
                 loc |-> IF UsesPrev THEN parentloc ELSE -1]
<1>1. pc = "balance" /\ LocDefined(heap, leaf.parent, local.at) /\ Fits
      /\ Readable(heap, Neighbour) /\ IsLeaf(heap, Neighbour)
  BY DEF MergeLeaf, Unbalanced
<1>2. parentloc \in Int
  BY <1>1, Globals, LocTypes DEF parentloc
<1>3. l \in Locals["merge_leaf"]
  BY <1>1, <1>2, AtBalance, LocalsFields
<1>4. leaf.slotsinuse <= LeafSlots
  <2>1. heap[Neighbour].slotsinuse \in Nat /\ leaf.slotsinuse \in Nat
    BY <1>1, AtBalance, Globals, ReadableTypes
  <2> QED
    BY <1>1, <2>1, SlotsAssumption DEF Fits
<1>5. Standing(heap, "merge_leaf", l, call)
  BY <1>1, <1>4, AtBalance DEF Standing, Ops, leaf
<1>6. Go(heap, "merge_leaf", l) /\ UNCHANGED <<root, headleaf, totalkeycount, call, result>>
  BY DEF MergeLeaf
<1> HIDE DEF l
<1> QED
  BY <1>3, <1>5, <1>6, Globals, LocalsFields, GoTypes

\* An iteration of that merge reads a pair of the leaf.
LEMMA MergeLeafLoopTypes ==
    ASSUME TypeInv, NEW junk, MergeLeafLoop(junk)
    PROVE  TypeInv'
<1> DEFINE k == leaf.keySlots[local.i]
           d == leaf.dataSlots[local.i]
           g == insertleafpair(heap, local.to, k, d, junk)
           l == [local EXCEPT !.i = @ + 1]
<1>1. /\ pc = "merge_leaf" /\ local \in Locals["merge_leaf"] /\ local.i < leaf.slotsinuse
      /\ heap[local.at].slotsinuse <= LeafSlots
  BY TypesAt, LocalsFields DEF MergeLeafLoop, TypeInv, Standing
<1>2. local.i \in 0 .. LeafSlots - 1
  <2>1. local.i \in Nat /\ leaf.slotsinuse \in Nat /\ leaf.slotsinuse <= LeafSlots
    BY <1>1, AtBalance, LocalsFields DEF leaf
  <2> QED
    BY <1>1, <2>1, SlotsAssumption
<1>3. k \in KeySlot /\ d \in DataSlot
  <2>1. /\ leaf.keySlots \in [0 .. LeafSlots - 1 -> KeySlot]
        /\ leaf.dataSlots \in [0 .. LeafSlots - 1 -> DataSlot]
    BY <1>1, AtBalance, NodeTypes
  <2> QED
    BY <1>2, <2>1
<1>4. g \in Edits(heap) /\ g \in Heap
  BY <1>3, Globals, InsertLeafPairEdits DEF Edits
<1>5. g # Fault => g[local.at].slotsinuse <= LeafSlots
  BY <1>1, <1>3, Globals, AtBalance, InsertLeafPairEdits
<1>6. l \in Locals["merge_leaf"]
  <2>1. local.i + 1 \in Nat
    BY <1>2
  <2> QED
    BY <1>1, <2>1, LocalsFields
<1>7. l.at = local.at
  BY <1>1, LocalsFields
<1>8. /\ Go(g, "merge_leaf", l) /\ UNCHANGED <<root, headleaf, totalkeycount, call, result>>
  BY DEF MergeLeafLoop
<1> HIDE DEF g, l
<1>9. g # Fault => Standing(g, "merge_leaf", l, call)
  <2>1. g # Fault => IsLeaf(g, local.at)
    BY <1>1, <1>4, AtBalance, Globals, EditsKeep
  <2> QED
    BY <1>1, <1>5, <1>7, <2>1, AtBalance DEF Standing, Ops
<1> QED
  BY <1>4, <1>6, <1>8, <1>9, Globals, LocalsFields, GoTypes

\* After that merge the leaf is taken from its parent.
LEMMA MergeLeafEndTypes ==
    ASSUME TypeInv, MergeLeafEnd
    PROVE  TypeInv'
<1> DEFINE l == [N |-> leaf.parent, kP |-> MergedKey, P |-> local.at]
<1>1. pc = "merge_leaf" /\ LocDefined(heap, leaf.parent, local.at) /\ parentloc >= 0
  BY DEF MergeLeafEnd
<1>2. leaf.parent # NULL
  BY <1>1 DEF parentloc, findInnerNodeLoc
<1>3. heap[leaf.parent] \in node
  BY <1>1, <1>2, AtBalance, Globals, ParentTypes
<1>4. MergedKey \in KeySlot
  BY <1>3, KeyAtTypes DEF MergedKey, KeySlot
<1>5. l \in Locals["delete_inner"]
  BY <1>1, <1>4, AtBalance, LocalsFields
<1>6. Standing(heap, "delete_inner", l, call)
  BY <1>1, AtBalance DEF Standing, Ops
<1>7. Go(heap, "delete_inner", l) /\ UNCHANGED <<root, headleaf, totalkeycount, call, result>>
  BY DEF MergeLeafEnd
<1> HIDE DEF l
<1> QED
  BY <1>5, <1>6, <1>7, Globals, LocalsFields, GoTypes

\* The neighbour a pair is borrowed from has one.
LEMMA BorrowFields ==
    ASSUME TypeInv, Borrows
    PROVE  /\ heap[Neighbour] \in leafNode /\ heap[Neighbour].slotsinuse - 1 \in 0 .. LeafSlots - 1
           /\ heap[Neighbour].keySlots \in [0 .. LeafSlots - 1 -> KeySlot]
           /\ heap[Neighbour].dataSlots \in [0 .. LeafSlots - 1 -> DataSlot]
           /\ 0 \in 0 .. LeafSlots - 1 /\ 1 \in 0 .. LeafSlots - 1
<1>1. /\ pc = "balance" /\ IsLeaf(heap, Neighbour) /\ Readable(heap, Neighbour)
      /\ leaf.slotsinuse < heap[Neighbour].slotsinuse
  BY DEF Borrows, Unbalanced
<1>2. /\ heap[Neighbour] \in leafNode /\ heap[Neighbour] \in node
      /\ heap[Neighbour].slotsinuse \in Nat /\ heap[Neighbour].slotsinuse <= LeafSlots
      /\ leaf.slotsinuse \in Nat
  BY <1>1, AtBalance, Globals, ReadableTypes DEF node
<1> QED
  BY <1>1, <1>2, NodeTypes, SlotsAssumption

\* A leaf borrows the nearest pair of a neighbour.
LEMMA BorrowTypes ==
    ASSUME TypeInv, NEW junk, BorrowFromPrev(junk) \/ BorrowFromNext(junk)
    PROVE  TypeInv'
<1>1. Borrows /\ pc = "balance"
  BY DEF BorrowFromPrev, BorrowFromNext, Borrows, Unbalanced
<1>2. ASSUME BorrowFromPrev(junk) PROVE TypeInv'
  <2> DEFINE left == leaf.prevLeaf
             last == heap[left].slotsinuse - 1
             k    == heap[left].keySlots[last]
             h1   == insertleafpair(heap, local.at, k, heap[left].dataSlots[last], junk)
             h2   == IF h1 = Fault THEN Fault
                     ELSE replacekey(h1, leaf.parent, KeyAt(heap[leaf.parent], parentloc - 1),
                                     h1[local.at].keySlots[0])
             g    == deleteleafpair(h2, left, k)
  <2>1. left = Neighbour
    BY <1>2 DEF BorrowFromPrev, Neighbour
  <2>2. k \in KeySlot /\ heap[left].dataSlots[last] \in DataSlot
    BY <1>1, <2>1, BorrowFields
  <2>3. h1 \in Edits(heap) /\ h1 \in Heap
    BY <2>2, Globals, InsertLeafPairEdits DEF Edits
  <2>4. h1 # Fault => h1[local.at].keySlots[0] \in KeySlot
    <3>1. h1 # Fault => IsLeaf(h1, local.at)
      BY <1>1, <2>3, AtBalance, Globals, EditsKeep
    <3>2. h1 # Fault => h1[local.at].keySlots \in [0 .. LeafSlots - 1 -> KeySlot]
      BY <2>3, <3>1, LiveTypes, NodeTypes DEF node
    <3> HIDE DEF h1
    <3> QED
      BY <1>1, <3>2, BorrowFields
  <2>5. h2 \in Heap
    <3> HIDE DEF h1
    <3> QED
      BY <2>3, <2>4, FaultIsHeap, ReplaceKeyEdits DEF Edits
  <2>6. g \in Heap
    <3> HIDE DEF h2
    <3> QED
      BY <2>5, DeleteLeafPairEdits DEF Edits
  <2>7. /\ Return(g, "ok", EmptyData) /\ UNCHANGED <<root, headleaf, call>>
        /\ totalkeycount' \in {totalkeycount, totalkeycount + 1}
    BY <1>2 DEF BorrowFromPrev
  <2> HIDE DEF g
  <2> QED
    BY <2>6, <2>7, Globals, ReturnTypes
<1>3. ASSUME BorrowFromNext(junk) PROVE TypeInv'
  <2> DEFINE nxt == leaf.nextLeaf
             k   == heap[nxt].keySlots[0]
             h1  == insertleafpair(heap, local.at, k, heap[nxt].dataSlots[0], junk)
             h2  == replacekey(h1, heap[nxt].parent, k, heap[nxt].keySlots[1])
             g   == deleteleafpair(h2, nxt, k)
  <2>1. nxt = Neighbour
    BY <1>3 DEF BorrowFromNext, Neighbour
  <2>2. k \in KeySlot /\ heap[nxt].dataSlots[0] \in DataSlot /\ heap[nxt].keySlots[1] \in KeySlot
    BY <1>1, <2>1, BorrowFields
  <2>3. h1 \in Heap
    BY <2>2, Globals, InsertLeafPairEdits DEF Edits
  <2>4. h2 \in Heap
    <3> HIDE DEF h1
    <3> QED
      BY <2>2, <2>3, ReplaceKeyEdits DEF Edits
  <2>5. g \in Heap
    <3> HIDE DEF h2
    <3> QED
      BY <2>4, DeleteLeafPairEdits DEF Edits
  <2>6. /\ Return(g, "ok", EmptyData) /\ UNCHANGED <<root, headleaf, call>>
        /\ totalkeycount' \in {totalkeycount, totalkeycount + 1}
    BY <1>3 DEF BorrowFromNext
  <2> HIDE DEF g
  <2> QED
    BY <2>5, <2>6, Globals, ReturnTypes
<1> QED
  BY <1>2, <1>3

\* balancetree leaves a leaf that is full enough.
LEMMA BalanceNothingTypes ==
    ASSUME TypeInv, BalanceNothing
    PROVE  TypeInv'
  BY Globals, ReturnTypes DEF BalanceNothing

-----------------------------------------------------------------------------
\* deleteInnerNode.
LEMMA DeleteChildTypes ==
    ASSUME TypeInv, DeleteChild
    PROVE  TypeInv'
<1> DEFINE N     == local.N
           loc   == InnerLoc
           chs   == heap[N].firstChild
           cur   == chs[loc]
           left  == chs[loc - 1]
           hl    == [heap EXCEPT ![left].nextLeaf = heap[cur].nextLeaf]
           h1    == IF ~Live(heap, cur) THEN Fault
                    ELSE IF loc > 0 /\ heap[cur].isleafnode
                    THEN IF IsLeaf(heap, left) THEN hl ELSE Fault
                    ELSE heap
           h2    == freeNode(h1, cur)
           g     == IF ~IsInner(h2, N) \/ KeyLoc = -1 THEN Fault
                    ELSE [h2 EXCEPT ![N].keySlots = ShiftOut(@, heap[N].slotsinuse, KeyLoc)]
           l     == [N |-> N, loc |-> loc, i |-> loc]
<1>1. /\ pc = "delete_inner" /\ "delete_inner" \in DOMAIN Locals
      /\ LocDefined(heap, local.N, local.P) /\ local.P \in NodeIds
  BY LocalsFields DEF DeleteChild, TypeInv, Standing
<1>2. N \in Pointer /\ call \in Calling
  BY <1>1, TypesAt, LocalsFields
<1>3. loc \in Int
  BY <1>1, Globals, LocTypes DEF InnerLoc
<1>4. h1 \in Heap
  <2>1. ASSUME IsLeaf(heap, cur), IsLeaf(heap, left) PROVE hl \in Heap
    <3> DEFINE r == [heap[left] EXCEPT !.nextLeaf = heap[cur].nextLeaf]
    <3>1. heap[left] \in leafNode /\ heap[cur].nextLeaf \in Pointer
      BY <2>1, Globals, LiveTypes, NodeTypes DEF node
    <3>2. r \in leafNode
      <4> HIDE DEF left, cur
      <4> QED
        BY <3>1, LeafUpdates
    <3> HIDE DEF r
    <3>3. [heap EXCEPT ![left] = r] \in Heap
      BY <2>1, <3>2, Globals, PutLeaf DEF Edits
    <3> QED
      BY <3>3 DEF r
  <2> HIDE DEF hl, left, cur, loc
  <2> QED
    BY <2>1, Globals, FaultIsHeap DEF IsLeaf
<1>5. h2 \in Heap
  <2> HIDE DEF h1
  <2> QED
    BY <1>4, FreeInHeap
<1>6. ASSUME IsInner(h2, N)
      PROVE  [h2 EXCEPT ![N].keySlots = ShiftOut(@, heap[N].slotsinuse, KeyLoc)] \in Edits(h2)
  <2> DEFINE u == heap[N].slotsinuse
             i == KeyLoc
             a == h2[N].keySlots
             m == NodeSlots - 1
             b == ShiftOut(a, u, i)
             r == [h2[N] EXCEPT !.keySlots = b]
  <2>1. N # NULL
    BY <1>6, NodeIdsAssumption DEF IsInner, Live
  <2>2. u \in Nat /\ u <= NodeSlots
    BY <1>1, <2>1, Globals, ParentTypes, NodeTypes
  <2>3. u \in Int /\ m \in Int /\ u <= m + 1
    BY <2>2, SlotsAssumption
  <2>4. h2[N] \in innerNode /\ a \in [0 .. m -> KeySlot]
    <3> HIDE DEF h2
    <3> QED
      BY <1>5, <1>6, LiveTypes, NodeTypes DEF node
  <2>5. b \in [InnerIndex -> KeySlot]
    <3> HIDE DEF u, a, m, i
    <3>1. b \in [0 .. m -> KeySlot]
      BY <2>3, <2>4, ShiftOutTypes
    <3> QED
      BY <3>1 DEF m, InnerIndex
  <2>6. r \in innerNode
    <3> HIDE DEF b, h2
    <3> QED
      BY <2>4, <2>5, InnerUpdates
  <2> HIDE DEF r, h2
  <2>7. [h2 EXCEPT ![N] = r] \in Edits(h2)
    BY <1>5, <1>6, <2>6, PutInner
  <2> QED
    BY <2>7 DEF r
<1>7. g \in Edits(h2) /\ g \in Heap
  <2> HIDE DEF h2
  <2> QED
    BY <1>5, <1>6, Unedited DEF Edits
<1>8. g # Fault => IsInner(g, N)
  <2>1. g # Fault => IsInner(h2, N)
    OBVIOUS
  <2> HIDE DEF g, h2
  <2> QED
    BY <1>5, <1>7, <2>1, EditsKeep
<1>9. /\ IF loc >= heap[N].numChildren
         THEN Go(IF IsInner(heap, N) THEN heap ELSE Fault, "rebalance", [at |-> N])
         ELSE Go(g, "shift_children", l)
      /\ UNCHANGED <<root, headleaf, totalkeycount, call, result>>
  BY DEF DeleteChild
<1>10. l \in Locals["shift_children"]
  <2> HIDE DEF loc
  <2> QED
    BY <1>2, <1>3, LocalsFields
<1>11. g # Fault => Standing(g, "shift_children", l, call)
  <2>1. l.N = N
    OBVIOUS
  <2> HIDE DEF g, l
  <2> QED
    BY <1>2, <1>8, <2>1 DEF Standing, Ops
<1>12. CASE loc >= heap[N].numChildren
  <2> DEFINE f == IF IsInner(heap, N) THEN heap ELSE Fault
             r == [at |-> N]
  <2>1. Go(f, "rebalance", r)
    BY <1>9, <1>12
  <2>2. f \in Heap
    BY Globals, FaultIsHeap
  <2>3. r \in Locals["rebalance"]
    BY <1>2, LocalsFields
  <2>4. f # Fault => Standing(f, "rebalance", r, call)
    BY <1>2 DEF Standing, Ops
  <2> HIDE DEF f, r, loc, g, l
  <2> QED
    BY <1>9, <2>1, <2>2, <2>3, <2>4, Globals, LocalsFields, GoTypes
<1>13. CASE ~(loc >= heap[N].numChildren)
  <2> HIDE DEF g, l
  <2>1. Go(g, "shift_children", l)
    BY <1>9, <1>13
  <2> HIDE DEF loc
  <2> QED
    BY <1>7, <1>9, <1>10, <1>11, <2>1, Globals, LocalsFields, GoTypes
<1> QED
  BY <1>12, <1>13

\* A child moves down one slot.
LEMMA MoveChildEdits ==
    ASSUME NEW h \in Heap, NEW N, NEW i, NEW alone
    PROVE  MoveChild(h, N, i, alone) \in Edits(h)
<1> DEFINE c  == h[N].firstChild[i + 1]
           r  == [h[N] EXCEPT !.firstChild[i] = c]
           h1 == [h EXCEPT ![N] = r]
           e  == [h1[c] EXCEPT !.prevLeaf = NULL]
           h2 == [h1 EXCEPT ![c] = e]
           h3 == LinkLeaves(h1, h[N].firstChild[i - 1], c)
<1>1. CASE ~IsInner(h, N) \/ ~Live(h, c)
  BY <1>1, Unedited DEF MoveChild
<1>2. CASE IsInner(h, N) /\ Live(h, c)
  <2>1. c \in Pointer /\ h[N] \in innerNode /\ N \in NodeIds
    BY <1>2, LiveTypes DEF Live, Pointer
  <2>2. r \in innerNode
    <3> DEFINE f == [h[N].firstChild EXCEPT ![i] = c]
    <3>1. f \in [ChildIndex -> Pointer]
      <4> HIDE DEF c
      <4> QED
        BY <2>1, NodeTypes DEF node, ChildIndex
    <3>2. r = [h[N] EXCEPT !.firstChild = f]
      OBVIOUS
    <3> HIDE DEF f, r
    <3> QED
      BY <2>1, <3>1, <3>2, InnerUpdates
  <2>3. h1 \in Edits(h) /\ h1 \in Heap
    <3> HIDE DEF r
    <3> QED
      BY <1>2, <2>2, PutInner DEF Edits
  <2>4. h3 \in Edits(h)
    <3> HIDE DEF h1
    <3>1. h3 \in Edits(h1)
      BY <2>3, LinkLeavesEdits
    <3> QED
      BY <2>3, <3>1, EditsCompose
  <2>5. h[c].isleafnode => h2 \in Edits(h)
    <3>1. SUFFICES ASSUME h[c].isleafnode PROVE h2 \in Edits(h)
      OBVIOUS
    <3>2. h1 # Fault
      <4>1. h1[N] = r /\ r # Free
        BY <2>1, <2>2, FreeAssumption DEF Heap, node
      <4> QED
        BY <2>1, <4>1 DEF Fault
    <3>3. IsLeaf(h1, c)
      <4> HIDE DEF h1, c
      <4> QED
        BY <1>2, <2>3, <3>1, <3>2, EditsKeep DEF IsLeaf
    <3>4. e \in leafNode
      <4> HIDE DEF h1, c
      <4> QED
        BY <2>3, <3>3, LiveTypes, LeafUpdates DEF Pointer
    <3>5. h2 \in Edits(h1)
      <4> HIDE DEF h1, c, e
      <4> QED
        BY <2>3, <3>3, <3>4, PutLeaf
    <3> HIDE DEF h2, h1
    <3> QED
      BY <2>3, <3>5, EditsCompose
  <2>6. \/ MoveChild(h, N, i, alone) \in {h1, h3}
        \/ h[c].isleafnode /\ MoveChild(h, N, i, alone) = h2
    BY <1>2 DEF MoveChild
  <2> HIDE DEF h1, h2, h3
  <2> QED
    BY <2>3, <2>4, <2>5, <2>6
<1> QED
  BY <1>1, <1>2

\* While the children are shifted, the node they belong to is there.
LEMMA AtShiftChildren ==
    ASSUME TypeInv, pc = "shift_children"
    PROVE  /\ IsInner(heap, local.N) /\ heap[local.N] \in innerNode /\ local.N \in NodeIds
           /\ local.loc \in Int /\ local.i \in Int /\ local \in Locals["shift_children"]
           /\ call \in Calling
<1>1. IsInner(heap, local.N) /\ local \in Locals["shift_children"] /\ call \in Calling
  BY TypesAt, LocalsFields DEF TypeInv, Standing
<1> QED
  BY <1>1, Globals, LiveTypes, LocalsFields

\* An iteration of the loop that shifts the children.
LEMMA ShiftChildTypes ==
    ASSUME TypeInv, ShiftChild
    PROVE  TypeInv'
<1> DEFINE g == MoveChild(heap, local.N, local.i, TRUE)
           l == [local EXCEPT !.i = @ + 1]
<1>1. pc = "shift_children"
  BY DEF ShiftChild
<1>2. g \in Edits(heap) /\ g \in Heap
  BY Globals, MoveChildEdits DEF Edits
<1>3. l \in Locals["shift_children"] /\ l.N = local.N
  <2>1. local.i + 1 \in Int
    BY <1>1, AtShiftChildren
  <2> QED
    BY <1>1, <2>1, AtShiftChildren, LocalsFields
<1>4. Go(g, "shift_children", l) /\ UNCHANGED <<root, headleaf, totalkeycount, call, result>>
  BY DEF ShiftChild
<1> HIDE DEF g, l
<1>5. g # Fault => Standing(g, "shift_children", l, call)
  <2>1. g # Fault => IsInner(g, local.N)
    BY <1>1, <1>2, AtShiftChildren, Globals, EditsKeep
  <2> QED
    BY <1>1, <1>3, <2>1, AtShiftChildren DEF Standing, Ops
<1> QED
  BY <1>2, <1>3, <1>4, <1>5, Globals, LocalsFields, GoTypes

\* After that loop the node has a key and a child less.
LEMMA ShiftLastChildTypes ==
    ASSUME TypeInv, ShiftLastChild
    PROVE  TypeInv'
<1> DEFINE N     == local.N
           moves == /\ heap[N].numChildren > heap[N].slotsinuse
                    /\ local.loc + 1 < heap[N].numChildren
           h1    == IF moves THEN MoveChild(heap, N, local.i, FALSE) ELSE heap
           h2    == IF moves /\ h1 # Fault
                    THEN [h1 EXCEPT ![N].firstChild[local.i + 1] = NULL] ELSE h1
           h3    == IF h2 = Fault THEN Fault ELSE [h2 EXCEPT ![N].slotsinuse = Dec(@)]
           g     == AddToChildren(h3, N, -1)
           l     == [at |-> N]
<1>1. pc = "shift_children" /\ "rebalance" \in DOMAIN Locals
  BY LocalsFields DEF ShiftLastChild
<1>2. h1 \in Edits(heap) /\ h1 \in Heap
  BY Globals, MoveChildEdits, Unedited DEF Edits
<1>3. h2 \in Edits(h1) /\ h2 \in Heap
  <2> HIDE DEF h1, moves
  <2>1. CASE moves /\ h1 # Fault
    <3> DEFINE f == [h1[N].firstChild EXCEPT ![local.i + 1] = NULL]
               r == [h1[N] EXCEPT !.firstChild = f]
    <3>1. IsInner(h1, N)
      BY <1>1, <1>2, <2>1, AtShiftChildren, Globals, EditsKeep
    <3>2. h1[N] \in innerNode /\ h1[N].firstChild \in [ChildIndex -> Pointer]
      BY <1>2, <3>1, LiveTypes, NodeTypes DEF node, ChildIndex
    <3>3. f \in [ChildIndex -> Pointer]
      BY <3>2 DEF Pointer
    <3>4. r \in innerNode
      <4> HIDE DEF f
      <4> QED
        BY <3>2, <3>3, InnerUpdates
    <3>5. h2 = [h1 EXCEPT ![N] = r]
      BY <2>1
    <3> HIDE DEF r, h2
    <3> QED
      BY <1>2, <3>1, <3>4, <3>5, PutInner DEF Edits
  <2> QED
    BY <1>2, <2>1, Unedited DEF Edits
<1>4. h3 \in Edits(h2) /\ h3 \in Heap
  <2>1. CASE h2 = Fault
    <3> HIDE DEF h2
    <3> QED
      BY <1>3, <2>1, Unedited DEF Edits
  <2>2. CASE h2 # Fault
    <3> DEFINE r == [h2[N] EXCEPT !.slotsinuse = Dec(@)]
    <3>1. h3 = [h2 EXCEPT ![N] = r]
      BY <2>2
    <3> HIDE DEF h3, h2, h1
    <3>2. h2 \in Edits(heap)
      BY <1>2, <1>3, Globals, EditsCompose
    <3>3. IsInner(h2, N)
      BY <1>1, <2>2, <3>2, AtShiftChildren, Globals, EditsKeep
    <3>4. h2[N] \in innerNode /\ Dec(h2[N].slotsinuse) \in UShort
      BY <1>3, <3>3, LiveTypes, NodeTypes, CountTypes DEF node
    <3>5. r \in innerNode
      BY <3>4, InnerUpdates
    <3> HIDE DEF r
    <3> QED
      BY <1>3, <3>1, <3>3, <3>5, PutInner DEF Edits
  <2> QED
    BY <2>1, <2>2
<1>5. g \in Edits(heap) /\ g \in Heap
  <2> HIDE DEF h1, h2, h3
  <2>1. g \in Edits(h3) /\ g \in Heap
    BY <1>4, AddToChildrenEdits DEF Edits
  <2> HIDE DEF g
  <2>2. h2 \in Edits(heap)
    BY <1>2, <1>3, Globals, EditsCompose
  <2>3. h3 \in Edits(heap)
    BY <1>4, <2>2, Globals, EditsCompose
  <2> QED
    BY <2>1, <2>3, Globals, EditsCompose
<1>6. Go(g, "rebalance", l) /\ UNCHANGED <<root, headleaf, totalkeycount, call, result>>
  BY DEF ShiftLastChild
<1>7. l \in Locals["rebalance"] /\ l.at = N
  BY <1>1, AtShiftChildren, LocalsFields DEF Pointer
<1> HIDE DEF g, l, N
<1>8. g # Fault => Standing(g, "rebalance", l, call)
  <2>1. g # Fault => IsInner(g, N)
    BY <1>1, <1>5, AtShiftChildren, Globals, EditsKeep DEF N
  <2> QED
    BY <1>1, <1>7, <2>1, AtShiftChildren DEF Standing, Ops
<1> QED
  BY <1>1, <1>5, <1>6, <1>7, <1>8, Globals, GoTypes

-----------------------------------------------------------------------------
\* The end of deleteInnerNode, on the node that lost a child.
LEMMA AtRebalance ==
    ASSUME TypeInv, pc \in {"rebalance", "merge_next", "merge_prev"}
    PROVE  /\ IsInner(heap, local.at) /\ child \in innerNode /\ child \in node
           /\ local.at \in NodeIds /\ local.at \in Pointer /\ child.parent \in Pointer
           /\ child.slotsinuse \in Nat /\ child.firstChild \in [0 .. NodeSlots -> Pointer]
           /\ call \in Calling /\ local \in Locals[pc]
<1>1. IsInner(heap, local.at) /\ call \in Calling /\ local \in Locals[pc]
  BY TypesAt, LocalsFields DEF TypeInv, Standing
<1>2. child \in innerNode /\ child \in node /\ local.at \in NodeIds
  BY <1>1, Globals, LiveTypes DEF child, node
<1> HIDE DEF child
<1> QED
  BY <1>1, <1>2, NodeTypes DEF Pointer

\* The key between an inner node and its neighbour is a key of their parent.
LEMMA SeparatorTypes ==
    ASSUME TypeInv, Underflowing
    PROVE  Separator \in KeySlot
<1>1. /\ pc = "rebalance" /\ child.parent # NULL
      /\ LocDefined(heap, child.parent, local.at)
  BY DEF Underflowing
<1>2. parent \in node
  BY <1>1, AtRebalance, Globals, ParentTypes DEF parent
<1> QED
  BY <1>2, KeyAtTypes DEF Separator

\* The root gives way to its single child.
LEMMA CollapseRootTypes ==
    ASSUME TypeInv, CollapseRoot
    PROVE  TypeInv'
<1> DEFINE c  == heap[local.at].firstChild[0]
           r  == [heap[c] EXCEPT !.parent = NULL, !.isrootnode = TRUE]
           h1 == [heap EXCEPT ![c].parent = NULL, ![c].isrootnode = TRUE]
           g  == IF ~Live(heap, c) THEN Fault ELSE freeNode(h1, local.at)
<1>1. c \in Pointer
  <2>1. heap[local.at].firstChild \in [0 .. NodeSlots -> Pointer] /\ 0 \in 0 .. NodeSlots
    <3>1. child.firstChild \in [0 .. NodeSlots -> Pointer]
      BY AtRebalance DEF CollapseRoot
    <3> QED
      BY <3>1, SlotsAssumption DEF child
  <2> QED
    BY <2>1
<1>2. Live(heap, c) => h1 \in Heap
  <2>1. SUFFICES ASSUME Live(heap, c) PROVE h1 \in Heap
    OBVIOUS
  <2>2. c \in NodeIds
    BY <2>1 DEF Live
  <2>3. h1 = [heap EXCEPT ![c] = r]
    BY <2>2, Globals DEF Heap
  <2>4. r \in node
    <3>1. CASE IsLeaf(heap, c)
      <4> HIDE DEF c
      <4>1. heap[c] \in leafNode
        BY <3>1, Globals, LiveTypes
      <4>2. r \in leafNode
        BY <4>1 DEF leafNode, Pointer
      <4> QED
        BY <4>2 DEF node
    <3>2. CASE IsInner(heap, c)
      <4> HIDE DEF c
      <4>1. heap[c] \in innerNode
        BY <3>2, Globals, LiveTypes
      <4>2. r \in innerNode
        BY <4>1 DEF innerNode, Pointer
      <4> QED
        BY <4>2 DEF node
    <3> QED
      BY <2>1, <3>1, <3>2, Globals, LiveTypes
  <2> HIDE DEF r, h1
  <2> QED
    BY <2>2, <2>3, <2>4, Globals DEF Heap
<1>3. g \in Heap
  <2> HIDE DEF h1
  <2> QED
    BY <1>2, FaultIsHeap, FreeInHeap
<1>4. /\ Return(g, "ok", EmptyData) /\ root' = c
      /\ UNCHANGED <<headleaf, totalkeycount, call>>
  BY DEF CollapseRoot
<1> HIDE DEF g
<1> QED
  BY <1>1, <1>3, <1>4, Globals, ReturnTypes

\* An inner node that is full enough, or has no sibling, is left alone.
LEMMA RebalanceNothingTypes ==
    ASSUME TypeInv, RebalanceNothing
    PROVE  TypeInv'
  BY Globals, ReturnTypes DEF RebalanceNothing

\* One key and one child more at a neighbour.
LEMMA TakeEdits ==
    ASSUME NEW h \in Heap, NEW n, NEW k \in KeySlot, NEW i, NEW c, NEW j
    PROVE  insertInnerNodeChildAt(insertInnerNodeKeyAt(h, n, k, i), n, c, j) \in Edits(h)
<1> DEFINE h1 == insertInnerNodeKeyAt(h, n, k, i)
<1>1. h1 \in Edits(h) /\ h1 \in Heap
  BY InsertKeyEdits DEF Edits
<1>2. insertInnerNodeChildAt(h1, n, c, j) \in Edits(h1)
  <2> HIDE DEF h1
  <2> QED
    BY <1>1, InsertChildEdits
<1> HIDE DEF h1
<1>3. insertInnerNodeChildAt(h1, n, c, j) \in Edits(h)
  BY <1>1, <1>2, EditsCompose
<1> QED
  BY <1>3 DEF h1

\* An underflowing inner node starts to merge into a neighbour.
LEMMA MergeIntoTypes ==
    ASSUME TypeInv, MergeIntoNext \/ MergeIntoPrev
    PROVE  TypeInv'
<1>1. pc = "rebalance" /\ Underflowing
  BY DEF MergeIntoNext, MergeIntoPrev, Underflowing
<1>2. Separator \in KeySlot
  BY <1>1, SeparatorTypes
<1>3. CASE MergeIntoNext
  <2> DEFINE h1 == insertInnerNodeKeyAt(heap, next, Separator, 0)
             g  == insertInnerNodeChildAt(h1, next, getChild(child, child.numChildren - 1), 0)
             l  == [at |-> local.at, to |-> next, i |-> child.slotsinuse - 1, kp |-> Separator]
  <2>1. g \in Edits(heap) /\ g \in Heap
    BY <1>2, Globals, TakeEdits DEF Edits
  <2>2. l \in Locals["merge_next"]
    <3>1. next \in Pointer /\ local.at \in Pointer /\ child.slotsinuse - 1 \in Int
      BY <1>1, <1>3, AtRebalance DEF MergeIntoNext, IsInner, Live, Pointer
    <3> QED
      BY <1>2, <3>1, LocalsFields
  <2>3. Go(g, "merge_next", l) /\ UNCHANGED <<root, headleaf, totalkeycount, call, result>>
    BY <1>3 DEF MergeIntoNext
  <2>4. l.at = local.at
    OBVIOUS
  <2> HIDE DEF g, l
  <2>5. g # Fault => Standing(g, "merge_next", l, call)
    <3>1. g # Fault => IsInner(g, local.at)
      BY <1>1, <2>1, AtRebalance, Globals, EditsKeep
    <3> QED
      BY <1>1, <2>4, <3>1, AtRebalance DEF Standing, Ops
  <2> QED
    BY <2>1, <2>2, <2>3, <2>5, Globals, LocalsFields, GoTypes
<1>4. CASE MergeIntoPrev
  <2> DEFINE h1 == insertInnerNodeKeyAt(heap, prev, Separator, heap[prev].slotsinuse)
             g  == insertInnerNodeChildAt(h1, prev, child.firstChild[0], heap[prev].numChildren)
             l  == [at |-> local.at, to |-> prev, i |-> 0, kp |-> Separator]
  <2>1. g \in Edits(heap) /\ g \in Heap
    BY <1>2, Globals, TakeEdits DEF Edits
  <2>2. l \in Locals["merge_prev"]
    <3>1. prev \in Pointer /\ local.at \in Pointer
      BY <1>1, <1>4, AtRebalance DEF MergeIntoPrev, IsInner, Live, Pointer
    <3> QED
      BY <1>2, <3>1, LocalsFields
  <2>3. Go(g, "merge_prev", l) /\ UNCHANGED <<root, headleaf, totalkeycount, call, result>>
    BY <1>4 DEF MergeIntoPrev
  <2>4. l.at = local.at
    OBVIOUS
  <2> HIDE DEF g, l
  <2>5. g # Fault => Standing(g, "merge_prev", l, call)
    <3>1. g # Fault => IsInner(g, local.at)
      BY <1>1, <2>1, AtRebalance, Globals, EditsKeep
    <3> QED
      BY <1>1, <2>4, <3>1, AtRebalance DEF Standing, Ops
  <2> QED
    BY <2>1, <2>2, <2>3, <2>5, Globals, LocalsFields, GoTypes
<1> QED
  BY <1>3, <1>4

\* An iteration of the merge into the next node.
LEMMA MergeIntoNextLoopTypes ==
    ASSUME TypeInv, MergeIntoNextLoop
    PROVE  TypeInv'
<1> DEFINE k  == KeyAt(child, local.i)
           h1 == insertInnerNodeKeyAt(heap, local.to, k, 0)
           g  == insertInnerNodeChildAt(h1, local.to, child.firstChild[local.i], 0)
           l  == [local EXCEPT !.i = @ - 1]
<1>1. pc = "merge_next" /\ local \in Locals["merge_next"]
  BY AtRebalance DEF MergeIntoNextLoop
<1>2. k \in KeySlot
  BY <1>1, AtRebalance, KeyAtTypes
<1>3. g \in Edits(heap) /\ g \in Heap
  BY <1>2, Globals, TakeEdits DEF Edits
<1>4. l \in Locals["merge_next"] /\ l.at = local.at
  <2>1. local.i - 1 \in Int
    BY <1>1, LocalsFields
  <2> QED
    BY <1>1, <2>1, LocalsFields
<1>5. Go(g, "merge_next", l) /\ UNCHANGED <<root, headleaf, totalkeycount, call, result>>
  BY DEF MergeIntoNextLoop
<1> HIDE DEF g, l
<1>6. g # Fault => Standing(g, "merge_next", l, call)
  <2>1. g # Fault => IsInner(g, local.at)
    BY <1>1, <1>3, AtRebalance, Globals, EditsKeep
  <2> QED
    BY <1>1, <1>4, <2>1, AtRebalance DEF Standing, Ops
<1> QED
  BY <1>3, <1>4, <1>5, <1>6, Globals, LocalsFields, GoTypes

\* An iteration of the merge into the previous node.
LEMMA MergeIntoPrevLoopTypes ==
    ASSUME TypeInv, MergeIntoPrevLoop
    PROVE  TypeInv'
<1> DEFINE k  == KeyAt(child, local.i)
           h1 == insertInnerNodeKeyAt(heap, local.to, k, heap[local.to].slotsinuse)
           g  == insertInnerNodeChildAt(h1, local.to, child.firstChild[local.i + 1],
                                        heap[local.to].numChildren)
           l  == [local EXCEPT !.i = @ + 1]
<1>1. pc = "merge_prev" /\ local \in Locals["merge_prev"]
  BY AtRebalance DEF MergeIntoPrevLoop
<1>2. k \in KeySlot
  BY <1>1, AtRebalance, KeyAtTypes
<1>3. g \in Edits(heap) /\ g \in Heap
  BY <1>2, Globals, TakeEdits DEF Edits
<1>4. l \in Locals["merge_prev"] /\ l.at = local.at
  <2>1. local.i + 1 \in Nat
    BY <1>1, LocalsFields
  <2> QED
    BY <1>1, <2>1, LocalsFields
<1>5. Go(g, "merge_prev", l) /\ UNCHANGED <<root, headleaf, totalkeycount, call, result>>
  BY DEF MergeIntoPrevLoop
<1> HIDE DEF g, l
<1>6. g # Fault => Standing(g, "merge_prev", l, call)
  <2>1. g # Fault => IsInner(g, local.at)
    BY <1>1, <1>3, AtRebalance, Globals, EditsKeep
  <2> QED
    BY <1>1, <1>4, <2>1, AtRebalance DEF Standing, Ops
<1> QED
  BY <1>3, <1>4, <1>5, <1>6, Globals, LocalsFields, GoTypes

\* After a merge deleteInnerNode calls itself on the parent.
LEMMA MergeInnerEndTypes ==
    ASSUME TypeInv, MergeInnerEnd
    PROVE  TypeInv'
<1> DEFINE l == [N |-> child.parent, kP |-> local.kp, P |-> local.at]
<1>1. pc \in {"merge_next", "merge_prev"}
  BY DEF MergeInnerEnd
<1>2. local.kp \in KeySlot
  <2>1. local \in Locals[pc]
    BY <1>1, AtRebalance
  <2>2. CASE pc = "merge_next"
    BY <2>1, <2>2, LocalsFields
  <2>3. CASE pc = "merge_prev"
    BY <2>1, <2>3, LocalsFields
  <2> QED
    BY <1>1, <2>2, <2>3
<1>3. l \in Locals["delete_inner"] /\ l.P \in NodeIds
  BY <1>1, <1>2, AtRebalance, LocalsFields
<1>4. Go(heap, "delete_inner", l) /\ UNCHANGED <<root, headleaf, totalkeycount, call, result>>
  BY DEF MergeInnerEnd
<1> HIDE DEF l
<1>5. Standing(heap, "delete_inner", l, call)
  BY <1>1, <1>3, AtRebalance DEF Standing, Ops
<1> QED
  BY <1>3, <1>4, <1>5, Globals, LocalsFields, GoTypes

\* An inner node takes the first child of its next neighbour.
LEMMA RedistributeTypes ==
    ASSUME TypeInv, RedistributeFromNext
    PROVE  TypeInv'
<1> DEFINE h1 == insertInnerNodeKeyAt(heap, local.at, Separator, child.slotsinuse)
           h2 == insertInnerNodeChildAt(h1, local.at, heap[next].firstChild[0],
                                        child.numChildren)
           h3 == replacekey(h2, heap[next].parent, Separator, heap[next].keySlots[0])
           n  == heap[next].slotsinuse
           m  == IF heap[next].numChildren > n THEN n + 1 ELSE n
           r  == [h3[next] EXCEPT !.keySlots   = ShiftOut(@, n, 0),
                                  !.firstChild = ShiftOut(@, m, 0),
                                  !.slotsinuse = Dec(@)]
           h4 == [h3 EXCEPT ![next].keySlots   = ShiftOut(@, n, 0),
                            ![next].firstChild = ShiftOut(@, m, 0),
                            ![next].slotsinuse = Dec(@)]
           g  == IF h3 = Fault \/ n > NodeSlots THEN Fault ELSE AddToChildren(h4, next, -1)
<1>1. Separator \in KeySlot /\ IsInner(heap, next)
  BY SeparatorTypes DEF RedistributeFromNext
<1>2. heap[next] \in innerNode /\ n \in Nat /\ heap[next].keySlots[0] \in KeySlot
  <2>1. heap[next] \in innerNode /\ heap[next] \in node
    BY <1>1, Globals, LiveTypes DEF node
  <2>2. heap[next].keySlots \in [0 .. NodeSlots - 1 -> KeySlot] /\ 0 \in 0 .. NodeSlots - 1
    BY <2>1, NodeTypes, SlotsAssumption
  <2> HIDE DEF next
  <2> QED
    BY <2>1, <2>2, NodeTypes
<1>3. h3 \in Edits(heap) /\ h3 \in Heap
  <2>1. h2 \in Edits(heap) /\ h2 \in Heap
    BY <1>1, Globals, TakeEdits DEF Edits
  <2> HIDE DEF h2
  <2>2. h3 \in Edits(h2) /\ h3 \in Heap
    BY <1>2, <2>1, ReplaceKeyEdits DEF Edits
  <2> HIDE DEF h3
  <2> QED
    BY <2>1, <2>2, Globals, EditsCompose
<1>4. ASSUME h3 # Fault, n <= NodeSlots PROVE h4 \in Heap
  <2> HIDE DEF h3
  <2>1. IsInner(h3, next)
    BY <1>1, <1>3, <1>4, Globals, EditsKeep
  <2>2. h3[next] \in innerNode /\ h3[next] \in node
    BY <1>3, <2>1, LiveTypes DEF node
  <2>3. ShiftOut(h3[next].keySlots, n, 0) \in [InnerIndex -> KeySlot]
    <3> DEFINE a == h3[next].keySlots
               z == NodeSlots - 1
    <3>1. a \in [0 .. z -> KeySlot] /\ z \in Int /\ n \in Int /\ n <= z + 1
      BY <1>2, <1>4, <2>2, NodeTypes, SlotsAssumption
    <3> HIDE DEF a, z, n
    <3>2. ShiftOut(a, n, 0) \in [0 .. z -> KeySlot]
      BY <3>1, ShiftOutTypes
    <3> QED
      BY <3>2 DEF a, z, InnerIndex
  <2>4. ShiftOut(h3[next].firstChild, m, 0) \in [ChildIndex -> Pointer]
    <3> DEFINE a == h3[next].firstChild
    <3>1. a \in [0 .. NodeSlots -> Pointer]
      BY <2>2, NodeTypes
    <3>2. NodeSlots \in Int /\ m \in Int /\ m <= NodeSlots + 1
      BY <1>2, <1>4, SlotsAssumption
    <3> HIDE DEF a, m
    <3>3. ShiftOut(a, m, 0) \in [0 .. NodeSlots -> Pointer]
      BY <3>1, <3>2, ShiftOutTypes
    <3> QED
      BY <3>3 DEF a, ChildIndex
  <2>5. Dec(h3[next].slotsinuse) \in UShort
    BY <2>2, NodeTypes, CountTypes
  <2>6. r \in innerNode
    <3> DEFINE a == ShiftOut(h3[next].keySlots, n, 0)
               b == ShiftOut(h3[next].firstChild, m, 0)
               d == Dec(h3[next].slotsinuse)
    <3>1. r = [h3[next] EXCEPT !.keySlots = a, !.firstChild = b, !.slotsinuse = d]
      OBVIOUS
    <3> HIDE DEF r, a, b, d
    <3> QED
      BY <2>2, <2>3, <2>4, <2>5, <3>1, InnerUpdates DEF a, b, d
  <2>7. h4 = [h3 EXCEPT ![next] = r]
    <3> HIDE DEF n, m
    <3>1. next \in NodeIds
      BY <2>1 DEF IsInner, Live
    <3> QED
      BY <1>3, <3>1 DEF Heap
  <2> HIDE DEF r, h4
  <2> QED
    BY <1>3, <2>1, <2>6, <2>7, PutInner DEF Edits
<1>5. g \in Heap
  <2>1. CASE h3 = Fault \/ n > NodeSlots
    BY <2>1, FaultIsHeap
  <2>2. CASE h3 # Fault /\ n <= NodeSlots
    <3>1. h4 \in Heap
      BY <1>4, <2>2, Zenon
    <3> HIDE DEF h4
    <3>2. AddToChildren(h4, next, -1) \in Heap
      BY <3>1, AddToChildrenEdits DEF Edits
    <3> HIDE DEF h3, n
    <3> QED
      BY <3>2, FaultIsHeap
  <2>3. n <= NodeSlots \/ n > NodeSlots
    <3> HIDE DEF n
    <3> QED
      BY <1>2, SlotsAssumption
  <2> HIDE DEF h3, h4, n, g
  <2> QED
    BY <2>1, <2>2, <2>3
<1>6. Return(g, "ok", EmptyData) /\ UNCHANGED <<root, headleaf, totalkeycount, call>>
  BY DEF RedistributeFromNext
<1> HIDE DEF g
<1> QED
  BY <1>5, <1>6, Globals, ReturnTypes

-----------------------------------------------------------------------------
\* Undefined behaviour keeps nothing but the last heap.
LEMMA UndefinedTypes ==
    ASSUME TypeInv, Undefined \/ Stopped
    PROVE  TypeInv'
<1>1. pc' = "undefined"
      /\ UNCHANGED <<heap, root, headleaf, totalkeycount, call, local, result>>
  BY DEF Undefined, Stopped, vars
<1> QED
  BY <1>1 DEF TypeInv, TypeOK, Standing, Ops

\* Every step types.
LEMMA NextTypes ==
    ASSUME TypeInv, Next
    PROVE  TypeInv'
<1>1. CASE Calls
  BY <1>1, CallsTypes
<1>2. CASE Stopped
  BY <1>2, UndefinedTypes
<1>3. CASE Steps
  <2>1. CASE FindChild \/ FindNextLeaf \/ FindLeaf \/ Get
    BY <2>1, FindChildTypes, FindTypes, GetTypes
  <2>2. CASE SplitFullLeaf \/ NewRoot \/ InsertInParent
    BY <2>2, SplitFullLeafTypes, NewRootTypes, InsertInParentTypes
  <2>3. CASE SplitParent \/ SplitParentLoop \/ SplitParentEnd
    BY <2>3, SplitParentTypes, SplitParentLoopTypes, SplitParentEndTypes
  <2>4. CASE DeletePair \/ DeletePairAbsent \/ BalanceNothing \/ MergeLeaf \/ MergeLeafEnd
    BY <2>4, DeletePairTypes, BalanceNothingTypes, MergeLeafTypes, MergeLeafEndTypes
  <2>5. ASSUME NEW junk \in Indeterminate,
               \/ InsertPair(junk) \/ InsertDuplicate(junk) \/ Erase(junk) \/ EraseAbsent(junk)
               \/ MergeLeafLoop(junk) \/ BorrowFromPrev(junk) \/ BorrowFromNext(junk)
        PROVE  TypeInv'
    BY <2>5, InsertPairTypes, EraseTypes, MergeLeafLoopTypes, BorrowTypes
  <2>6. CASE DeleteChild \/ ShiftChild \/ ShiftLastChild \/ CollapseRoot \/ RebalanceNothing
    BY <2>6, DeleteChildTypes, ShiftChildTypes, ShiftLastChildTypes, CollapseRootTypes,
       RebalanceNothingTypes
  <2>7. CASE \/ MergeIntoNext \/ MergeIntoNextLoop \/ MergeIntoPrev \/ MergeIntoPrevLoop
             \/ MergeInnerEnd \/ RedistributeFromNext
    BY <2>7, MergeIntoTypes, MergeIntoNextLoopTypes, MergeIntoPrevLoopTypes,
       MergeInnerEndTypes, RedistributeTypes
  <2>8. CASE Undefined
    BY <2>8, UndefinedTypes
  <2> QED
    BY <1>3, <2>1, <2>2, <2>3, <2>4, <2>5, <2>6, <2>7, <2>8 DEF Steps
<1> QED
  BY <1>1, <1>2, <1>3 DEF Next

\* Every node has the layout its flag says at every step of every call, although insert,
\* balancetree and deleteInnerNode cast nodes by their place in the tree alone; every
\* pointer leads to an address or nowhere; slots, counts and local variables have their
\* types.  (A cast to the wrong kind, or a use of freed memory, is undefined.)
THEOREM TreeTypesHold == Spec => []TypeOK
<1>1. Init => TypeInv
  BY InitTypes
<1>2. TypeInv /\ [Next]_vars => TypeInv'
  <2>1. ASSUME TypeInv, UNCHANGED vars PROVE TypeInv'
    BY <2>1 DEF vars, TypeInv, TypeOK, Standing
  <2> QED
    BY <2>1, NextTypes
<1>3. TypeInv => TypeOK
  BY DEF TypeInv
<1> QED
  BY <1>1, <1>2, <1>3, PTL DEF Spec
=============================================================================
