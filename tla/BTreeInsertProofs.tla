------------------------- MODULE BTreeInsertProofs -------------------------
(***************************************************************************)
(* A tree that is only inserted into and searched never puts more into a    *)
(* node than its arrays have room for, and never loses its root: whatever   *)
(* the order of the keys, repeated ones included, and although the splits   *)
(* damage such trees.                                                       *)
(***************************************************************************)
EXTENDS BTreeProofs

\* A node holds no more than its arrays have room for.
Room(r) ==
    IF r.isleafnode THEN r.slotsinuse <= LeafSlots
                    ELSE r.slotsinuse <= NodeSlots /\ r.numChildren <= NodeSlots + 1
Within(h) == \A m \in NodeIds : h[m] # Free => Room(h[m])

\* What a helper may do to h: nodes that were not too full are not made so, and only
\* those in S change the number of their keys.
Grows(h, g, S) ==
    /\ g \in Edits(h)
    /\ Within(h) => Within(g)
    /\ g # Fault => \A m \in NodeIds \ S : g[m].slotsinuse = h[m].slotsinuse

-----------------------------------------------------------------------------
\* Counting: a count of slots in use is far from 65535, so that it does not wrap.
LEMMA Counting ==
    ASSUME NEW u \in Nat
    PROVE  /\ u <= NodeSlots => Inc(u) = u + 1
           /\ u >= 1 /\ u <= NodeSlots => Dec(u) = u - 1
<1>1. \A m \in Nat, i \in Nat : i <= m => i % (m + 1) = i
  OBVIOUS
<1>2. \A m \in Nat, i \in Nat : i <= m => (i + (m + 1)) % (m + 1) = i
  OBVIOUS
<1>3. UShortMax \in Nat /\ NodeSlots \in Nat /\ NodeSlots + 1 <= UShortMax
  BY SlotsAssumption DEF UShortMax
<1>4. u <= NodeSlots => Inc(u) = u + 1
  BY <1>1, <1>3 DEF Inc
<1>5. ASSUME u >= 1, u <= NodeSlots PROVE Dec(u) = u - 1
  <2>1. u - 1 \in Nat /\ u - 1 <= UShortMax /\ u + UShortMax = (u - 1) + (UShortMax + 1)
    BY <1>3, <1>5
  <2> QED
    BY <1>2, <1>3, <2>1 DEF Dec
<1> QED
  BY <1>4, <1>5

\* Nothing but undefined behaviour follows it.
LEMMA FaultStays ==
    ASSUME NEW g \in Edits(Fault)
    PROVE  g = Fault
<1>1. CASE Alike(Fault, g)
  <2>1. \A m \in NodeIds : g[m] = Free
    BY <1>1 DEF Alike, Fault
  <2> QED
    BY <2>1 DEF Edits, Heap, Fault
<1> QED
  BY <1>1 DEF Edits

\* Doing nothing, and faulting, make nothing grow.
LEMMA NothingGrows ==
    ASSUME NEW h \in Heap, NEW S
    PROVE  Grows(h, h, S) /\ Grows(h, Fault, S)
  BY Unedited DEF Grows, Within, Fault

\* Helpers compose.
LEMMA GrowsCompose ==
    ASSUME NEW h \in Heap, NEW g, NEW f, NEW S, NEW T, Grows(h, g, S), Grows(g, f, T)
    PROVE  Grows(h, f, S \cup T)
<1>1. g \in Heap /\ f \in Edits(h)
  BY EditsCompose DEF Grows, Edits
<1>2. f # Fault => g # Fault
  BY FaultStays DEF Grows
<1> QED
  BY <1>1, <1>2 DEF Grows

\* What grows a smaller set of nodes grows a larger one.
LEMMA GrowsMore ==
    ASSUME NEW h, NEW g, NEW S, NEW T, Grows(h, g, S), S \subseteq T
    PROVE  Grows(h, g, T)
  BY DEF Grows

-----------------------------------------------------------------------------
\* A key that is inserted into an inner node, wherever, leaves it within its array, and
\* counts if its place is in the array.
LEMMA InsertKeyGrows ==
    ASSUME NEW h \in Heap, NEW n, NEW k \in KeySlot, NEW index
    PROVE  LET g == insertInnerNodeKeyAt(h, n, k, index)
           IN  /\ Grows(h, g, {n})
               /\ index \in InnerIndex /\ Within(h) /\ g # Fault
                     => IsInner(h, n) /\ g[n].slotsinuse = h[n].slotsinuse + 1
<1> DEFINE u == h[n].slotsinuse
           a == ShiftIn(h[n].keySlots, u, index, k)
           r == [h[n] EXCEPT !.keySlots = a, !.slotsinuse = Inc(u)]
           g == insertInnerNodeKeyAt(h, n, k, index)
<1>1. CASE IsInner(h, n) /\ index \in InnerIndex /\ ~(index < u /\ u >= NodeSlots)
  <2>1. h[n] \in innerNode /\ h[n] \in node /\ n \in NodeIds /\ u \in Nat
    BY <1>1, LiveTypes, NodeTypes DEF node
  <2>2. g = [h EXCEPT ![n] = r]
    BY <1>1, <2>1 DEF Heap, insertInnerNodeKeyAt
  <2>3. /\ r.isleafnode = h[n].isleafnode /\ r.slotsinuse = Inc(u)
        /\ r.numChildren = h[n].numChildren /\ ~h[n].isleafnode
    BY <2>1 DEF innerNode
  <2>4. g[n] = r /\ \A m \in NodeIds \ {n} : g[m] = h[m]
    <3> HIDE DEF r, g
    <3> QED
      BY <2>1, <2>2 DEF Heap
  <2>5. ASSUME Within(h) PROVE Inc(u) = u + 1 /\ u + 1 <= NodeSlots /\ Room(h[n])
    <3>1. Room(h[n])
      BY <1>1, <2>5 DEF Within, IsInner, Live
    <3>2. u <= NodeSlots
      BY <2>3, <3>1 DEF Room
    <3>3. u < NodeSlots
      <4> HIDE DEF u
      <4> QED
        BY <1>1, <2>1, <3>2, SlotsAssumption DEF InnerIndex
    <3> HIDE DEF u
    <3> QED
      BY <2>1, <3>1, <3>2, <3>3, Counting, SlotsAssumption
  <2>6. Within(h) => Room(r)
    <3> HIDE DEF r, u
    <3> QED
      BY <2>3, <2>5 DEF Room
  <2>7. g \in Edits(h)
    BY InsertKeyEdits
  <2> HIDE DEF r, g, u
  <2>8. Within(h) => Within(g)
    BY <2>4, <2>6 DEF Within
  <2>9. Within(h) => g[n].slotsinuse = u + 1
    BY <2>3, <2>4, <2>5
  <2> QED
    BY <1>1, <2>4, <2>7, <2>8, <2>9 DEF Grows, g, u
<1>2. CASE ~(IsInner(h, n) /\ index \in InnerIndex /\ ~(index < u /\ u >= NodeSlots))
  <2>1. (g = h /\ index \notin InnerIndex) \/ g = Fault
    BY <1>2 DEF insertInnerNodeKeyAt
  <2> HIDE DEF g
  <2> QED
    BY <2>1, NothingGrows DEF g
<1> QED
  BY <1>1, <1>2

\* Linking leaves changes no count.
LEMMA LinkLeavesGrows ==
    ASSUME NEW h \in Heap, NEW a, NEW b
    PROVE  Grows(h, LinkLeaves(h, a, b), {})
<1> DEFINE g == LinkLeaves(h, a, b)
<1>1. CASE IsLeaf(h, a) /\ IsLeaf(h, b)
  <2>1. h[a] \in leafNode /\ h[b] \in leafNode /\ a \in NodeIds /\ b \in NodeIds
    BY <1>1, LiveTypes
  <2>2. g = [h EXCEPT ![a].nextLeaf = b, ![b].prevLeaf = a]
    BY <1>1 DEF LinkLeaves
  <2>3. \A m \in NodeIds : /\ g[m].slotsinuse = h[m].slotsinuse
                           /\ m \in {a, b} => g[m].isleafnode = h[m].isleafnode
                           /\ m \notin {a, b} => g[m] = h[m]
    BY <2>1, <2>2 DEF Heap, leafNode
  <2>4. h[a].isleafnode /\ h[b].isleafnode /\ h[a] # Free /\ h[b] # Free
    BY <1>1 DEF IsLeaf, Live
  <2> HIDE DEF g
  <2>5. Within(h) => Within(g)
    BY <2>1, <2>3, <2>4 DEF Within, Room
  <2> QED
    BY <2>3, <2>5, LinkLeavesEdits DEF Grows, g
<1>2. CASE ~(IsLeaf(h, a) /\ IsLeaf(h, b))
  BY <1>2, NothingGrows DEF LinkLeaves
<1> QED
  BY <1>1, <1>2

\* Nor does linking a leaf with its siblings.
LEMMA LinkWithSiblingsGrows ==
    ASSUME NEW h \in Heap, NEW dest, NEW index
    PROVE  Grows(h, LinkWithSiblings(h, dest, index), {})
<1> DEFINE c  == h[dest].firstChild
           h1 == IF index - 1 >= 0 THEN LinkLeaves(h, c[index - 1], c[index]) ELSE h
           h2 == LinkLeaves(h1, c[index], c[index + 1])
<1>1. Grows(h, h1, {}) /\ h1 \in Heap
  BY LinkLeavesGrows, NothingGrows DEF Grows, Edits
<1>2. Grows(h1, h2, {})
  <2> HIDE DEF h1
  <2> QED
    BY <1>1, LinkLeavesGrows
<1>3. Grows(h, h2, {} \cup {})
  <2> HIDE DEF h1, h2
  <2> QED
    BY <1>1, <1>2, GrowsCompose
<1>4. LinkWithSiblings(h, dest, index) = IF index + 1 < h[dest].numChildren THEN h2 ELSE h1
  BY DEF LinkWithSiblings
<1> HIDE DEF h1, h2
<1> QED
  BY <1>1, <1>3, <1>4

\* A child that is inserted, wherever, leaves the node within its array, and changes no
\* count of keys.
LEMMA InsertChildGrows ==
    ASSUME NEW h \in Heap, NEW dest, NEW n, NEW index
    PROVE  Grows(h, insertInnerNodeChildAt(h, dest, n, index), {})
<1> DEFINE c  == h[dest].numChildren
           f  == ShiftIn(h[dest].firstChild, c, index, n)
           h1 == [h EXCEPT ![dest].firstChild  = ShiftIn(@, h[dest].numChildren, index, n),
                           ![dest].numChildren = @ + 1,
                           ![n].parent         = dest]
           g  == insertInnerNodeChildAt(h, dest, n, index)
<1>1. CASE IsInner(h, dest) /\ index \in ChildIndex /\ Live(h, n) /\ ~(index < c /\ c > NodeSlots)
  <2>1. /\ h[dest] \in innerNode /\ h[dest] \in node /\ dest \in NodeIds /\ n \in NodeIds
        /\ h[n] \in node /\ c \in Int /\ ~h[dest].isleafnode
    BY <1>1, LiveTypes, NodeTypes DEF node, innerNode
  <2>2. h1 \in Edits(h) /\ h1 \in Heap
    BY <1>1, AddChildEdits DEF Edits
  <2>3. \A m \in NodeIds : m \notin {dest, n} => h1[m] = h[m]
    BY DEF Heap
  <2>4. \A m \in {dest, n} : /\ h1[m].slotsinuse = h[m].slotsinuse
                             /\ h1[m].isleafnode = h[m].isleafnode
    BY <2>1 DEF Heap, node, leafNode, innerNode
  <2>5. h1[dest].numChildren = c + 1
    BY <2>1 DEF Heap, innerNode
  <2>6. n # dest /\ ~h[n].isleafnode => h1[n].numChildren = h[n].numChildren
    BY <2>1 DEF Heap, node, innerNode, leafNode
  <2>7. h[dest] # Free /\ h[n] # Free
    BY <1>1 DEF IsInner, Live
  <2>8. Within(h) => c + 1 <= NodeSlots + 1
    <3>1. Within(h) => c <= NodeSlots + 1
      BY <2>1, <2>7 DEF Within, Room
    <3> HIDE DEF c
    <3> QED
      BY <1>1, <2>1, <3>1, SlotsAssumption DEF ChildIndex
  <2>9. Grows(h, h1, {})
    <3> HIDE DEF h1, c
    <3>1. ASSUME Within(h) PROVE Room(h1[dest])
      BY <2>1, <2>4, <2>5, <2>7, <2>8, <3>1 DEF Within, Room
    <3>2. ASSUME Within(h), n # dest PROVE Room(h1[n])
      BY <2>1, <2>4, <2>6, <2>7, <3>2 DEF Within, Room
    <3>3. Within(h) => Within(h1)
      BY <2>3, <3>1, <3>2 DEF Within
    <3> QED
      BY <2>2, <2>3, <2>4, <3>3 DEF Grows
  <2>10. g = IF h[n].isleafnode THEN LinkWithSiblings(h1, dest, index) ELSE h1
    BY <1>1 DEF insertInnerNodeChildAt
  <2>11. Grows(h, LinkWithSiblings(h1, dest, index), {} \cup {})
    <3> HIDE DEF h1
    <3>1. Grows(h1, LinkWithSiblings(h1, dest, index), {})
      BY <2>2, LinkWithSiblingsGrows
    <3> QED
      BY <2>9, <3>1, GrowsCompose
  <2> HIDE DEF h1, g
  <2> QED
    BY <2>9, <2>10, <2>11 DEF g
<1>2. CASE ~(IsInner(h, dest) /\ index \in ChildIndex /\ Live(h, n) /\ ~(index < c /\ c > NodeSlots))
  <2>1. g = h \/ g = Fault
    BY <1>2 DEF insertInnerNodeChildAt
  <2> HIDE DEF g
  <2> QED
    BY <2>1, NothingGrows DEF g
<1> QED
  BY <1>1, <1>2

-----------------------------------------------------------------------------
\* What placing a key in dest, and children beside it, does: the key counts if its place
\* is in the array.
Placed(h, g, dest, at) ==
    /\ Grows(h, g, {dest})
    /\ Within(h) /\ g # Fault =>
          /\ IsInner(h, dest) /\ g[dest].slotsinuse >= h[dest].slotsinuse
          /\ at \in InnerIndex => g[dest].slotsinuse >= h[dest].slotsinuse + 1

\* A key, and then steps that change no count.
LEMMA KeyThenChildren ==
    ASSUME NEW h \in Heap, NEW dest, NEW k \in KeySlot, NEW at, NEW f,
           Grows(insertInnerNodeKeyAt(h, dest, k, at), f, {})
    PROVE  Placed(h, f, dest, at)
<1> DEFINE g == insertInnerNodeKeyAt(h, dest, k, at)
<1>1. Grows(h, g, {dest}) /\ g \in Heap
  <2>1. Grows(h, g, {dest})
    BY InsertKeyGrows
  <2> QED
    BY <2>1 DEF Grows, Edits
<1>2. Grows(h, f, {dest})
  <2>1. Grows(h, f, {dest} \cup {})
    <3> HIDE DEF g
    <3> QED
      BY <1>1, GrowsCompose DEF g
  <2> QED
    BY <2>1
<1>3. f # Fault => g # Fault
  BY FaultStays DEF Grows
<1>4. at \in InnerIndex /\ Within(h) /\ g # Fault
         => IsInner(h, dest) /\ g[dest].slotsinuse = h[dest].slotsinuse + 1
  BY InsertKeyGrows
<1>5. at \notin InnerIndex /\ g # Fault => IsInner(h, dest) /\ g = h
  BY DEF insertInnerNodeKeyAt
<1>6. f # Fault /\ dest \in NodeIds => f[dest].slotsinuse = g[dest].slotsinuse
  BY DEF Grows
<1>7. IsInner(h, dest) => dest \in NodeIds /\ h[dest].slotsinuse \in Nat
  BY LiveTypes, NodeTypes DEF node
<1> HIDE DEF g
<1> QED
  BY <1>2, <1>3, <1>4, <1>5, <1>6, <1>7 DEF Placed

\* The new pair, and an old one, are placed in one of the halves of a split node.
LEMMA PlaceGrows ==
    ASSUME NEW h \in Heap, NEW dest, NEW at
    PROVE  /\ \A k \in KeySlot : \A N, M :
                 Placed(h, PlaceNewPair(h, dest, k, N, M, at), dest, at)
           /\ \A p \in node : \A i : Placed(h, PlaceOldPair(h, dest, p, i, at), dest, at)
<1>1. ASSUME NEW k \in KeySlot, NEW N, NEW M
      PROVE  Placed(h, PlaceNewPair(h, dest, k, N, M, at), dest, at)
  <2> DEFINE h1 == insertInnerNodeKeyAt(h, dest, k, at)
             h2 == insertInnerNodeChildAt(h1, dest, N, at)
             h3 == insertInnerNodeChildAt(h2, dest, M, at + 1)
  <2>1. h1 \in Heap
    BY InsertKeyEdits DEF Edits
  <2>2. Grows(h1, h2, {}) /\ h2 \in Heap
    BY <2>1, InsertChildGrows DEF Grows, Edits
  <2>3. Grows(h2, h3, {})
    BY <2>2, InsertChildGrows
  <2>4. Grows(h1, h3, {} \cup {})
    <3> HIDE DEF h1, h2, h3
    <3> QED
      BY <2>1, <2>2, <2>3, GrowsCompose
  <2>5. PlaceNewPair(h, dest, k, N, M, at) = h3
    BY DEF PlaceNewPair
  <2> HIDE DEF h3
  <2> QED
    BY <2>4, <2>5, KeyThenChildren
<1>2. ASSUME NEW p \in node, NEW i PROVE Placed(h, PlaceOldPair(h, dest, p, i, at), dest, at)
  <2> DEFINE h1 == insertInnerNodeKeyAt(h, dest, KeyAt(p, i), at)
             h2 == insertInnerNodeChildAt(h1, dest, p.firstChild[i], at)
  <2>1. KeyAt(p, i) \in KeySlot /\ h1 \in Heap
    BY KeyAtTypes, InsertKeyEdits DEF Edits
  <2>2. Grows(h1, h2, {})
    BY <2>1, InsertChildGrows
  <2>3. PlaceOldPair(h, dest, p, i, at) = h2
    BY DEF PlaceOldPair
  <2> HIDE DEF h2
  <2> QED
    BY <2>1, <2>2, <2>3, KeyThenChildren
<1> QED
  BY <1>1, <1>2

\* insertinnernodepair too.
LEMMA InsertPairGrows ==
    ASSUME NEW h \in Heap, NEW n, NEW k \in KeySlot, NEW c
    PROVE  Grows(h, insertinnernodepair(h, n, k, c), {n})
<1> DEFINE loc == PairLocation(h[n], k)
           h1  == insertInnerNodeKeyAt(h, n, k, loc)
           h2  == insertInnerNodeChildAt(h1, n, c, loc)
<1>1. Grows(h1, h2, {})
  BY InsertKeyEdits, InsertChildGrows DEF Edits
<1>2. insertinnernodepair(h, n, k, c) = h2
  BY DEF insertinnernodepair
<1> HIDE DEF h2, loc
<1> QED
  BY <1>1, <1>2, KeyThenChildren DEF Placed

\* The last child counts as gone.
LEMMA DropChildGrows ==
    ASSUME NEW h \in Heap, NEW n
    PROVE  Grows(h, AddToChildren(h, n, -1), {})
<1> DEFINE g == AddToChildren(h, n, -1)
<1>1. g \in Edits(h)
  BY AddToChildrenEdits
<1>2. CASE IsInner(h, n)
  <2>1. h[n] \in innerNode /\ n \in NodeIds /\ h[n] # Free /\ h[n].numChildren \in Int
    BY <1>2, LiveTypes DEF IsInner, Live, innerNode
  <2>2. g = [h EXCEPT ![n].numChildren = @ + -1]
    BY <1>2 DEF AddToChildren
  <2>3. /\ \A m \in NodeIds : m # n => g[m] = h[m]
        /\ g[n].slotsinuse = h[n].slotsinuse /\ g[n].isleafnode = h[n].isleafnode
        /\ g[n].numChildren = h[n].numChildren - 1
    BY <2>1, <2>2 DEF Heap, innerNode
  <2> HIDE DEF g
  <2>4. ASSUME Within(h) PROVE Room(g[n])
    <3>1. Room(h[n]) /\ ~h[n].isleafnode
      BY <1>2, <2>1, <2>4 DEF Within, IsInner
    <3>2. \A c \in Int : c <= NodeSlots + 1 => c - 1 <= NodeSlots + 1
      BY SlotsAssumption
    <3> QED
      BY <2>1, <2>3, <3>1, <3>2 DEF Room
  <2>5. Within(h) => Within(g)
    BY <2>3, <2>4 DEF Within
  <2> QED
    BY <1>1, <2>3, <2>5 DEF Grows, g
<1>3. CASE ~IsInner(h, n)
  BY <1>3, NothingGrows DEF AddToChildren
<1> QED
  BY <1>2, <1>3

\* The first half gives one key up.
LEMMA CutGrows ==
    ASSUME NEW h \in Heap, NEW n, NEW p, NEW i, n \in NodeIds,
           IsInner(h, n) => h[n].slotsinuse >= 1
    PROVE  LET g == CutFirstHalf(h, n, p, i)
           IN  /\ Grows(h, g, {n})
               /\ Within(h) /\ g # Fault => g[n].slotsinuse = h[n].slotsinuse - 1
<1> DEFINE h1 == [h EXCEPT ![n].slotsinuse = Dec(@)]
           h2 == LinkLeaves(h1, p.firstChild[i - 1], p.firstChild[i])
           g  == CutFirstHalf(h, n, p, i)
<1>1. CASE IsInner(h, n) /\ Live(h, p.firstChild[i])
  <2>1. h[n] \in innerNode /\ h[n] # Free /\ h[n].slotsinuse \in Nat
    BY <1>1, LiveTypes, NodeTypes DEF IsInner, Live, node
  <2>2. h1 \in Edits(h) /\ h1 \in Heap /\ h1[n] # Free
    <3>1. Dec(h[n].slotsinuse) \in UShort
      BY <2>1, CountTypes, NodeTypes DEF node
    <3> DEFINE r == [h[n] EXCEPT !.slotsinuse = Dec(h[n].slotsinuse)]
    <3>2. r \in innerNode
      BY <2>1, <3>1, InnerUpdates
    <3>3. h1 = [h EXCEPT ![n] = r]
      BY <2>1 DEF Heap
    <3>4. h1[n] = r /\ r # Free
      BY <3>2, <3>3, FreeAssumption DEF Heap, node
    <3> HIDE DEF r, h1
    <3> QED
      BY <1>1, <3>2, <3>3, <3>4, PutInner DEF Edits
  <2>3. /\ \A m \in NodeIds : m # n => h1[m] = h[m]
        /\ h1[n].slotsinuse = Dec(h[n].slotsinuse) /\ h1[n].isleafnode = h[n].isleafnode
        /\ h1[n].numChildren = h[n].numChildren
    BY <2>1 DEF Heap, innerNode
  <2>4. ASSUME Within(h) PROVE Dec(h[n].slotsinuse) = h[n].slotsinuse - 1 /\ Room(h1[n])
    <3>1. Room(h[n]) /\ ~h[n].isleafnode
      BY <1>1, <2>1, <2>4 DEF Within, IsInner
    <3>2. h[n].slotsinuse <= NodeSlots
      BY <3>1 DEF Room
    <3>3. Dec(h[n].slotsinuse) = h[n].slotsinuse - 1
      BY <1>1, <2>1, <3>2, Counting
    <3>4. h[n].slotsinuse - 1 <= NodeSlots
      BY <2>1, <3>2, SlotsAssumption
    <3> HIDE DEF h1
    <3> QED
      BY <2>3, <3>1, <3>3, <3>4 DEF Room
  <2> HIDE DEF h1
  <2>5. Grows(h, h1, {n})
    BY <2>2, <2>3, <2>4 DEF Grows, Within
  <2>6. Grows(h1, h2, {}) /\ h1 # Fault
    BY <2>2, LinkLeavesGrows DEF Fault
  <2>7. Grows(h, h2, {n} \cup {})
    <3> HIDE DEF h2
    <3> QED
      BY <2>5, <2>6, GrowsCompose
  <2>8. h2 # Fault => h2[n].slotsinuse = h1[n].slotsinuse
    BY <2>6 DEF Grows
  <2>9. g = IF h[p.firstChild[i]].isleafnode THEN h2 ELSE h1
    BY <1>1 DEF CutFirstHalf, h1
  <2> HIDE DEF g, h2
  <2> QED
    BY <2>3, <2>4, <2>5, <2>7, <2>8, <2>9 DEF g
<1>2. CASE ~(IsInner(h, n) /\ Live(h, p.firstChild[i]))
  <2>1. g = Fault
    BY <1>2 DEF CutFirstHalf
  <2> QED
    BY <2>1, NothingGrows
<1> QED
  BY <1>1, <1>2

-----------------------------------------------------------------------------
\* While the parent of n keys is split: pNode has a key to give up when the loop comes to
\* the split point, whether the new pair has been placed on the way (slot is then ahead of
\* i for good) or not.
SplitCount(h, l) ==
    LET half == h[l.parent].slotsinuse \div 2
        s    == h[l.pNode].slotsinuse
    IN  /\ l.pNode \in NodeIds /\ l.ppNode \in NodeIds /\ l.pNode # l.ppNode
        /\ l.parent \in NodeIds \ {l.pNode, l.ppNode}
        /\ l.slot \in {l.i, l.i + 1} /\ l.i <= h[l.parent].slotsinuse
        /\ l.i <= half + 1 => s >= (IF l.slot = l.i THEN l.i ELSE 1)
        /\ l.i = half + 2 /\ l.slot = l.i => s >= half

\* The steps an insertion or a search can be at.
InsertSteps ==
    {"idle", "undefined", "find", "insert", "get", "insert_in_parent", "split_parent"}

Filled ==
    /\ Within(heap)
    /\ pc \in InsertSteps /\ call.op \in {"none", "insert", "get"}
    /\ pc = "split_parent" => SplitCount(heap, local)

\* The inductive invariant behind the capacity.
InsertInv == TypeInv /\ Filled

\* A step keeps it if the heap it makes does, or it is undefined.
LEMMA GoFills ==
    ASSUME InsertInv, NEW g, NEW p \in InsertSteps, NEW l, Go(g, p, l),
           g # Fault => Within(g) /\ (p = "split_parent" => SplitCount(g, l)),
           call'.op \in {"none", "insert", "get"}
    PROVE  Filled'
  BY DEF InsertInv, Filled, Go, InsertSteps

\* The same for a return.
LEMMA ReturnFills ==
    ASSUME InsertInv, NEW g, NEW code, NEW d, Return(g, code, d), g # Fault => Within(g),
           call'.op \in {"none", "insert", "get"}
    PROVE  Filled'
<1>1. Go(g, "idle", [at |-> NULL]) /\ "idle" \in InsertSteps /\ "idle" # "split_parent"
  BY DEF Return, InsertSteps
<1> QED
  BY <1>1, GoFills

\* Memory.
LEMMA NewWithin ==
    ASSUME NEW h \in Heap, Within(h), NEW n \in NodeIds, NEW r \in node, Room(r)
    PROVE  Within(new(h, n, r))
  BY NewInHeap DEF Within

\* The empty tree; a call.
LEMMA CallsFill ==
    ASSUME InsertInv, Erases = {}, DeletePairs = {}, Calls
    PROVE  Filled'
<1>1. PICK k \in Keys :
          \/ \E d \in PayloadsOf[k] : MakeRoot(k, d) \/ CallInsert(k, d)
          \/ \E d \in Payloads : CallDeletePair(k, d)
          \/ CallErase(k) \/ CallGet(k)
          \/ \E op \in {"get", "erase", "delete_pair"} : CallOnEmptyTree(op, k)
  BY DEF Calls
<1>2. ASSUME NEW d \in PayloadsOf[k], MakeRoot(k, d) PROVE Filled'
  <2> DEFINE l == FirstId
             r == [NewLeaf EXCEPT !.isrootnode = TRUE]
             h == new(heap, l, r)
             g == insertleafAt(h, l, k, d, 0)
  <2>1. l \in NodeIds
    <3>1. Cardinality(UnusedIds) >= Reserve /\ Reserve \in Nat \ {0}
      BY <1>2, WorkloadAssumption DEF MakeRoot
    <3>2. UnusedIds = {} => Cardinality(UnusedIds) = 0
      BY FS_EmptySet, Zenon
    <3> QED
      BY <3>1, <3>2, Addresses
  <2>2. r \in leafNode /\ r \in node /\ r.isleafnode /\ r.slotsinuse = 0
    BY NewNodes DEF node, leafNode, NewLeaf
  <2>3. heap \in Heap /\ Within(heap)
    BY DEF InsertInv, Filled, TypeInv, TypeOK
  <2>4. h \in Heap /\ IsLeaf(h, l) /\ h[l] = r /\ \A m \in NodeIds \ {l} : h[m] = heap[m]
    <3> HIDE DEF r, l
    <3> QED
      BY <2>1, <2>2, <2>3, NewInHeap DEF IsLeaf
  <2>5. 0 \in LeafIndex /\ k \in KeySlot /\ d \in DataSlot
    BY Data, SlotsAssumption DEF LeafIndex
  <2> HIDE DEF h, l
  <2>6. /\ g \in Edits(h) /\ g[l].slotsinuse = Inc(h[l].slotsinuse)
        /\ \A m \in NodeIds \ {l} : g[m] = h[m]
    <3> HIDE DEF r
    <3>1. IsLeaf(h, l) /\ h \in Heap
      BY <2>4
    <3>2. /\ insertleafAt(h, l, k, d, 0) \in Edits(h)
          /\ insertleafAt(h, l, k, d, 0)[l].slotsinuse = Inc(h[l].slotsinuse)
          /\ \A m \in NodeIds \ {l} : insertleafAt(h, l, k, d, 0)[m] = h[m]
      BY <2>5, <3>1, InsertAtEdits
    <3> QED
      BY <3>2
  <2>7. Inc(0) <= LeafSlots
    BY Counting, SlotsAssumption
  <2>8. g # Fault => Within(g)
    <3>1. ASSUME g # Fault PROVE g[l].isleafnode
      BY <2>1, <2>2, <2>4, <2>6, <3>1 DEF Edits, Alike, IsLeaf, Live
    <3> HIDE DEF g, r
    <3> QED
      BY <2>2, <2>3, <2>4, <2>6, <2>7, <3>1 DEF Within, Room
  <2>9. Return(g, "ok", EmptyData) /\ call'.op = "insert"
    BY <1>2 DEF MakeRoot, g, h, l
  <2> HIDE DEF g
  <2> QED
    BY <2>8, <2>9, ReturnFills
<1>3. ASSUME NEW op \in {"insert", "get"}, NEW d, Start(op, k, d) PROVE Filled'
  BY <1>3 DEF Start, InsertInv, Filled, InsertSteps
<1>4. ASSUME NEW op \in {"get", "erase", "delete_pair"}, CallOnEmptyTree(op, k) PROVE Filled'
  BY <1>4 DEF CallOnEmptyTree, InsertInv, Filled, InsertSteps
<1>5. ~CallErase(k) /\ \A d : ~CallDeletePair(k, d)
  BY DEF CallErase, CallDeletePair, MayErase
<1>6. ASSUME NEW d \in PayloadsOf[k], CallInsert(k, d) PROVE Filled'
  BY <1>3, <1>6 DEF CallInsert
<1>7. CASE CallGet(k)
  BY <1>3, <1>7 DEF CallGet
<1> QED
  BY <1>1, <1>2, <1>4, <1>5, <1>6, <1>7

\* find and get leave the heap alone.
LEMMA FindFills ==
    ASSUME InsertInv, FindChild \/ FindNextLeaf \/ FindLeaf \/ Get
    PROVE  Filled'
<1>1. CASE FindChild \/ FindNextLeaf
  BY <1>1 DEF FindChild, FindNextLeaf, InsertInv, Filled, InsertSteps
<1>2. CASE FindLeaf
  <2>1. call \in Calling
    BY <1>2 DEF FindLeaf, InsertInv, TypeInv, Standing
  <2>2. call.op \in {"insert", "get"}
    BY <2>1, CallFields DEF InsertInv, Filled, Ops
  <2> QED
    BY <1>2, <2>2 DEF FindLeaf, InsertInv, Filled, InsertSteps
<1>3. CASE Get
  <2>1. (\E code, d : Return(heap, code, d)) /\ call' = call
    BY <1>3, Zenon DEF Get
  <2>2. Within(heap) /\ call'.op \in {"none", "insert", "get"}
    BY <2>1 DEF InsertInv, Filled
  <2> QED
    BY <2>1, <2>2, ReturnFills
<1> QED
  BY <1>1, <1>2, <1>3

\* A pair goes into a leaf with room.
LEMMA InsertPairFills ==
    ASSUME InsertInv, NEW junk, InsertPair(junk) \/ InsertDuplicate(junk)
    PROVE  Filled'
<1> DEFINE l == local.at
           g == insertleafpair(heap, l, call.key, call.data, junk)
           index == findKeyLoc(heap[l], call.key)
<1>1. TypeInv /\ pc \in Ops /\ call \in Calling /\ Within(heap) /\ heap \in Heap
      /\ call'.op \in {"none", "insert", "get"}
  <2>1. TypeInv /\ Within(heap) /\ call' = call /\ pc = "insert"
    BY DEF InsertInv, Filled, InsertPair, InsertDuplicate
  <2> QED
    BY <2>1, AtOps, Globals DEF InsertInv, Filled, Ops
<1>2. IsLeaf(heap, l) /\ l \in NodeIds /\ call.key \in KeySlot /\ call.data \in DataSlot
  BY <1>1, AtOps, CallFields
<1>3. CASE InsertPair(junk)
  <2>1. g \in Edits(heap) /\ (g # Fault => g[l].slotsinuse <= LeafSlots)
    <3>1. heap[l].slotsinuse <= LeafSlots
      BY <1>1, AtOps
    <3> QED
      BY <1>1, <1>2, <3>1, InsertLeafPairEdits
  <2>2. \A m \in NodeIds \ {l} : g[m] = heap[m]
    <3>1. PairResult(heap, l, call.key, call.data, junk) = "inserted"
      BY <1>3 DEF InsertPair
    <3>2. g = insertleafAt(heap, l, call.key, call.data, index)
      BY <3>1 DEF insertleafpair
    <3> HIDE DEF l, index
    <3> QED
      BY <1>1, <3>2 DEF insertleafAt, Heap
  <2>3. g # Fault => g[l].isleafnode
    BY <1>2, <2>1 DEF Edits, Alike, IsLeaf, Live
  <2>4. Return(g, "ok", EmptyData)
    BY <1>3 DEF InsertPair
  <2> HIDE DEF g, l
  <2>5. g # Fault => Within(g)
    BY <1>1, <2>1, <2>2, <2>3 DEF Within, Room
  <2> QED
    BY <1>1, <2>4, <2>5, ReturnFills
<1>4. CASE InsertDuplicate(junk)
  BY <1>1, <1>4, ReturnFills DEF InsertDuplicate
<1> QED
  BY <1>3, <1>4

\* The two leaves a full one is split into are not too full.
LEMMA SplitLeafRoom ==
    ASSUME NEW r \in leafNode, isfull(r), NEW k, NEW d
    PROVE  /\ SplitLeaf(r, k, d).ln.slotsinuse <= LeafSlots
           /\ SplitLeaf(r, k, d).lp.slotsinuse <= LeafSlots
<1> DEFINE n     == r.slotsinuse
           half  == n \div 2
           above == SlotsAbove(r, k)
           pos   == IF above = {} THEN n
                    ELSE IF (IF above # {} /\ Least(above) = 0 THEN 1 ELSE 0) = 1 THEN 1
                    ELSE Least(above)
           low   == IF pos < half THEN half + 1 ELSE half
<1>1. SplitLeaf(r, k, d).ln.slotsinuse = low /\ SplitLeaf(r, k, d).lp.slotsinuse = n + 1 - low
  BY DEF SplitLeaf, NewLeaf
<1>2. n \in 2 .. 1000 /\ n = LeafSlots
  BY SlotsAssumption DEF isfull
<1>3. half \in Nat /\ 1 <= half /\ half + 1 <= n
  <2> HIDE DEF n
  <2> QED
    BY <1>2
<1>4. low \in {half, half + 1}
  OBVIOUS
<1> HIDE DEF low, half, n
<1> QED
  BY <1>1, <1>2, <1>3, <1>4

\* The split of a leaf divides its pairs and the new one.
LEMMA SplitFullLeafFills ==
    ASSUME InsertInv, SplitFullLeaf
    PROVE  Filled'
<1> DEFINE n     == local.at
           ln    == FirstId
           lp    == SecondId
           split == SplitLeaf(heap[n], call.key, call.data)
           rn    == [split.ln EXCEPT !.nextLeaf = lp]
           rp    == [split.lp EXCEPT !.prevLeaf = ln]
           h1    == new(heap, ln, rn)
           g     == new(h1, lp, rp)
           l     == [parent |-> heap[n].parent, N |-> ln, k |-> split.lp.keySlots[0],
                     Nprime |-> lp, n |-> n, leaked |-> {}]
<1>1. /\ TypeInv /\ pc \in Ops /\ Within(heap) /\ heap \in Heap /\ isfull(heap[n])
      /\ call'.op \in {"none", "insert", "get"}
  BY Globals DEF SplitFullLeaf, InsertInv, Filled, Ops
<1>2. ln \in NodeIds /\ lp \in NodeIds /\ ln \in Pointer /\ lp \in Pointer
  BY Addresses DEF SplitFullLeaf, Pointer
<1>3. heap[n] \in leafNode /\ call.key \in KeySlot /\ call.data \in DataSlot
  BY <1>1, AtOps, CallFields
<1>4. /\ split.ln \in leafNode /\ split.ln.slotsinuse <= LeafSlots
      /\ split.lp \in leafNode /\ split.lp.slotsinuse <= LeafSlots
  BY <1>1, <1>3, SplitLeafTypes, SplitLeafRoom
<1>5. rn \in node /\ rp \in node /\ Room(rn) /\ Room(rp)
  <2> HIDE DEF split, ln, lp
  <2>1. rn \in leafNode /\ rp \in leafNode
    BY <1>2, <1>4, LeafUpdates
  <2>2. rn.slotsinuse = split.ln.slotsinuse /\ rp.slotsinuse = split.lp.slotsinuse
    BY <1>4 DEF leafNode
  <2> HIDE DEF rn, rp
  <2> QED
    BY <1>4, <2>1, <2>2 DEF Room, node, leafNode
<1>6. Within(g)
  <2>1. h1 \in Heap /\ Within(h1)
    <3> HIDE DEF rn, ln
    <3> QED
      BY <1>1, <1>2, <1>5, NewInHeap, NewWithin
  <2> HIDE DEF h1, rp, lp
  <2> QED
    BY <1>2, <1>5, <2>1, NewWithin
<1>7. Go(g, "insert_in_parent", l)
  BY DEF SplitFullLeaf
<1> HIDE DEF g, l
<1> QED
  BY <1>1, <1>6, <1>7, GoFills DEF InsertSteps

\* The end of an insertion only frees nodes.
LEMMA InsertEndsFills ==
    ASSUME InsertInv, NEW h \in Heap, InsertEnds(h), h # Fault => Within(h), call' = call
    PROVE  Filled'
<1> DEFINE h1     == freeNode(h, local.n)
           unseen == local.leaked \ PointedTo(h1, NodeIds \ local.leaked)
           g      == [n \in NodeIds |-> IF n \in unseen THEN Free ELSE h1[n]]
<1>1. \A m \in NodeIds : g[m] # Free => g[m] = h[m]
  <2> HIDE DEF unseen
  <2> QED
    BY FreeInHeap
<1>2. Return(g, "ok", EmptyData)
  BY DEF InsertEnds
<1> HIDE DEF g
<1>3. Within(g)
  <2>1. CASE h = Fault
    BY <1>1, <2>1 DEF Fault, Within
  <2>2. CASE h # Fault
    BY <1>1, <2>2 DEF Within
  <2> QED
    BY <2>1, <2>2
<1>4. call'.op \in {"none", "insert", "get"}
  BY DEF InsertInv, Filled
<1> QED
  BY <1>2, <1>3, <1>4, ReturnFills

\* A new root has one key.
LEMMA NewRootFills ==
    ASSUME InsertInv, NewRoot
    PROVE  Filled'
<1> DEFINE tnode == FirstId
           r     == [NewInner EXCEPT !.isrootnode = TRUE]
           h1    == new(heap, tnode, r)
           h2    == insertInnerNodeKeyAt(h1, tnode, local.k, 0)
           h3    == insertInnerNodeChildAt(h2, tnode, local.N, 0)
           h4    == insertInnerNodeChildAt(h3, tnode, local.Nprime, 1)
<1>1. heap \in Heap /\ Within(heap) /\ local.k \in KeySlot
  <2>1. TypeInv /\ Within(heap) /\ pc = "insert_in_parent"
    BY DEF InsertInv, Filled, NewRoot
  <2> QED
    BY <2>1, Globals, AtInsertInParent
<1>2. tnode \in NodeIds
  BY Addresses DEF NewRoot
<1>3. h1 \in Heap /\ Within(h1)
  <2>1. r \in node /\ Room(r)
    BY NewNodes, SlotsAssumption DEF node, Room, NewInner
  <2> HIDE DEF r, tnode
  <2> QED
    BY <1>1, <1>2, <2>1, NewInHeap, NewWithin
<1> HIDE DEF h1, tnode
<1>4. h2 \in Heap /\ Within(h2)
  <2>1. Grows(h1, h2, {tnode})
    BY <1>1, <1>3, InsertKeyGrows
  <2> QED
    BY <1>3, <2>1 DEF Grows, Edits
<1>5. h3 \in Heap /\ Within(h3)
  <2>1. Grows(h2, h3, {})
    BY <1>4, InsertChildGrows
  <2> HIDE DEF h2, h3
  <2> QED
    BY <1>4, <2>1 DEF Grows, Edits
<1>6. h4 \in Heap /\ Within(h4)
  <2>1. Grows(h3, h4, {})
    BY <1>5, InsertChildGrows
  <2> HIDE DEF h3, h4
  <2> QED
    BY <1>5, <2>1 DEF Grows, Edits
<1>7. InsertEnds(h4) /\ call' = call
  BY DEF NewRoot, h1, tnode
<1> HIDE DEF h4
<1> QED
  BY <1>6, <1>7, InsertEndsFills

\* A parent with room gets one key.
LEMMA InsertInParentFills ==
    ASSUME InsertInv, InsertInParent
    PROVE  Filled'
<1> DEFINE p   == local.parent
           loc == PairLocation(heap[p], local.k)
           h0  == AddToChildren(heap, p, -1)
           h1  == insertinnernodepair(h0, p, local.k, local.N)
           h2  == IF loc >= 1 THEN insertInnerNodeChildAt(h1, p, local.Nprime, loc + 1) ELSE h1
<1>1. heap \in Heap /\ Within(heap) /\ local.k \in KeySlot
  <2>1. TypeInv /\ Within(heap) /\ pc = "insert_in_parent"
    BY DEF InsertInv, Filled, InsertInParent
  <2> QED
    BY <2>1, Globals, AtInsertInParent
<1>2. h0 \in Heap /\ Within(h0)
  BY <1>1, DropChildGrows DEF Grows, Edits
<1>3. h1 \in Heap /\ Within(h1)
  <2> HIDE DEF h0
  <2> QED
    BY <1>1, <1>2, InsertPairGrows DEF Grows, Edits
<1>4. h2 \in Heap /\ Within(h2)
  <2> HIDE DEF h1, loc
  <2> QED
    BY <1>3, InsertChildGrows DEF Grows, Edits
<1>5. InsertEnds(h2) /\ call' = call
  BY DEF InsertInParent
<1> HIDE DEF h2
<1> QED
  BY <1>4, <1>5, InsertEndsFills

\* The loop starts with two empty nodes.
LEMMA SplitParentFills ==
    ASSUME InsertInv, SplitParent
    PROVE  Filled'
<1> DEFINE h1 == new(heap, FirstId, NewInner)
           g  == new(h1, SecondId, NewInner)
           l  == [parent |-> local.parent, N |-> local.N, k |-> local.k,
                  Nprime |-> local.Nprime, n |-> local.n, leaked |-> local.leaked,
                  pNode |-> FirstId, ppNode |-> SecondId,
                  i |-> 0, slot |-> 0, j |-> 0, added |-> FALSE, kp |-> Junk]
<1>1. heap \in Heap /\ Within(heap) /\ call'.op \in {"none", "insert", "get"}
  BY Globals DEF InsertInv, Filled, SplitParent
<1>2. /\ FirstId \in NodeIds /\ SecondId \in NodeIds /\ FirstId # SecondId
      /\ heap[FirstId] = Free /\ heap[SecondId] = Free
  BY Addresses DEF SplitParent
<1>3. NewInner \in node /\ Room(NewInner) /\ NewInner.slotsinuse = 0
  BY NewNodes, SlotsAssumption DEF node, Room, NewInner
<1>4. h1 \in Heap /\ Within(h1) /\ h1[FirstId] = NewInner
      /\ \A m \in NodeIds \ {FirstId} : h1[m] = heap[m]
  BY <1>1, <1>2, <1>3, NewInHeap, NewWithin
<1>5. g \in Heap /\ Within(g) /\ g[FirstId] = NewInner
      /\ \A m \in NodeIds \ {FirstId, SecondId} : g[m] = heap[m]
  <2> HIDE DEF h1
  <2> QED
    BY <1>2, <1>3, <1>4, NewInHeap, NewWithin
<1>6. local.parent \in NodeIds /\ heap[local.parent] \in node /\ heap[local.parent] # Free
  BY <1>1, LiveTypes, FreeAssumption DEF SplitParent, node
<1>7. local.parent \in NodeIds \ {FirstId, SecondId}
  BY <1>2, <1>6
<1>8. SplitCount(g, l)
  <2>1. g[local.parent].slotsinuse \in Nat
    BY <1>5, <1>6, <1>7, NodeTypes
  <2>2. \A u \in Nat : u \div 2 \in Nat
    OBVIOUS
  <2> HIDE DEF g
  <2> QED
    BY <1>2, <1>3, <1>5, <1>7, <2>1, <2>2 DEF SplitCount
<1>9. Go(g, "split_parent", l)
  BY DEF SplitParent
<1> HIDE DEF g, l
<1> QED
  BY <1>1, <1>5, <1>8, <1>9, GoFills DEF InsertSteps

\* The second half of an inner node gets its last key.
LEMMA SplitParentEndFills ==
    ASSUME InsertInv, SplitParentEnd
    PROVE  Filled'
<1> DEFINE p    == heap[local.parent]
           pp   == local.ppNode
           last == p.firstChild[local.i]
           h1   == IF last = NULL THEN heap ELSE insertInnerNodeChildAt(heap, pp, last, local.j)
           h0   == AddToChildren(h1, pp, -1)
           h2   == IF local.added THEN h1
                   ELSE PlaceNewPair(h0, pp, local.k, local.N, local.Nprime, local.j)
           l    == [parent |-> p.parent, N |-> local.pNode, k |-> local.kp, Nprime |-> pp,
                    n |-> local.n, leaked |-> local.leaked \cup {local.parent}]
<1>1. heap \in Heap /\ Within(heap) /\ local.k \in KeySlot
      /\ call'.op \in {"none", "insert", "get"}
  <2>1. TypeInv /\ Within(heap) /\ pc = "split_parent" /\ call' = call
        /\ call.op \in {"none", "insert", "get"}
    BY DEF InsertInv, Filled, SplitParentEnd
  <2> QED
    BY <2>1, Globals, AtInsertInParent
<1>2. h1 \in Heap /\ Within(h1)
  BY <1>1, InsertChildGrows DEF Grows, Edits
<1>3. h0 \in Heap /\ Within(h0)
  <2> HIDE DEF h1
  <2> QED
    BY <1>2, DropChildGrows DEF Grows, Edits
<1>4. Within(h2)
  <2> HIDE DEF h0, h1, pp
  <2>1. Placed(h0, PlaceNewPair(h0, pp, local.k, local.N, local.Nprime, local.j), pp, local.j)
    BY <1>1, <1>3, PlaceGrows
  <2> QED
    BY <1>2, <1>3, <2>1 DEF Placed, Grows
<1>5. Go(h2, "insert_in_parent", l)
  BY DEF SplitParentEnd
<1> HIDE DEF h2, l
<1> QED
  BY <1>1, <1>4, <1>5, GoFills DEF InsertSteps

\* What the loop of the split leaves pNode with, as numbers: n keys in the parent, the
\* loop at a with slot sl; here says that the new pair comes first, and i is the pair that
\* is placed; pNode has s keys, s1 after the new pair, s2 after the old one, s3 at the cut.
LEMMA SplitNumbers ==
    ASSUME NEW n \in Nat, NEW a \in Nat, NEW sl \in {a, a + 1}, a < n, NEW here \in BOOLEAN,
           here => sl = a, NEW half \in Nat, half = n \div 2, NEW i, NEW placed \in BOOLEAN,
           i = IF here /\ a > 0 THEN a - 1 ELSE a,
           placed <=> i < half + 1 /\ sl = i,
           NEW s \in Nat, NEW s1 \in Nat, NEW s2 \in Nat, NEW s4 \in Int,
           s1 >= s, here /\ a < half + 1 => s1 >= s + 1,
           s2 >= s1, placed => s2 >= s1 + 1,
           s4 = (IF i = half + 1 THEN s2 - 1 ELSE s2),
           a <= half + 1 => s >= (IF sl = a THEN a ELSE 1),
           a = half + 2 /\ sl = a => s >= half
    PROVE  /\ i = half + 1 => s2 >= 1
           /\ sl + 1 \in {i + 1, (i + 1) + 1}
           /\ i + 1 <= half + 1 => s4 >= (IF sl + 1 = i + 1 THEN i + 1 ELSE 1)
           /\ i + 1 = half + 2 /\ sl + 1 = i + 1 => s4 >= half
<1>1. CASE ~here /\ sl = a
  <2>1. i = a /\ s1 >= s
    BY <1>1
  <2>2. CASE a < half + 1
    BY <1>1, <2>1, <2>2
  <2>3. CASE a = half + 1
    BY <1>1, <2>1, <2>3
  <2>4. CASE a > half + 1
    BY <1>1, <2>1, <2>4
  <2> QED
    BY <2>2, <2>3, <2>4
<1>2. CASE ~here /\ sl = a + 1
  <2>1. i = a /\ ~placed /\ s1 >= s /\ s2 >= s
    BY <1>2
  <2>2. CASE a <= half + 1
    BY <1>2, <2>1, <2>2
  <2>3. CASE a > half + 1
    BY <1>2, <2>1, <2>3
  <2> QED
    BY <2>2, <2>3
<1>3. CASE here /\ a = 0
  <2>1. i = 0 /\ sl = 0 /\ placed /\ s1 >= s + 1 /\ s2 >= 1 /\ i # half + 1 /\ s4 = s2
    BY <1>3
  <2> QED
    BY <1>3, <2>1
<1>4. CASE here /\ a > 0
  <2>1. i = a - 1 /\ sl = a /\ ~placed /\ s1 >= s /\ s2 >= s1
    BY <1>4
  <2>2. a = half + 2 => half >= 1
    OBVIOUS
  <2>3. CASE a <= half + 1
    <3>1. s >= a /\ i # half + 1 /\ s4 = s2 /\ s2 >= 1
      BY <1>4, <2>1, <2>3
    <3> QED
      BY <2>1, <2>3, <3>1
  <2>4. CASE a = half + 2
    BY <2>1, <2>2, <2>4
  <2>5. CASE a > half + 2
    BY <2>1, <2>5
  <2> QED
    BY <2>3, <2>4, <2>5
<1> QED
  BY <1>1, <1>2, <1>3, <1>4

\* One round of that loop.
LEMMA SplitParentLoopFills ==
    ASSUME InsertInv, SplitParentLoop
    PROVE  Filled'
<1> DEFINE p    == heap[local.parent]
           half == p.slotsinuse \div 2
           here == p.keySlots[local.i] > local.k /\ local.slot = local.i
           low  == local.i < half + 1
           at   == IF low THEN local.slot ELSE local.j
           h1   == IF here THEN PlaceNewPair(heap, local.pNode, local.k, local.N, local.Nprime, at)
                           ELSE heap
           j1   == IF here /\ ~low THEN local.j + 1 ELSE local.j
           i    == IF here /\ local.i > 0 THEN local.i - 1 ELSE local.i
           old  == i < half + 1 /\ local.slot = i
           h2   == IF old THEN PlaceOldPair(h1, local.pNode, p, i, local.slot) ELSE h1
           h3   == IF i > half THEN PlaceOldPair(h2, local.ppNode, p, i, j1) ELSE h2
           h4   == IF i = half + 1 THEN CutFirstHalf(h3, local.pNode, p, i) ELSE h3
           kp   == IF i = half + 1 THEN KeyAt(h3[local.pNode], i - 1) ELSE local.kp
           l    == [local EXCEPT !.i = i + 1, !.slot = @ + 1,
                                 !.j = IF i > half THEN j1 + 1 ELSE j1,
                                 !.added = @ \/ here, !.kp = kp]
           n    == local.pNode
<1>1. /\ pc = "split_parent" /\ local \in Locals["split_parent"] /\ heap \in Heap
      /\ Within(heap) /\ SplitCount(heap, local) /\ call'.op \in {"none", "insert", "get"}
      /\ TypeInv
  <2>1. pc = "split_parent" /\ call' = call
    BY Zenon DEF SplitParentLoop
  <2> QED
    BY <2>1, TypesAt, LocalsFields, Globals DEF InsertInv, Filled
<1>2. /\ IsInner(heap, local.parent) /\ p \in innerNode /\ p \in node /\ p.slotsinuse \in Nat
      /\ p.slotsinuse <= NodeSlots
  <2>1. IsInner(heap, local.parent)
    BY <1>1, LocalsFields DEF TypeInv, Standing
  <2>2. p \in innerNode /\ p \in node /\ p.slotsinuse \in Nat
    BY <1>1, <2>1, LiveTypes, NodeTypes DEF node
  <2>3. Room(p) /\ ~p.isleafnode
    BY <1>1, <2>1, LiveTypes DEF IsInner, Live, Within
  <2> HIDE DEF p
  <2> QED
    BY <2>1, <2>2, <2>3 DEF Room, p
<1>3. /\ local.k \in KeySlot /\ local.i \in Nat /\ local.slot \in {local.i, local.i + 1}
      /\ local.i < p.slotsinuse /\ half \in Nat
      /\ n \in NodeIds /\ local.ppNode \in NodeIds /\ n # local.ppNode
      /\ local.parent \in NodeIds \ {n, local.ppNode}
  <2>1. local.k \in KeySlot /\ local.i \in Nat
    BY <1>1, LocalsFields
  <2>2. local.i < p.slotsinuse
    BY Zenon DEF SplitParentLoop
  <2>3. \A u \in Nat : u \div 2 \in Nat
    OBVIOUS
  <2> QED
    BY <1>1, <1>2, <2>1, <2>2, <2>3 DEF SplitCount
<1>4. /\ Grows(heap, h1, {n}) /\ h1 \in Heap
      /\ h1 # Fault => IF here THEN Placed(heap, h1, n, at) ELSE h1 = heap
  <2>1. here => Placed(heap, h1, n, at)
    <3> HIDE DEF here, n, at
    <3> QED
      BY <1>1, <1>3, PlaceGrows DEF n
  <2>2. ~here => h1 = heap
    OBVIOUS
  <2> HIDE DEF here, h1
  <2> QED
    BY <1>1, <2>1, <2>2, NothingGrows DEF Placed, Grows, Edits
<1>5. /\ Grows(h1, h2, {n}) /\ h2 \in Heap
      /\ IF old THEN Placed(h1, h2, n, local.slot) ELSE h2 = h1
  <2>1. old => Placed(h1, h2, n, local.slot)
    <3> HIDE DEF h1, i, old, p, n
    <3> QED
      BY <1>2, <1>4, PlaceGrows DEF n
  <2>2. ~old => h2 = h1
    OBVIOUS
  <2> HIDE DEF old, h1, h2
  <2> QED
    BY <1>4, <2>1, <2>2, NothingGrows DEF Placed, Grows, Edits
<1>6. Grows(h2, h3, {local.ppNode}) /\ h3 \in Heap
  <2>1. i > half => Placed(h2, h3, local.ppNode, j1)
    <3> HIDE DEF h2, i, p, half, j1
    <3> QED
      BY <1>2, <1>5, PlaceGrows
  <2>2. ~(i > half) => h3 = h2
    OBVIOUS
  <2> HIDE DEF i, half, h2, h3
  <2> QED
    BY <1>5, <2>1, <2>2, NothingGrows DEF Placed, Grows, Edits
<1>7. h1 # Fault => Within(h1)
  BY <1>1, <1>4 DEF Grows
<1>8. h2 # Fault => h1 # Fault /\ Within(h2)
  <2> HIDE DEF h1, h2
  <2> QED
    BY <1>5, <1>7, FaultStays DEF Grows
<1>9. h3 # Fault => h2 # Fault /\ Within(h3)
  <2> HIDE DEF h2, h3
  <2> QED
    BY <1>6, <1>8, FaultStays DEF Grows
<1>10. h3 # Fault => (IsInner(h3, n) <=> IsInner(heap, n)) /\ (IsInner(h1, n) <=> IsInner(heap, n))
  <2> HIDE DEF h1, h2, h3
  <2> QED
    BY <1>1, <1>4, <1>5, <1>6, <1>8, <1>9, EditsKeep DEF Grows
<1>11. h3 # Fault /\ IsInner(h3, n) =>
          /\ heap[n].slotsinuse \in Nat /\ h1[n].slotsinuse \in Nat /\ h2[n].slotsinuse \in Nat
          /\ h3[n].slotsinuse \in Nat /\ h3[n].slotsinuse = h2[n].slotsinuse
  <2> HIDE DEF h1, h2, h3
  <2>1. \A h \in Heap : IsInner(h, n) => h[n].slotsinuse \in Nat
    BY LiveTypes, NodeTypes DEF node
  <2>2. h3 # Fault /\ IsInner(h3, n) => IsInner(h2, n) /\ IsInner(h1, n) /\ IsInner(heap, n)
    BY <1>5, <1>6, <1>10, EditsKeep DEF Grows
  <2>3. h3 # Fault => h3[n].slotsinuse = h2[n].slotsinuse
    BY <1>3, <1>6 DEF Grows
  <2> QED
    BY <1>1, <1>4, <1>5, <1>6, <2>1, <2>2, <2>3
<1>12. h3 # Fault =>
          /\ h1[n].slotsinuse >= heap[n].slotsinuse \/ h1 = heap
          /\ h2[n].slotsinuse >= h1[n].slotsinuse \/ h2 = h1
          /\ here /\ low => h1[n].slotsinuse >= heap[n].slotsinuse + 1
          /\ old => h2[n].slotsinuse >= h1[n].slotsinuse + 1
          /\ here \/ old => IsInner(h3, n)
  <2>1. here /\ low => at \in InnerIndex
    <3>1. here /\ low => at = local.i
      OBVIOUS
    <3> HIDE DEF here, low, at, half, p
    <3> QED
      BY <1>2, <1>3, <3>1, SlotsAssumption DEF InnerIndex
  <2>2. old => local.slot \in InnerIndex
    <3>1. old => local.slot <= local.i /\ local.slot \in Nat
      <4>1. i \in Nat /\ i <= local.i
        <5> HIDE DEF here
        <5> QED
          BY <1>3
      <4> HIDE DEF i, here
      <4> QED
        BY <1>3, <4>1
    <3> HIDE DEF old, p
    <3> QED
      BY <1>2, <1>3, <3>1, SlotsAssumption DEF InnerIndex
  <2> HIDE DEF h1, h2, h3, here, old, low, at
  <2> QED
    BY <1>1, <1>4, <1>5, <1>7, <1>8, <1>9, <1>10, <2>1, <2>2 DEF Placed
<1>13. i \in Nat /\ (here => local.slot = local.i)
  <2> HIDE DEF p
  <2> QED
    BY <1>3
<1>14. ASSUME h3 # Fault, IsInner(h3, n), NEW s4 \in Int,
              s4 = IF i = half + 1 THEN h3[n].slotsinuse - 1 ELSE h3[n].slotsinuse
       PROVE  /\ i = half + 1 => h3[n].slotsinuse >= 1
              /\ i + 1 <= half + 1 => s4 >= (IF local.slot + 1 = i + 1 THEN i + 1 ELSE 1)
              /\ i + 1 = half + 2 /\ local.slot + 1 = i + 1 => s4 >= half
  <2> DEFINE a  == local.i
             sl == local.slot
             m  == p.slotsinuse
             s  == heap[n].slotsinuse
             s1 == h1[n].slotsinuse
             s2 == h2[n].slotsinuse
  <2>1. s \in Nat /\ s1 \in Nat /\ s2 \in Nat /\ h3[n].slotsinuse = s2
    BY <1>11, <1>14
  <2>2. s1 >= s /\ s2 >= s1
    <3> HIDE DEF h1, h2, h3
    <3> QED
      BY <1>12, <1>14, <2>1
  <2>3. /\ here /\ low => s1 >= s + 1
        /\ old => s2 >= s1 + 1
    <3> HIDE DEF h1, h2, h3, here, low, old
    <3> QED
      BY <1>12, <1>14
  <2>4. /\ a <= half + 1 => s >= (IF sl = a THEN a ELSE 1)
        /\ a = half + 2 /\ sl = a => s >= half
    BY <1>1 DEF SplitCount
  <2>5. /\ m \in Nat /\ a \in Nat /\ sl \in {a, a + 1} /\ a < m /\ half \in Nat
        /\ half = m \div 2
    BY <1>2, <1>3
  <2>6. here \in BOOLEAN /\ old \in BOOLEAN /\ i = (IF here /\ a > 0 THEN a - 1 ELSE a)
        /\ (old <=> i < half + 1 /\ sl = i) /\ (low <=> a < half + 1)
    OBVIOUS
  <2>7. s4 = IF i = half + 1 THEN s2 - 1 ELSE s2
    BY <1>14, <2>1
  <2> HIDE DEF a, sl, m, s, s1, s2, half, here, low, old, i
  <2>8. /\ i = half + 1 => s2 >= 1
        /\ i + 1 <= half + 1 => s4 >= (IF sl + 1 = i + 1 THEN i + 1 ELSE 1)
        /\ i + 1 = half + 2 /\ sl + 1 = i + 1 => s4 >= half
    <3>1. here => sl = a
      BY <1>13 DEF sl, a
    <3>2. here /\ a < half + 1 => s1 >= s + 1
      BY <2>3, <2>6
    <3> QED
      BY <2>1, <2>2, <2>3, <2>4, <2>5, <2>6, <2>7, <3>1, <3>2, SplitNumbers
  <2> QED
    BY <2>1, <2>8 DEF sl
<1>15. IsInner(h3, n) /\ h3 # Fault /\ i = half + 1 => h3[n].slotsinuse >= 1
  <2> DEFINE s4 == h3[n].slotsinuse - 1
  <2>1. IsInner(h3, n) /\ h3 # Fault => s4 \in Int
    <3> HIDE DEF h1, h2, h3
    <3> QED
      BY <1>11
  <2> HIDE DEF h3, i, half, s4
  <2> QED
    BY <1>14, <2>1 DEF s4
<1>16. /\ Grows(h3, h4, {n}) /\ h4 \in Heap
       /\ IF i = half + 1
          THEN h4 # Fault => /\ h3 # Fault /\ IsInner(h3, n)
                             /\ h4[n].slotsinuse = h3[n].slotsinuse - 1
          ELSE h4 = h3
  <2>1. CASE i = half + 1 /\ h3 # Fault
    <3> HIDE DEF h3, i, half, p, n
    <3>1. IsInner(h3, n) => h3[n].slotsinuse >= 1
      BY <1>15, <2>1
    <3>2. /\ Grows(h3, CutFirstHalf(h3, n, p, i), {n})
          /\ Within(h3) /\ CutFirstHalf(h3, n, p, i) # Fault
                => CutFirstHalf(h3, n, p, i)[n].slotsinuse = h3[n].slotsinuse - 1
      BY <1>3, <1>6, <3>1, CutGrows
    <3>3. CutFirstHalf(h3, n, p, i) # Fault => IsInner(h3, n)
      BY <1>6, CutEdits
    <3>4. h4 = CutFirstHalf(h3, n, p, i)
      BY <2>1 DEF n
    <3> HIDE DEF h4
    <3> QED
      BY <1>9, <2>1, <3>2, <3>3, <3>4 DEF Grows, Edits
  <2>2. CASE i = half + 1 /\ h3 = Fault
    <3> HIDE DEF h3, i, half, p, n
    <3>1. CutFirstHalf(h3, n, p, i) \in Edits(h3)
      BY <1>6, CutEdits
    <3>2. h4 = Fault
      BY <2>2, <3>1, FaultStays DEF n
    <3> HIDE DEF h4
    <3> QED
      BY <1>6, <2>2, <3>2, NothingGrows
  <2>3. CASE i # half + 1
    <3>1. h4 = h3
      BY <2>3
    <3> HIDE DEF h3, h4, i, half
    <3> QED
      BY <1>6, <2>3, <3>1, NothingGrows
  <2> QED
    BY <2>1, <2>2, <2>3
<1>17. h4 # Fault => h3 # Fault /\ Within(h4)
  <2> HIDE DEF h3, h4
  <2> QED
    BY <1>9, <1>16, FaultStays DEF Grows
<1>18. h4 # Fault => h4[local.parent].slotsinuse = p.slotsinuse
  <2>1. h4 # Fault => h1 # Fault /\ h2 # Fault /\ h3 # Fault
    <3> HIDE DEF h1, h2, h3, h4
    <3> QED
      BY <1>8, <1>9, <1>17
  <2> HIDE DEF h1, h2, h3, h4
  <2> QED
    BY <1>3, <1>4, <1>5, <1>6, <1>16, <2>1 DEF Grows
<1>19. /\ l.parent = local.parent /\ l.pNode = n /\ l.ppNode = local.ppNode
       /\ l.i = i + 1 /\ l.slot = local.slot + 1
  <2>1. DOMAIN local = {"parent", "N", "k", "Nprime", "n", "leaked", "pNode", "ppNode", "i",
                        "slot", "j", "added", "kp"}
    BY <1>1, LocalsFields
  <2> HIDE DEF i, kp, here, half, j1
  <2> QED
    BY <2>1
<1>20. i + 1 \in Nat /\ local.slot + 1 \in {i + 1, (i + 1) + 1} /\ i + 1 <= p.slotsinuse
  <2> HIDE DEF here, p
  <2> QED
    BY <1>2, <1>3, <1>13
<1>21. ASSUME h4 # Fault
       PROVE  /\ i + 1 <= half + 1 =>
                    h4[n].slotsinuse >= (IF local.slot + 1 = i + 1 THEN i + 1 ELSE 1)
              /\ i + 1 = half + 2 /\ local.slot + 1 = i + 1 => h4[n].slotsinuse >= half
  <2>1. CASE IsInner(h3, n)
    <3> DEFINE s4 == h4[n].slotsinuse
    <3>1. h3 # Fault /\ h3[n].slotsinuse \in Nat
      <4> HIDE DEF h1, h2, h3, h4
      <4> QED
        BY <1>11, <1>17, <1>21, <2>1
    <3>2. s4 = IF i = half + 1 THEN h3[n].slotsinuse - 1 ELSE h3[n].slotsinuse
      <4> HIDE DEF h3, h4, i, half
      <4> QED
        BY <1>16, <1>21
    <3> HIDE DEF s4, h3, i, half, h4
    <3>3. s4 \in Int
      BY <3>1, <3>2
    <3> QED
      BY <1>14, <2>1, <3>1, <3>2, <3>3 DEF s4
  <2>2. CASE ~IsInner(h3, n)
    <3>1. h3 # Fault /\ ~here /\ ~old /\ i # half + 1
      <4> HIDE DEF h1, h2, h3, h4, here, old, i, half
      <4> QED
        BY <1>12, <1>16, <1>17, <1>21, <2>2
    <3>2. h1 = heap /\ i = local.i
      BY <3>1
    <3>3. h2 = h1
      BY <3>1
    <3>4. h4 = h3 /\ h3[n].slotsinuse = h2[n].slotsinuse
      <4> HIDE DEF h2, h3, h4, i, half
      <4> QED
        BY <1>3, <1>6, <1>16, <3>1 DEF Grows
    <3>5. h4[n].slotsinuse = heap[n].slotsinuse
      <4> HIDE DEF h1, h2, h3, h4
      <4> QED
        BY <3>2, <3>3, <3>4
    <3>6. local.i <= half + 1 => heap[n].slotsinuse >= (IF local.slot = local.i THEN local.i ELSE 1)
      BY <1>1 DEF SplitCount
    <3>7. i < half + 1 => local.slot # i
      BY <3>1
    <3> HIDE DEF h1, h2, h3, h4, half, here, i
    <3> QED
      BY <1>3, <3>1, <3>2, <3>5, <3>6, <3>7
  <2> QED
    BY <2>1, <2>2
<1>22. h4 # Fault => SplitCount(h4, l)
  <2> HIDE DEF h4, l, i, p
  <2> QED
    BY <1>3, <1>18, <1>19, <1>20, <1>21 DEF SplitCount
<1>23. Go(h4, "split_parent", l)
  BY Zenon DEF SplitParentLoop
<1> HIDE DEF h4, l
<1> QED
  BY <1>1, <1>17, <1>22, <1>23, GoFills DEF InsertSteps

\* The steps of a deletion are not taken: no deletion is under way.
LEMMA NothingIsDeleted ==
    ASSUME InsertInv, NEW junk
    PROVE  /\ ~DeletePair /\ ~DeletePairAbsent /\ ~Erase(junk) /\ ~EraseAbsent(junk)
           /\ ~BalanceNothing /\ ~MergeLeaf /\ ~MergeLeafLoop(junk) /\ ~MergeLeafEnd
           /\ ~BorrowFromPrev(junk) /\ ~BorrowFromNext(junk)
           /\ ~DeleteChild /\ ~ShiftChild /\ ~ShiftLastChild /\ ~CollapseRoot
           /\ ~RebalanceNothing /\ ~MergeIntoNext /\ ~MergeIntoNextLoop /\ ~MergeIntoPrev
           /\ ~MergeIntoPrevLoop /\ ~MergeInnerEnd /\ ~RedistributeFromNext
<1>1. pc \in InsertSteps
  BY DEF InsertInv, Filled
<1>2. /\ pc # "delete_pair" /\ pc # "erase" /\ pc # "balance" /\ pc # "merge_leaf"
      /\ pc # "delete_inner" /\ pc # "shift_children" /\ pc # "rebalance"
      /\ pc # "merge_next" /\ pc # "merge_prev"
  BY <1>1 DEF InsertSteps
<1>3. ~DeletePair /\ ~DeletePairAbsent /\ ~Erase(junk) /\ ~EraseAbsent(junk)
  BY <1>2, Zenon DEF DeletePair, DeletePairAbsent, Erase, EraseAbsent
<1>4. ~BalanceNothing /\ ~MergeLeaf /\ ~MergeLeafLoop(junk) /\ ~MergeLeafEnd
  BY <1>2, Zenon DEF BalanceNothing, MergeLeaf, MergeLeafLoop, MergeLeafEnd, Unbalanced
<1>5. ~BorrowFromPrev(junk) /\ ~BorrowFromNext(junk)
  BY <1>2, Zenon DEF BorrowFromPrev, BorrowFromNext, Borrows, Unbalanced
<1>6. ~DeleteChild /\ ~ShiftChild /\ ~ShiftLastChild /\ ~CollapseRoot /\ ~RebalanceNothing
  BY <1>2, Zenon DEF DeleteChild, ShiftChild, ShiftLastChild, CollapseRoot, RebalanceNothing
<1>7. ~MergeIntoNext /\ ~MergeIntoNextLoop /\ ~MergeIntoPrev /\ ~MergeIntoPrevLoop
  BY <1>2, Zenon DEF MergeIntoNext, MergeIntoNextLoop, MergeIntoPrev, MergeIntoPrevLoop,
     Underflowing
<1>8. ~MergeInnerEnd /\ ~RedistributeFromNext
  BY <1>2, Zenon DEF MergeInnerEnd, RedistributeFromNext, Underflowing
<1> QED
  BY <1>3, <1>4, <1>5, <1>6, <1>7, <1>8

\* Every step of a workload without deletions keeps the nodes within their arrays.
LEMMA NextFills ==
    ASSUME InsertInv, Erases = {}, DeletePairs = {}, Next
    PROVE  Filled'
<1>1. CASE Calls
  BY <1>1, CallsFill
<1>2. ASSUME Undefined \/ Stopped PROVE Filled'
  <2>1. pc' = "undefined" /\ UNCHANGED <<heap, call, local>>
    BY <1>2 DEF Undefined, Stopped, vars
  <2> QED
    BY <2>1 DEF InsertInv, Filled, InsertSteps
<1>3. CASE Steps
  <2>1. CASE FindChild \/ FindNextLeaf \/ FindLeaf \/ Get
    BY <2>1, FindFills
  <2>2. CASE SplitFullLeaf \/ NewRoot \/ InsertInParent
    BY <2>2, SplitFullLeafFills, NewRootFills, InsertInParentFills
  <2>3. CASE SplitParent \/ SplitParentLoop \/ SplitParentEnd
    BY <2>3, SplitParentFills, SplitParentLoopFills, SplitParentEndFills
  <2>4. ASSUME NEW junk \in Indeterminate, InsertPair(junk) \/ InsertDuplicate(junk)
        PROVE  Filled'
    BY <2>4, InsertPairFills
  <2>5. CASE Undefined
    BY <2>5, <1>2
  <2> QED
    BY <1>3, <2>1, <2>2, <2>3, <2>4, <2>5, NothingIsDeleted, Zenon DEF Steps
<1> QED
  BY <1>1, <1>2, <1>3 DEF Next

\* A tree that is only inserted into and searched never stores more into a node than its
\* arrays hold, for every order of the keys, repeated ones included: insertleafpair is
\* only reached below isfull, insertinnernodepair below the split test of
\* insert_in_parent, and the loop of the split neither overfills the halves nor takes a
\* key from an empty one, although the keys it places may be the wrong ones.
THEOREM InsertionsFit ==
    ASSUME Erases = {}, DeletePairs = {}
    PROVE  Spec => []CapacityRespected
<1>1. Init => InsertInv
  <2> SUFFICES ASSUME Init PROVE InsertInv
    OBVIOUS
  <2>1. TypeInv
    BY InitTypes
  <2>2. Filled
    BY DEF Init, Filled, Within, InsertSteps, NoCall, Fault
  <2> QED
    BY <2>1, <2>2 DEF InsertInv
<1>2. InsertInv /\ [Next]_vars => InsertInv'
  <2>1. ASSUME InsertInv, Next PROVE InsertInv'
    <3>1. TypeInv' /\ Filled'
      BY <2>1, NextTypes, NextFills DEF InsertInv
    <3> QED
      BY <3>1 DEF InsertInv
  <2>2. ASSUME InsertInv, UNCHANGED vars PROVE InsertInv'
    BY <2>2 DEF vars, InsertInv, TypeInv, TypeOK, Standing, Filled, SplitCount
  <2> QED
    BY <2>1, <2>2
<1>3. InsertInv => CapacityRespected
  BY DEF InsertInv, Filled, Within, Room, CapacityRespected, Live
<1> QED
  BY <1>1, <1>2, <1>3, PTL DEF Spec

-----------------------------------------------------------------------------
\* The root of a tree: live, flagged, without a parent, and nobody's child.
Rooted(h, r) ==
    /\ Live(h, r) /\ h[r].isrootnode /\ h[r].parent = NULL
    /\ \A m \in NodeIds : IsInner(h, m) => \A i \in ChildIndex : h[m].firstChild[i] # r

\* What a helper may do to h: the root r stays one.
KeepsRoot(h, g, r) == g \in Edits(h) /\ (g # Fault /\ Rooted(h, r) => Rooted(g, r))

\* A root stays one if no flag is changed, nor its parent, and it is no new child.
LEMMA RootKept ==
    ASSUME NEW h \in Heap, NEW g \in Edits(h), NEW r,
           \A m \in NodeIds : h[m] # Free =>
               /\ g[m].isrootnode = h[m].isrootnode
               /\ m = r => g[m].parent = h[m].parent
               /\ IsInner(h, m) => \A i \in ChildIndex :
                     g[m].firstChild[i] = r => \E j \in ChildIndex : h[m].firstChild[j] = r
    PROVE  KeepsRoot(h, g, r)
<1> SUFFICES ASSUME g # Fault, Rooted(h, r) PROVE Rooted(g, r)
  BY DEF KeepsRoot
<1>1. Live(g, r) /\ g[r].isrootnode /\ g[r].parent = NULL
  BY EditsKeep DEF Rooted, Live
<1>2. ASSUME NEW m \in NodeIds, IsInner(g, m), NEW i \in ChildIndex PROVE g[m].firstChild[i] # r
  <2>1. IsInner(h, m) /\ h[m] # Free
    BY <1>2, EditsKeep DEF IsInner, Live
  <2> QED
    BY <2>1 DEF Rooted
<1> QED
  BY <1>1, <1>2 DEF Rooted

\* Doing nothing, and faulting, keep the root.
LEMMA NothingKeepsRoot ==
    ASSUME NEW h \in Heap, NEW r
    PROVE  KeepsRoot(h, h, r) /\ KeepsRoot(h, Fault, r)
  BY Unedited DEF KeepsRoot

\* Helpers compose.
LEMMA KeepsRootCompose ==
    ASSUME NEW h \in Heap, NEW g, NEW f, NEW r, KeepsRoot(h, g, r), KeepsRoot(g, f, r)
    PROVE  KeepsRoot(h, f, r)
<1>1. g \in Heap /\ f \in Edits(h)
  BY EditsCompose DEF KeepsRoot, Edits
<1>2. f # Fault => g # Fault
  BY FaultStays DEF KeepsRoot
<1> QED
  BY <1>1, <1>2 DEF KeepsRoot

\* A key of an inner node.
LEMMA KeyKeepsRoot ==
    ASSUME NEW h \in Heap, NEW n, NEW k \in KeySlot, NEW index, NEW r
    PROVE  KeepsRoot(h, insertInnerNodeKeyAt(h, n, k, index), r)
<1> DEFINE g == insertInnerNodeKeyAt(h, n, k, index)
           u == h[n].slotsinuse
<1>1. CASE IsInner(h, n) /\ index \in InnerIndex /\ ~(index < u /\ u >= NodeSlots)
  <2>1. h[n] \in innerNode /\ n \in NodeIds
    BY <1>1, LiveTypes
  <2>2. g = [h EXCEPT ![n].keySlots = ShiftIn(@, u, index, k), ![n].slotsinuse = Inc(@)]
    BY <1>1 DEF insertInnerNodeKeyAt
  <2>3. \A m \in NodeIds : m # n => g[m] = h[m]
    BY <2>2 DEF Heap
  <2>4. /\ g[n].isrootnode = h[n].isrootnode /\ g[n].parent = h[n].parent
        /\ g[n].firstChild = h[n].firstChild
    BY <2>1, <2>2 DEF Heap, innerNode
  <2>5. g \in Edits(h)
    BY InsertKeyEdits
  <2> HIDE DEF g
  <2> QED
    BY <2>3, <2>4, <2>5, RootKept DEF g
<1>2. CASE ~(IsInner(h, n) /\ index \in InnerIndex /\ ~(index < u /\ u >= NodeSlots))
  <2>1. g = h \/ g = Fault
    BY <1>2 DEF insertInnerNodeKeyAt
  <2> HIDE DEF g
  <2> QED
    BY <2>1, NothingKeepsRoot DEF g
<1> QED
  BY <1>1, <1>2

\* The chain of leaves.
LEMMA LinkKeepsRoot ==
    ASSUME NEW h \in Heap, NEW a, NEW b, NEW r
    PROVE  KeepsRoot(h, LinkLeaves(h, a, b), r)
<1> DEFINE g == LinkLeaves(h, a, b)
<1>1. CASE IsLeaf(h, a) /\ IsLeaf(h, b)
  <2>1. h[a] \in leafNode /\ h[b] \in leafNode /\ a \in NodeIds /\ b \in NodeIds
    BY <1>1, LiveTypes
  <2>2. g = [h EXCEPT ![a].nextLeaf = b, ![b].prevLeaf = a]
    BY <1>1 DEF LinkLeaves
  <2>3. \A m \in NodeIds : m \notin {a, b} => g[m] = h[m]
    BY <2>2 DEF Heap
  <2>4. \A m \in {a, b} : g[m].isrootnode = h[m].isrootnode /\ g[m].parent = h[m].parent
    BY <2>1, <2>2 DEF Heap, leafNode
  <2>5. g \in Edits(h) /\ \A m \in {a, b} : ~IsInner(h, m)
    BY <1>1, LinkLeavesEdits DEF IsLeaf, IsInner
  <2> HIDE DEF g
  <2> QED
    BY <2>3, <2>4, <2>5, RootKept DEF g
<1>2. CASE ~(IsLeaf(h, a) /\ IsLeaf(h, b))
  BY <1>2, NothingKeepsRoot DEF LinkLeaves
<1> QED
  BY <1>1, <1>2

\* Linking siblings leaves the root alone.
LEMMA LinkSiblingsKeepsRoot ==
    ASSUME NEW h \in Heap, NEW dest, NEW index, NEW r
    PROVE  KeepsRoot(h, LinkWithSiblings(h, dest, index), r)
<1> DEFINE c  == h[dest].firstChild
           h1 == IF index - 1 >= 0 THEN LinkLeaves(h, c[index - 1], c[index]) ELSE h
           h2 == LinkLeaves(h1, c[index], c[index + 1])
<1>1. KeepsRoot(h, h1, r) /\ h1 \in Heap
  BY LinkKeepsRoot, NothingKeepsRoot DEF KeepsRoot, Edits
<1>2. LinkWithSiblings(h, dest, index) = IF index + 1 < h[dest].numChildren THEN h2 ELSE h1
  BY DEF LinkWithSiblings
<1> HIDE DEF h1
<1>3. KeepsRoot(h1, h2, r)
  BY <1>1, LinkKeepsRoot
<1> HIDE DEF h2
<1> QED
  BY <1>1, <1>2, <1>3, KeepsRootCompose

\* A child other than the root.
LEMMA ChildKeepsRoot ==
    ASSUME NEW h \in Heap, NEW dest, NEW n, NEW index, NEW r, n # r
    PROVE  KeepsRoot(h, insertInnerNodeChildAt(h, dest, n, index), r)
<1> DEFINE c  == h[dest].numChildren
           f  == ShiftIn(h[dest].firstChild, c, index, n)
           h1 == [h EXCEPT ![dest].firstChild  = ShiftIn(@, h[dest].numChildren, index, n),
                           ![dest].numChildren = @ + 1,
                           ![n].parent         = dest]
           g  == insertInnerNodeChildAt(h, dest, n, index)
<1>1. CASE IsInner(h, dest) /\ index \in ChildIndex /\ Live(h, n) /\ ~(index < c /\ c > NodeSlots)
  <2>1. /\ h[dest] \in innerNode /\ dest \in NodeIds /\ n \in NodeIds /\ h[n] \in node
        /\ h[dest].firstChild \in [ChildIndex -> Pointer]
    BY <1>1, LiveTypes, NodeTypes DEF node, innerNode
  <2>2. h1 \in Edits(h) /\ h1 \in Heap
    BY <1>1, AddChildEdits DEF Edits
  <2>3. \A m \in NodeIds : /\ m \notin {dest, n} => h1[m] = h[m]
                           /\ m # n /\ m = dest => h1[m].parent = h[m].parent
    BY <2>1 DEF Heap, innerNode
  <2>4. \A m \in {dest, n} : h1[m].isrootnode = h[m].isrootnode
    BY <2>1 DEF Heap, node, leafNode, innerNode
  <2>5. h1[dest].firstChild = f
    BY <2>1 DEF Heap, innerNode
  <2>6. n # dest /\ IsInner(h, n) => h1[n].firstChild = h[n].firstChild
    <3>1. IsInner(h, n) => h[n] \in innerNode
      BY LiveTypes
    <3> QED
      BY <2>1, <3>1 DEF Heap, innerNode
  <2>7. \A i \in ChildIndex : f[i] = r => \E j \in ChildIndex : h[dest].firstChild[j] = r
    <3>1. SUFFICES ASSUME NEW i \in ChildIndex
                   PROVE  f[i] = n \/ \E j \in ChildIndex : f[i] = h[dest].firstChild[j]
      OBVIOUS
    <3>2. f[i] = IF i = index THEN n
                 ELSE IF index < i /\ i <= c THEN h[dest].firstChild[i - 1] ELSE h[dest].firstChild[i]
      BY <2>1 DEF ShiftIn
    <3>3. index < i => i - 1 \in ChildIndex
      BY <1>1, SlotsAssumption DEF ChildIndex
    <3> HIDE DEF f
    <3> QED
      BY <3>2, <3>3
  <2>8. KeepsRoot(h, h1, r)
    <3> HIDE DEF h1, f
    <3> QED
      BY <2>1, <2>2, <2>3, <2>4, <2>5, <2>6, <2>7, RootKept
  <2>9. g = IF h[n].isleafnode THEN LinkWithSiblings(h1, dest, index) ELSE h1
    BY <1>1 DEF insertInnerNodeChildAt
  <2>10. KeepsRoot(h, LinkWithSiblings(h1, dest, index), r)
    <3> HIDE DEF h1
    <3>1. KeepsRoot(h1, LinkWithSiblings(h1, dest, index), r)
      BY <2>2, LinkSiblingsKeepsRoot
    <3> QED
      BY <2>8, <3>1, KeepsRootCompose
  <2> HIDE DEF h1, g
  <2> QED
    BY <2>8, <2>9, <2>10 DEF g
<1>2. CASE ~(IsInner(h, dest) /\ index \in ChildIndex /\ Live(h, n) /\ ~(index < c /\ c > NodeSlots))
  <2>1. g = h \/ g = Fault
    BY <1>2 DEF insertInnerNodeChildAt
  <2> HIDE DEF g
  <2> QED
    BY <2>1, NothingKeepsRoot DEF g
<1> QED
  BY <1>1, <1>2

\* The pairs that the loop of the split places; insertinnernodepair.
LEMMA PairsKeepRoot ==
    ASSUME NEW h \in Heap, NEW dest, NEW at, NEW r
    PROVE  /\ \A k \in KeySlot : \A N, M : N # r /\ M # r =>
                 /\ KeepsRoot(h, PlaceNewPair(h, dest, k, N, M, at), r)
                 /\ KeepsRoot(h, insertinnernodepair(h, dest, k, N), r)
           /\ \A p \in node : \A i : p.firstChild[i] # r =>
                 KeepsRoot(h, PlaceOldPair(h, dest, p, i, at), r)
<1>1. ASSUME NEW k \in KeySlot, NEW c, NEW i, NEW j, c # r
      PROVE  KeepsRoot(h, insertInnerNodeChildAt(insertInnerNodeKeyAt(h, dest, k, i), dest, c, j), r)
  <2> DEFINE h1 == insertInnerNodeKeyAt(h, dest, k, i)
             h2 == insertInnerNodeChildAt(h1, dest, c, j)
  <2>1. KeepsRoot(h, h1, r) /\ h1 \in Heap
    BY KeyKeepsRoot, InsertKeyEdits DEF Edits
  <2> HIDE DEF h1
  <2>2. KeepsRoot(h1, h2, r)
    BY <1>1, <2>1, ChildKeepsRoot
  <2> HIDE DEF h2
  <2>3. KeepsRoot(h, h2, r)
    BY <2>1, <2>2, KeepsRootCompose
  <2> QED
    BY <2>3 DEF h1, h2
<1>2. ASSUME NEW k \in KeySlot, NEW N, NEW M, N # r, M # r
      PROVE  /\ KeepsRoot(h, PlaceNewPair(h, dest, k, N, M, at), r)
             /\ KeepsRoot(h, insertinnernodepair(h, dest, k, N), r)
  <2> DEFINE h2 == insertInnerNodeChildAt(insertInnerNodeKeyAt(h, dest, k, at), dest, N, at)
             h3 == insertInnerNodeChildAt(h2, dest, M, at + 1)
  <2>1. KeepsRoot(h, h2, r) /\ h2 \in Heap
    BY <1>1, <1>2 DEF KeepsRoot, Edits
  <2>2. PlaceNewPair(h, dest, k, N, M, at) = h3
    BY DEF PlaceNewPair
  <2> HIDE DEF h2
  <2>3. KeepsRoot(h2, h3, r)
    BY <1>2, <2>1, ChildKeepsRoot
  <2> HIDE DEF h3
  <2>4. KeepsRoot(h, PlaceNewPair(h, dest, k, N, M, at), r)
    BY <2>1, <2>2, <2>3, KeepsRootCompose
  <2> QED
    BY <1>1, <1>2, <2>4 DEF insertinnernodepair
<1>3. ASSUME NEW p \in node, NEW i, p.firstChild[i] # r
      PROVE  KeepsRoot(h, PlaceOldPair(h, dest, p, i, at), r)
  <2>1. KeyAt(p, i) \in KeySlot
    BY KeyAtTypes
  <2> QED
    BY <1>1, <1>3, <2>1 DEF PlaceOldPair
<1> QED
  BY <1>2, <1>3

\* The count of children, and the count of keys, of a node.
LEMMA CountsKeepRoot ==
    ASSUME NEW h \in Heap, NEW n, NEW p, NEW i, NEW r
    PROVE  /\ KeepsRoot(h, AddToChildren(h, n, -1), r)
           /\ KeepsRoot(h, CutFirstHalf(h, n, p, i), r)
<1> DEFINE g == AddToChildren(h, n, -1)
           f == [h EXCEPT ![n].slotsinuse = Dec(@)]
<1>1. ~IsInner(h, n) => g = Fault /\ CutFirstHalf(h, n, p, i) = Fault
  BY DEF AddToChildren, CutFirstHalf
<1>2. CASE IsInner(h, n)
  <2>1. h[n] \in innerNode /\ n \in NodeIds
    BY <1>2, LiveTypes
  <2>2. g = [h EXCEPT ![n].numChildren = @ + -1]
    BY <1>2 DEF AddToChildren
  <2>3. \A m \in NodeIds : m # n => g[m] = h[m] /\ f[m] = h[m]
    BY <2>2 DEF Heap
  <2>4. /\ g[n].isrootnode = h[n].isrootnode /\ g[n].parent = h[n].parent
        /\ g[n].firstChild = h[n].firstChild
    BY <2>1, <2>2 DEF Heap, innerNode
  <2>5. /\ f[n].isrootnode = h[n].isrootnode /\ f[n].parent = h[n].parent
        /\ f[n].firstChild = h[n].firstChild
    BY <2>1 DEF Heap, innerNode
  <2>6. g \in Edits(h) /\ f \in Edits(h) /\ f \in Heap
    <3>1. g \in Edits(h)
      BY AddToChildrenEdits
    <3> DEFINE v == [h[n] EXCEPT !.slotsinuse = Dec(@)]
    <3>2. Dec(h[n].slotsinuse) \in UShort
      BY <2>1, CountTypes, NodeTypes DEF node
    <3>3. v \in innerNode
      BY <2>1, <3>2, InnerUpdates
    <3>4. f = [h EXCEPT ![n] = v]
      BY <2>1 DEF Heap
    <3> HIDE DEF f, v, g
    <3> QED
      BY <1>2, <3>1, <3>3, <3>4, PutInner DEF Edits
  <2>8. KeepsRoot(h, g, r)
    <3> HIDE DEF g, f
    <3> QED
      BY <2>3, <2>4, <2>6, RootKept
  <2>9. KeepsRoot(h, f, r)
    <3> HIDE DEF g, f
    <3> QED
      BY <2>3, <2>5, <2>6, RootKept
  <2>10. KeepsRoot(h, CutFirstHalf(h, n, p, i), r)
    <3> DEFINE h2 == LinkLeaves(f, p.firstChild[i - 1], p.firstChild[i])
    <3>1. CutFirstHalf(h, n, p, i) \in {Fault, f, h2}
      BY DEF CutFirstHalf
    <3> HIDE DEF f
    <3>2. KeepsRoot(f, h2, r)
      BY <2>6, LinkKeepsRoot
    <3> HIDE DEF h2
    <3>3. KeepsRoot(h, h2, r)
      BY <2>9, <3>2, KeepsRootCompose
    <3> QED
      BY <2>9, <3>1, <3>3, NothingKeepsRoot
  <2> QED
    BY <2>8, <2>10
<1> QED
  BY <1>1, <1>2, NothingKeepsRoot

\* A node is allocated where no pointer leads; a node other than the root is freed.
LEMMA NewKeepsRoot ==
    ASSUME NEW h \in Heap, NEW n \in NodeIds, h[n] = Free, NEW v \in node, NEW r,
           Rooted(h, r), v.isleafnode \/ v.firstChild = [i \in ChildIndex |-> NULL]
    PROVE  Rooted(new(h, n, v), r)
<1> DEFINE g == new(h, n, v)
<1>1. /\ g[n] = v /\ v # Free /\ \A m \in NodeIds \ {n} : g[m] = h[m]
  BY NewInHeap DEF Live
<1>2. r \in NodeIds /\ r # n /\ r # NULL
  BY NodeIdsAssumption DEF Rooted, Live
<1> HIDE DEF g
<1>3. Live(g, r) /\ g[r].isrootnode /\ g[r].parent = NULL
  BY <1>1, <1>2 DEF Rooted, Live
<1>4. ASSUME NEW m \in NodeIds, IsInner(g, m), NEW i \in ChildIndex PROVE g[m].firstChild[i] # r
  <2>1. CASE m = n
    BY <1>1, <1>2, <1>4, <2>1 DEF IsInner
  <2>2. CASE m # n
    BY <1>1, <1>4, <2>2 DEF IsInner, Live, Rooted
  <2> QED
    BY <2>1, <2>2
<1> QED
  BY <1>3, <1>4 DEF Rooted, g

-----------------------------------------------------------------------------
\* While a split goes up: its nodes are there, and the root is none of the new ones, nor
\* among the old ones unless the split has reached the top.
RootApart(h, l, r) ==
    /\ \A m \in {l.N, l.Nprime, l.n} \cup l.leaked : Live(h, m)
    /\ l.N # r /\ l.Nprime # r
    /\ r \in {l.n} \cup l.leaked => l.parent = NULL
HalvesApart(h, l, r) == \A m \in {l.pNode, l.ppNode} : Live(h, m) /\ m # r

RootSafe ==
    /\ root = NULL => pc \in {"idle", "undefined"}
    /\ root # NULL /\ pc # "undefined" =>
          /\ Rooted(heap, root)
          /\ pc \in {"insert_in_parent", "split_parent"} => RootApart(heap, local, root)
          /\ pc = "split_parent" => HalvesApart(heap, local, root)

\* The inductive invariant behind the validity of the root.
RootInv == InsertInv /\ RootSafe

\* A step with the same root keeps it if the heap it makes does, or it is undefined.
LEMMA GoKeepsRoot ==
    ASSUME RootInv, root # NULL, root' = root, NEW g, NEW p, NEW l, Go(g, p, l),
           g # Fault => /\ Rooted(g, root)
                        /\ p \in {"insert_in_parent", "split_parent"} => RootApart(g, l, root)
                        /\ p = "split_parent" => HalvesApart(g, l, root)
    PROVE  RootSafe'
  BY DEF RootSafe, Go

\* A call is under way only in a tree with a root.
LEMMA RootThere ==
    ASSUME RootInv, pc \notin {"idle", "undefined"}
    PROVE  root # NULL /\ Rooted(heap, root) /\ heap \in Heap
  BY Globals DEF RootInv, RootSafe, InsertInv

\* What edits leave of the nodes of a split.
LEMMA ApartKept ==
    ASSUME NEW h \in Heap, NEW g \in Edits(h), g # Fault, NEW l, NEW r
    PROVE  /\ RootApart(h, l, r) => RootApart(g, l, r)
           /\ HalvesApart(h, l, r) => HalvesApart(g, l, r)
  BY EditsKeep DEF RootApart, HalvesApart

\* malloc returns an address no node leads to.
LEMMA FirstUnused ==
    ASSUME UnusedIds # {}
    PROVE  /\ FirstId \in NodeIds /\ heap[FirstId] = Free
           /\ \A m \in NodeIds : IsInner(heap, m) =>
                 \A i \in ChildIndex : heap[m].firstChild[i] # FirstId
<1>1. UnusedIds \in SUBSET Nat
  BY NodeIdsAssumption DEF UnusedIds
<1>2. FirstId \in UnusedIds
  BY <1>1, LeastIsMember DEF FirstId
<1>3. ASSUME NEW m \in NodeIds, IsInner(heap, m), NEW i \in ChildIndex
      PROVE  heap[m].firstChild[i] \in PointedTo(heap, NodeIds)
  <2>1. heap[m].firstChild[i] \in PointersOf(heap[m])
    BY <1>3 DEF PointersOf, IsInner
  <2> QED
    BY <1>3, <2>1 DEF PointedTo, IsInner, Live
<1> HIDE DEF FirstId
<1> QED
  BY <1>2, <1>3 DEF UnusedIds

\* The first pair makes a root.
LEMMA CallsKeepRoot ==
    ASSUME RootInv, Erases = {}, DeletePairs = {}, Calls
    PROVE  RootSafe'
<1>1. PICK k \in Keys :
          \/ \E d \in PayloadsOf[k] : MakeRoot(k, d) \/ CallInsert(k, d)
          \/ \E d \in Payloads : CallDeletePair(k, d)
          \/ CallErase(k) \/ CallGet(k)
          \/ \E op \in {"get", "erase", "delete_pair"} : CallOnEmptyTree(op, k)
  BY DEF Calls
<1>2. ASSUME NEW d \in PayloadsOf[k], MakeRoot(k, d) PROVE RootSafe'
  <2> DEFINE l == FirstId
             r == [NewLeaf EXCEPT !.isrootnode = TRUE]
             h == new(heap, l, r)
             g == insertleafAt(h, l, k, d, 0)
  <2>1. UnusedIds # {}
    <3>1. Cardinality(UnusedIds) >= Reserve /\ Reserve \in Nat \ {0}
      BY <1>2, WorkloadAssumption DEF MakeRoot
    <3>2. UnusedIds = {} => Cardinality(UnusedIds) = 0
      BY FS_EmptySet, Zenon
    <3> QED
      BY <3>1, <3>2
  <2>2. r \in leafNode /\ r \in node /\ r.isleafnode /\ r.isrootnode /\ r.parent = NULL
    BY NewNodes DEF node, leafNode, NewLeaf
  <2>3. heap \in Heap /\ l \in NodeIds
    BY <2>1, FirstUnused DEF RootInv, InsertInv, TypeInv, TypeOK
  <2>4. h \in Heap /\ IsLeaf(h, l) /\ h[l] = r /\ \A m \in NodeIds \ {l} : h[m] = heap[m]
    <3> HIDE DEF r, l
    <3> QED
      BY <2>2, <2>3, NewInHeap DEF IsLeaf
  <2>5. 0 \in LeafIndex /\ k \in KeySlot /\ d \in DataSlot
    BY Data, SlotsAssumption DEF LeafIndex
  <2>6. g[l].isrootnode = r.isrootnode /\ g[l].parent = r.parent
    <3> HIDE DEF l, h, r
    <3> QED
      BY <2>2, <2>3, <2>4 DEF insertleafAt, Heap, leafNode
  <2>7. g \in Edits(h) /\ \A m \in NodeIds \ {l} : g[m] = h[m]
    <3> HIDE DEF l, h
    <3> QED
      BY <2>4, <2>5, InsertAtEdits
  <2>8. \A m \in NodeIds : IsInner(heap, m) =>
            \A i \in ChildIndex : heap[m].firstChild[i] # l
    BY <2>1, FirstUnused
  <2>9. Return(g, "ok", EmptyData) /\ root' = l
    BY <1>2 DEF MakeRoot
  <2> HIDE DEF g, h, l, r
  <2>10. g # Fault => Rooted(g, l)
    <3> SUFFICES ASSUME g # Fault PROVE Rooted(g, l)
      OBVIOUS
    <3>1. IsLeaf(g, l) /\ \A m \in NodeIds \ {l} : g[m] = heap[m]
      BY <2>4, <2>7, EditsKeep
    <3>2. \A m \in NodeIds : IsInner(g, m) => m # l /\ IsInner(heap, m)
      BY <3>1 DEF IsInner, IsLeaf, Live
    <3> QED
      BY <2>2, <2>6, <2>8, <3>1, <3>2 DEF Rooted, IsLeaf
  <2>11. l # NULL
    BY <2>3, NodeIdsAssumption
  <2> QED
    BY <2>9, <2>10, <2>11 DEF Return, Go, RootSafe
<1>3. ASSUME NEW op, NEW d, root # NULL, pc = "idle", Start(op, k, d) PROVE RootSafe'
  BY <1>3 DEF Start, RootInv, RootSafe
<1>4. ASSUME NEW op, CallOnEmptyTree(op, k) PROVE RootSafe'
  BY <1>4 DEF CallOnEmptyTree, RootInv, RootSafe
<1>5. ~CallErase(k) /\ \A d : ~CallDeletePair(k, d)
  BY DEF CallErase, CallDeletePair, MayErase
<1>6. ASSUME NEW d \in PayloadsOf[k], CallInsert(k, d) PROVE RootSafe'
  BY <1>3, <1>6 DEF CallInsert
<1>7. CASE CallGet(k)
  BY <1>3, <1>7 DEF CallGet
<1> QED
  BY <1>1, <1>2, <1>4, <1>5, <1>6, <1>7

\* find and get write nothing.
LEMMA FindKeepsRoot ==
    ASSUME RootInv, FindChild \/ FindNextLeaf \/ FindLeaf \/ Get
    PROVE  RootSafe'
<1>1. CASE FindChild \/ FindNextLeaf
  BY <1>1 DEF FindChild, FindNextLeaf, RootInv, RootSafe
<1>2. CASE FindLeaf
  <2>1. call.op \in {"insert", "get", "none"}
    BY DEF RootInv, InsertInv, Filled
  <2>2. call \in Calling
    BY <1>2 DEF FindLeaf, RootInv, InsertInv, TypeInv, Standing
  <2> QED
    BY <1>2, <2>1, <2>2, CallFields DEF FindLeaf, RootInv, RootSafe, Ops
<1>3. CASE Get
  <2>1. (\E code, d : Return(heap, code, d)) /\ root' = root /\ pc = "get"
    BY <1>3, Zenon DEF Get
  <2> QED
    BY <2>1, GoKeepsRoot, RootThere DEF Return
<1> QED
  BY <1>1, <1>2, <1>3

\* A pair goes into a leaf.
LEMMA InsertPairKeepsRoot ==
    ASSUME RootInv, NEW junk, InsertPair(junk) \/ InsertDuplicate(junk)
    PROVE  RootSafe'
<1> DEFINE l == local.at
           g == insertleafpair(heap, l, call.key, call.data, junk)
           index == findKeyLoc(heap[l], call.key)
<1>1. /\ pc = "insert" /\ root' = root /\ TypeInv /\ pc \in Ops /\ heap \in Heap
      /\ root # NULL /\ Rooted(heap, root)
  <2>1. pc = "insert" /\ root' = root /\ TypeInv
    BY DEF RootInv, InsertInv, InsertPair, InsertDuplicate
  <2> QED
    BY <2>1, RootThere DEF Ops
<1>2. CASE InsertPair(junk)
  <2>1. IsLeaf(heap, l) /\ l \in NodeIds /\ call.key \in KeySlot /\ call.data \in DataSlot
    BY <1>1, AtOps, CallFields
  <2>2. g = insertleafAt(heap, l, call.key, call.data, index)
    <3>1. PairResult(heap, l, call.key, call.data, junk) = "inserted"
      BY <1>2 DEF InsertPair
    <3> QED
      BY <3>1 DEF insertleafpair
  <2>3. heap[l] \in leafNode
    BY <1>1, <2>1, LiveTypes
  <2>4. /\ g[l].isrootnode = heap[l].isrootnode /\ g[l].parent = heap[l].parent
        /\ \A m \in NodeIds \ {l} : g[m] = heap[m]
    <3> HIDE DEF l, index, g
    <3> QED
      BY <1>1, <2>1, <2>2, <2>3 DEF insertleafAt, Heap, leafNode
  <2>5. g \in Edits(heap)
    BY <1>1, <2>1, InsertLeafPairEdits
  <2>6. Return(g, "ok", EmptyData)
    BY <1>2 DEF InsertPair
  <2> HIDE DEF g, l
  <2>7. ~IsInner(heap, l)
    BY <2>1 DEF IsInner, IsLeaf
  <2>8. KeepsRoot(heap, g, root)
    BY <1>1, <2>4, <2>5, <2>7, RootKept
  <2> QED
    BY <1>1, <2>6, <2>8, GoKeepsRoot DEF Return, KeepsRoot
<1>3. CASE InsertDuplicate(junk)
  BY <1>1, <1>3, GoKeepsRoot DEF InsertDuplicate, Return
<1> QED
  BY <1>2, <1>3

\* The halves of a leaf are new nodes.
LEMMA SplitFullLeafKeepsRoot ==
    ASSUME RootInv, SplitFullLeaf
    PROVE  RootSafe'
<1> DEFINE n     == local.at
           ln    == FirstId
           lp    == SecondId
           split == SplitLeaf(heap[n], call.key, call.data)
           rn    == [split.ln EXCEPT !.nextLeaf = lp]
           rp    == [split.lp EXCEPT !.prevLeaf = ln]
           h1    == new(heap, ln, rn)
           g     == new(h1, lp, rp)
           l     == [parent |-> heap[n].parent, N |-> ln, k |-> split.lp.keySlots[0],
                     Nprime |-> lp, n |-> n, leaked |-> {}]
<1>1. /\ TypeInv /\ pc \in Ops /\ heap \in Heap /\ isfull(heap[n]) /\ root' = root
      /\ root # NULL /\ Rooted(heap, root)
  <2>1. pc = "insert" /\ root' = root /\ TypeInv /\ isfull(heap[n])
    BY DEF RootInv, InsertInv, SplitFullLeaf
  <2> QED
    BY <2>1, RootThere DEF Ops
<1>2. /\ ln \in NodeIds /\ lp \in NodeIds /\ ln \in Pointer /\ lp \in Pointer /\ ln # lp
      /\ heap[ln] = Free /\ heap[lp] = Free
  BY Addresses DEF SplitFullLeaf, Pointer
<1>3. /\ heap[n] \in leafNode /\ call.key \in KeySlot /\ call.data \in DataSlot
      /\ IsLeaf(heap, n) /\ n \in NodeIds
  BY <1>1, AtOps, CallFields
<1>4. split.ln \in leafNode /\ split.lp \in leafNode
  BY <1>1, <1>3, SplitLeafTypes
<1>5. rn \in node /\ rp \in node /\ rn.isleafnode /\ rp.isleafnode
  <2> HIDE DEF split, ln, lp
  <2>1. rn \in leafNode /\ rp \in leafNode
    BY <1>2, <1>4, LeafUpdates
  <2> HIDE DEF rn, rp
  <2> QED
    BY <2>1 DEF node, leafNode
<1>6. h1 \in Heap /\ Rooted(h1, root) /\ Live(h1, ln) /\ \A m \in NodeIds \ {ln} : h1[m] = heap[m]
  <2> HIDE DEF rn, ln
  <2> QED
    BY <1>1, <1>2, <1>5, NewInHeap, NewKeepsRoot
<1>7. g \in Heap /\ Rooted(g, root) /\ Live(g, lp) /\ \A m \in NodeIds \ {lp} : g[m] = h1[m]
  <2>1. h1[lp] = Free
    <3> HIDE DEF h1
    <3> QED
      BY <1>2, <1>6
  <2> HIDE DEF h1, rp, lp
  <2> QED
    BY <1>2, <1>5, <1>6, <2>1, NewInHeap, NewKeepsRoot
<1> HIDE DEF h1, g, rn, rp
<1>8. RootApart(g, l, root)
  <2>1. Live(g, ln) /\ Live(g, n) /\ n # lp /\ n # ln
    BY <1>2, <1>3, <1>6, <1>7 DEF Live, IsLeaf
  <2>2. root = n => heap[n].parent = NULL
    BY <1>1 DEF Rooted
  <2>3. ln # root /\ lp # root
    BY <1>1, <1>2 DEF Rooted, Live
  <2> HIDE DEF split, ln, lp, n
  <2> QED
    BY <1>7, <2>1, <2>2, <2>3 DEF RootApart
<1>9. Go(g, "insert_in_parent", l)
  BY DEF SplitFullLeaf, g, h1, rn, rp
<1> HIDE DEF l
<1> QED
  BY <1>1, <1>7, <1>8, <1>9, GoKeepsRoot

\* The end of an insertion frees the nodes that were split, never the root.
LEMMA InsertEndsKeepsRoot ==
    ASSUME RootInv, NEW h \in Heap, InsertEnds(h), h # Fault => Rooted(h, root'),
           root' \notin {local.n} \cup local.leaked
    PROVE  RootSafe'
<1> DEFINE h1     == freeNode(h, local.n)
           unseen == local.leaked \ PointedTo(h1, NodeIds \ local.leaked)
           g      == [n \in NodeIds |-> IF n \in unseen THEN Free ELSE h1[n]]
<1>1. \A m \in NodeIds : g[m] # Free => g[m] = h[m]
  <2> HIDE DEF unseen
  <2> QED
    BY FreeInHeap
<1>2. Return(g, "ok", EmptyData)
  BY DEF InsertEnds
<1>3. ASSUME g # Fault PROVE Rooted(g, root')
  <2>1. h1 # Fault
    BY <1>3 DEF Fault
  <2>2. h # Fault
    <3>1. h = Fault => ~Live(h, local.n)
      BY DEF Live, Fault
    <3> QED
      BY <2>1, <3>1 DEF freeNode
  <2>3. Rooted(h, root') /\ root' \in NodeIds
    BY <2>2 DEF Rooted, Live
  <2>4. g[root'] = h[root']
    <3>1. g[root'] = h1[root']
      BY <2>3
    <3> HIDE DEF g
    <3> QED
      BY <2>1, <2>3, <3>1, FreeInHeap
  <2> HIDE DEF g
  <2>5. \A m \in NodeIds : IsInner(g, m) => IsInner(h, m) /\ g[m] = h[m]
    BY <1>1 DEF IsInner, Live
  <2> QED
    BY <2>3, <2>4, <2>5 DEF Rooted, Live
<1> HIDE DEF g
<1> QED
  BY <1>2, <1>3 DEF Return, Go, RootSafe

\* A new root is nobody's child.
LEMMA NewRootKeepsRoot ==
    ASSUME RootInv, NewRoot
    PROVE  RootSafe'
<1> DEFINE tnode == FirstId
           r     == [NewInner EXCEPT !.isrootnode = TRUE]
           h1    == new(heap, tnode, r)
           h2    == insertInnerNodeKeyAt(h1, tnode, local.k, 0)
           h3    == insertInnerNodeChildAt(h2, tnode, local.N, 0)
           h4    == insertInnerNodeChildAt(h3, tnode, local.Nprime, 1)
<1>1. heap \in Heap /\ local.k \in KeySlot /\ RootApart(heap, local, root)
  <2>1. TypeInv /\ pc = "insert_in_parent"
    BY DEF RootInv, InsertInv, NewRoot
  <2> QED
    BY <2>1, Globals, AtInsertInParent, RootThere DEF RootInv, RootSafe
<1>2. /\ tnode \in NodeIds /\ heap[tnode] = Free
      /\ \A m \in NodeIds : IsInner(heap, m) => \A i \in ChildIndex : heap[m].firstChild[i] # tnode
  BY FirstUnused DEF NewRoot, CanAllocate
<1>3. tnode \notin {local.N, local.Nprime, local.n} \cup local.leaked
  BY <1>1, <1>2 DEF RootApart, Live
<1>4. /\ r \in node /\ r.isrootnode /\ r.parent = NULL
      /\ r.firstChild = [i \in ChildIndex |-> NULL]
  BY NewNodes DEF node, NewInner
<1>5. h1 \in Heap /\ Rooted(h1, tnode)
  <2> HIDE DEF r, tnode
  <2>1. h1 \in Heap /\ h1[tnode] = r /\ Live(h1, tnode)
        /\ \A m \in NodeIds \ {tnode} : h1[m] = heap[m]
    BY <1>1, <1>2, <1>4, NewInHeap
  <2> HIDE DEF h1
  <2>2. NULL # tnode
    BY <1>2, NodeIdsAssumption
  <2>3. ASSUME NEW m \in NodeIds, IsInner(h1, m), NEW i \in ChildIndex
        PROVE  h1[m].firstChild[i] # tnode
    BY <1>2, <1>4, <2>1, <2>2, <2>3 DEF IsInner, Live
  <2> QED
    BY <1>4, <2>1, <2>3 DEF Rooted
<1> HIDE DEF h1
<1>6. KeepsRoot(h1, h2, tnode) /\ h2 \in Heap
  BY <1>1, <1>5, KeyKeepsRoot, InsertKeyEdits DEF Edits
<1> HIDE DEF h2
<1>7. KeepsRoot(h2, h3, tnode) /\ h3 \in Heap
  BY <1>3, <1>6, ChildKeepsRoot, InsertChildEdits DEF Edits
<1> HIDE DEF h3
<1>8. KeepsRoot(h3, h4, tnode) /\ h4 \in Heap
  BY <1>3, <1>7, ChildKeepsRoot, InsertChildEdits DEF Edits
<1>9. InsertEnds(h4) /\ root' = tnode
  BY DEF NewRoot, h1, h2, h3
<1> HIDE DEF h4, tnode
<1>10. KeepsRoot(h1, h4, tnode)
  <2>1. KeepsRoot(h1, h3, tnode)
    BY <1>5, <1>6, <1>7, KeepsRootCompose
  <2> QED
    BY <1>5, <1>8, <2>1, KeepsRootCompose
<1>11. h4 # Fault => Rooted(h4, root')
  BY <1>5, <1>9, <1>10 DEF KeepsRoot
<1> QED
  BY <1>3, <1>8, <1>9, <1>11, InsertEndsKeepsRoot

\* An insertion that finds room in the parent leaves the root a root.
LEMMA InsertInParentKeepsRoot ==
    ASSUME RootInv, InsertInParent
    PROVE  RootSafe'
<1> DEFINE p   == local.parent
           loc == PairLocation(heap[p], local.k)
           h0  == AddToChildren(heap, p, -1)
           h1  == insertinnernodepair(h0, p, local.k, local.N)
           h2  == IF loc >= 1 THEN insertInnerNodeChildAt(h1, p, local.Nprime, loc + 1) ELSE h1
<1>1. /\ heap \in Heap /\ local.k \in KeySlot /\ RootApart(heap, local, root)
      /\ root # NULL /\ Rooted(heap, root) /\ p # NULL
  <2>1. TypeInv /\ pc = "insert_in_parent" /\ IsInner(heap, p)
    BY DEF RootInv, InsertInv, InsertInParent
  <2>2. p # NULL
    BY <2>1, NodeIdsAssumption DEF IsInner, Live
  <2> QED
    BY <2>1, <2>2, Globals, AtInsertInParent, RootThere DEF RootInv, RootSafe
<1>2. local.N # root /\ local.Nprime # root /\ root \notin {local.n} \cup local.leaked
  BY <1>1 DEF RootApart
<1>3. KeepsRoot(heap, h0, root) /\ h0 \in Heap
  BY <1>1, CountsKeepRoot DEF KeepsRoot, Edits
<1> HIDE DEF h0
<1>4. KeepsRoot(h0, h1, root) /\ h1 \in Heap
  BY <1>1, <1>2, <1>3, PairsKeepRoot DEF KeepsRoot, Edits
<1> HIDE DEF h1
<1>5. KeepsRoot(h1, h2, root) /\ h2 \in Heap
  <2> HIDE DEF loc
  <2> QED
    BY <1>2, <1>4, ChildKeepsRoot, NothingKeepsRoot DEF KeepsRoot, Edits
<1>6. InsertEnds(h2) /\ root' = root
  BY DEF InsertInParent, h0, h1
<1> HIDE DEF h2
<1>7. KeepsRoot(heap, h2, root)
  <2>1. KeepsRoot(heap, h1, root)
    BY <1>1, <1>3, <1>4, KeepsRootCompose
  <2> QED
    BY <1>1, <1>5, <2>1, KeepsRootCompose
<1>8. h2 # Fault => Rooted(h2, root')
  BY <1>1, <1>6, <1>7 DEF KeepsRoot
<1> QED
  BY <1>2, <1>5, <1>6, <1>8, InsertEndsKeepsRoot

\* The halves of an inner node are new nodes too.
LEMMA SplitParentKeepsRoot ==
    ASSUME RootInv, SplitParent
    PROVE  RootSafe'
<1> DEFINE h1 == new(heap, FirstId, NewInner)
           g  == new(h1, SecondId, NewInner)
           l  == [parent |-> local.parent, N |-> local.N, k |-> local.k,
                  Nprime |-> local.Nprime, n |-> local.n, leaked |-> local.leaked,
                  pNode |-> FirstId, ppNode |-> SecondId,
                  i |-> 0, slot |-> 0, j |-> 0, added |-> FALSE, kp |-> Junk]
<1>1. /\ heap \in Heap /\ RootApart(heap, local, root) /\ root # NULL /\ Rooted(heap, root)
      /\ root' = root
  <2>1. TypeInv /\ pc = "insert_in_parent" /\ root' = root
    BY DEF RootInv, InsertInv, SplitParent
  <2> QED
    BY <2>1, RootThere DEF RootInv, RootSafe
<1>2. /\ FirstId \in NodeIds /\ SecondId \in NodeIds /\ FirstId # SecondId
      /\ heap[FirstId] = Free /\ heap[SecondId] = Free
  BY Addresses DEF SplitParent
<1>3. NewInner \in node /\ NewInner.firstChild = [i \in ChildIndex |-> NULL]
  BY NewNodes DEF node, NewInner
<1>4. h1 \in Heap /\ Rooted(h1, root) /\ Live(h1, FirstId)
      /\ \A m \in NodeIds \ {FirstId} : h1[m] = heap[m]
  BY <1>1, <1>2, <1>3, NewInHeap, NewKeepsRoot
<1>5. g \in Heap /\ Rooted(g, root) /\ Live(g, SecondId)
      /\ \A m \in NodeIds \ {SecondId} : g[m] = h1[m]
  <2> HIDE DEF h1
  <2> QED
    BY <1>2, <1>3, <1>4, NewInHeap, NewKeepsRoot
<1> HIDE DEF h1, g
<1>6. \A m \in NodeIds : Live(heap, m) => Live(g, m)
  BY <1>2, <1>4, <1>5 DEF Live
<1>7. RootApart(g, l, root)
  BY <1>1, <1>6 DEF RootApart, Live
<1>8. HalvesApart(g, l, root)
  <2>1. FirstId # root /\ SecondId # root
    BY <1>1, <1>2 DEF Rooted, Live
  <2>2. Live(g, FirstId)
    BY <1>2, <1>4, <1>5 DEF Live
  <2> QED
    BY <1>5, <2>1, <2>2 DEF HalvesApart
<1>9. Go(g, "split_parent", l)
  BY DEF SplitParent, g, h1
<1> HIDE DEF l
<1> QED
  BY <1>1, <1>5, <1>7, <1>8, <1>9, GoKeepsRoot

\* One round of the loop: the old children are not the root, since it is nobody's child.
LEMMA SplitParentLoopKeepsRoot ==
    ASSUME RootInv, SplitParentLoop
    PROVE  RootSafe'
<1> DEFINE p    == heap[local.parent]
           half == p.slotsinuse \div 2
           here == p.keySlots[local.i] > local.k /\ local.slot = local.i
           low  == local.i < half + 1
           at   == IF low THEN local.slot ELSE local.j
           h1   == IF here THEN PlaceNewPair(heap, local.pNode, local.k, local.N, local.Nprime, at)
                           ELSE heap
           j1   == IF here /\ ~low THEN local.j + 1 ELSE local.j
           i    == IF here /\ local.i > 0 THEN local.i - 1 ELSE local.i
           old  == i < half + 1 /\ local.slot = i
           h2   == IF old THEN PlaceOldPair(h1, local.pNode, p, i, local.slot) ELSE h1
           h3   == IF i > half THEN PlaceOldPair(h2, local.ppNode, p, i, j1) ELSE h2
           h4   == IF i = half + 1 THEN CutFirstHalf(h3, local.pNode, p, i) ELSE h3
           kp   == IF i = half + 1 THEN KeyAt(h3[local.pNode], i - 1) ELSE local.kp
           l    == [local EXCEPT !.i = i + 1, !.slot = @ + 1,
                                 !.j = IF i > half THEN j1 + 1 ELSE j1,
                                 !.added = @ \/ here, !.kp = kp]
<1>1. /\ pc = "split_parent" /\ local \in Locals["split_parent"] /\ heap \in Heap
      /\ Within(heap) /\ root # NULL /\ Rooted(heap, root) /\ root' = root
      /\ RootApart(heap, local, root) /\ HalvesApart(heap, local, root)
      /\ IsInner(heap, local.parent) /\ local.k \in KeySlot /\ local.i \in Nat
      /\ local.i < p.slotsinuse
  <2>1. pc = "split_parent" /\ root' = root /\ local.i < p.slotsinuse
    BY Zenon DEF SplitParentLoop
  <2>2. TypeInv /\ Within(heap)
    BY DEF RootInv, InsertInv, Filled
  <2>3. local \in Locals["split_parent"]
    BY <2>1, <2>2, TypesAt, LocalsFields
  <2>4. local.k \in KeySlot /\ local.i \in Nat
    BY <2>3, LocalsFields
  <2> QED
    BY <2>1, <2>2, <2>3, <2>4, RootThere DEF RootInv, RootSafe, TypeInv, Standing
<1>2. p \in node /\ p.slotsinuse <= NodeSlots /\ local.N # root /\ local.Nprime # root
  <2>1. p \in innerNode
    BY <1>1, LiveTypes
  <2>2. Room(p) /\ ~p.isleafnode
    BY <1>1, LiveTypes DEF IsInner, Live, Within
  <2> HIDE DEF p
  <2> QED
    BY <1>1, <2>1, <2>2 DEF Room, RootApart, node
<1>3. p.firstChild[i] # root
  <2>1. i \in ChildIndex
    <3>1. i \in Nat /\ i <= local.i
      <4> HIDE DEF here
      <4> QED
        BY <1>1
    <3>2. p.slotsinuse \in Nat
      BY <1>2, NodeTypes
    <3> HIDE DEF i, p
    <3> QED
      BY <1>1, <1>2, <3>1, <3>2, SlotsAssumption DEF ChildIndex
  <2> HIDE DEF i
  <2> QED
    BY <1>1, <2>1, LiveTypes DEF Rooted
<1>4. KeepsRoot(heap, h1, root) /\ h1 \in Heap
  <2>1. KeepsRoot(heap, PlaceNewPair(heap, local.pNode, local.k, local.N, local.Nprime, at), root)
    <3> HIDE DEF at
    <3> QED
      BY <1>1, <1>2, PairsKeepRoot
  <2> HIDE DEF here
  <2> QED
    BY <1>1, <2>1, NothingKeepsRoot DEF KeepsRoot, Edits
<1> HIDE DEF h1
<1>5. KeepsRoot(h1, h2, root) /\ h2 \in Heap
  <2>1. KeepsRoot(h1, PlaceOldPair(h1, local.pNode, p, i, local.slot), root)
    <3> HIDE DEF i, p
    <3> QED
      BY <1>2, <1>3, <1>4, PairsKeepRoot
  <2> HIDE DEF old
  <2> QED
    BY <1>4, <2>1, NothingKeepsRoot DEF KeepsRoot, Edits
<1> HIDE DEF h2
<1>6. KeepsRoot(h2, h3, root) /\ h3 \in Heap
  <2>1. KeepsRoot(h2, PlaceOldPair(h2, local.ppNode, p, i, j1), root)
    <3> HIDE DEF i, p, j1
    <3> QED
      BY <1>2, <1>3, <1>5, PairsKeepRoot
  <2> HIDE DEF i, half
  <2> QED
    BY <1>5, <2>1, NothingKeepsRoot DEF KeepsRoot, Edits
<1> HIDE DEF h3
<1>7. KeepsRoot(h3, h4, root) /\ h4 \in Heap
  <2>1. KeepsRoot(h3, CutFirstHalf(h3, local.pNode, p, i), root)
    BY <1>6, CountsKeepRoot
  <2> HIDE DEF i, half
  <2> QED
    BY <1>6, <2>1, NothingKeepsRoot DEF KeepsRoot, Edits
<1>8. Go(h4, "split_parent", l)
  BY Zenon DEF SplitParentLoop, h3, h2, h1
<1> HIDE DEF h4
<1>9. KeepsRoot(heap, h4, root)
  <2>1. KeepsRoot(heap, h2, root)
    BY <1>1, <1>4, <1>5, KeepsRootCompose
  <2>2. KeepsRoot(heap, h3, root)
    BY <1>1, <1>6, <2>1, KeepsRootCompose
  <2> QED
    BY <1>1, <1>7, <2>2, KeepsRootCompose
<1>10. /\ l.parent = local.parent /\ l.N = local.N /\ l.Nprime = local.Nprime /\ l.n = local.n
       /\ l.leaked = local.leaked /\ l.pNode = local.pNode /\ l.ppNode = local.ppNode
  <2>1. DOMAIN local = {"parent", "N", "k", "Nprime", "n", "leaked", "pNode", "ppNode", "i",
                        "slot", "j", "added", "kp"}
    BY <1>1, LocalsFields
  <2> HIDE DEF i, kp, here, half, j1
  <2> QED
    BY <2>1
<1> HIDE DEF l
<1>11. h4 # Fault => RootApart(h4, l, root) /\ HalvesApart(h4, l, root)
  <2>1. h4 # Fault => RootApart(h4, local, root) /\ HalvesApart(h4, local, root)
    BY <1>1, <1>9, ApartKept DEF KeepsRoot
  <2> QED
    BY <1>10, <2>1 DEF RootApart, HalvesApart
<1> QED
  BY <1>1, <1>8, <1>9, <1>11, GoKeepsRoot DEF KeepsRoot

\* The end of the split of an inner node leaves the root a root.
LEMMA SplitParentEndKeepsRoot ==
    ASSUME RootInv, SplitParentEnd
    PROVE  RootSafe'
<1> DEFINE p    == heap[local.parent]
           pp   == local.ppNode
           last == p.firstChild[local.i]
           h1   == IF last = NULL THEN heap ELSE insertInnerNodeChildAt(heap, pp, last, local.j)
           h0   == AddToChildren(h1, pp, -1)
           h2   == IF local.added THEN h1
                   ELSE PlaceNewPair(h0, pp, local.k, local.N, local.Nprime, local.j)
           l    == [parent |-> p.parent, N |-> local.pNode, k |-> local.kp, Nprime |-> pp,
                    n |-> local.n, leaked |-> local.leaked \cup {local.parent}]
<1>1. /\ heap \in Heap /\ Within(heap) /\ root # NULL /\ Rooted(heap, root) /\ root' = root
      /\ RootApart(heap, local, root) /\ HalvesApart(heap, local, root)
      /\ IsInner(heap, local.parent) /\ local.k \in KeySlot /\ local.i \in Nat
      /\ local.i <= p.slotsinuse
  <2>1. pc = "split_parent" /\ root' = root
    BY Zenon DEF SplitParentEnd
  <2>2. TypeInv /\ Within(heap) /\ local.i <= p.slotsinuse
    BY <2>1 DEF RootInv, InsertInv, Filled, SplitCount
  <2>3. local \in Locals["split_parent"]
    BY <2>1, <2>2, TypesAt, LocalsFields
  <2>4. local.k \in KeySlot /\ local.i \in Nat
    BY <2>3, LocalsFields
  <2> QED
    BY <2>1, <2>2, <2>3, <2>4, RootThere DEF RootInv, RootSafe, TypeInv, Standing
<1>2. /\ p.slotsinuse <= NodeSlots /\ local.N # root /\ local.Nprime # root
      /\ p.slotsinuse \in Nat /\ local.parent # NULL
  <2>1. p \in innerNode /\ p \in node
    BY <1>1, LiveTypes DEF node
  <2>2. Room(p) /\ ~p.isleafnode /\ local.parent # NULL
    BY <1>1, LiveTypes, NodeIdsAssumption DEF IsInner, Live, Within
  <2>3. p.slotsinuse \in Nat
    BY <2>1, NodeTypes
  <2> HIDE DEF p
  <2> QED
    BY <1>1, <2>2, <2>3 DEF Room, RootApart
<1>3. last # root
  <2>1. local.i \in ChildIndex
    <3> HIDE DEF p
    <3> QED
      BY <1>1, <1>2, SlotsAssumption DEF ChildIndex
  <2> QED
    BY <1>1, <2>1, LiveTypes DEF Rooted
<1>4. KeepsRoot(heap, h1, root) /\ h1 \in Heap
  BY <1>1, <1>3, ChildKeepsRoot, NothingKeepsRoot DEF KeepsRoot, Edits
<1> HIDE DEF h1
<1>5. KeepsRoot(h1, h0, root) /\ h0 \in Heap
  BY <1>4, CountsKeepRoot DEF KeepsRoot, Edits
<1> HIDE DEF h0
<1>6. KeepsRoot(h0, PlaceNewPair(h0, pp, local.k, local.N, local.Nprime, local.j), root)
  BY <1>1, <1>2, <1>5, PairsKeepRoot
<1>7. KeepsRoot(heap, h2, root)
  <2>1. KeepsRoot(heap, h0, root)
    BY <1>1, <1>4, <1>5, KeepsRootCompose
  <2>2. KeepsRoot(heap, PlaceNewPair(h0, pp, local.k, local.N, local.Nprime, local.j), root)
    BY <1>1, <1>6, <2>1, KeepsRootCompose
  <2> QED
    BY <1>4, <2>2
<1>8. Go(h2, "insert_in_parent", l)
  BY DEF SplitParentEnd, h1, h0
<1> HIDE DEF h2
<1>9. h2 # Fault => RootApart(h2, l, root)
  <2> SUFFICES ASSUME h2 # Fault PROVE RootApart(h2, l, root)
    OBVIOUS
  <2>1. RootApart(h2, local, root) /\ HalvesApart(h2, local, root)
    BY <1>1, <1>7, ApartKept DEF KeepsRoot
  <2>2. Live(h2, local.parent)
    BY <1>1, <1>7, EditsKeep DEF KeepsRoot, IsInner
  <2>3. root \notin {local.n} \cup local.leaked
    BY <1>1, <1>2 DEF RootApart
  <2>4. root = local.parent => p.parent = NULL
    BY <1>1 DEF Rooted
  <2>5. /\ l.N = local.pNode /\ l.Nprime = local.ppNode /\ l.n = local.n /\ l.parent = p.parent
        /\ l.leaked = local.leaked \cup {local.parent}
    OBVIOUS
  <2> HIDE DEF l, p
  <2> QED
    BY <2>1, <2>2, <2>3, <2>4, <2>5 DEF RootApart, HalvesApart
<1> HIDE DEF l
<1> QED
  BY <1>1, <1>7, <1>8, <1>9, GoKeepsRoot DEF KeepsRoot

\* Every step of a workload without deletions keeps the root.
LEMMA NextKeepsRoot ==
    ASSUME RootInv, Erases = {}, DeletePairs = {}, Next
    PROVE  RootSafe'
<1>1. CASE Calls
  BY <1>1, CallsKeepRoot
<1>2. ASSUME Undefined \/ Stopped PROVE RootSafe'
  <2>1. pc' = "undefined"
    BY <1>2 DEF Undefined, Stopped, vars
  <2> QED
    BY <2>1 DEF RootSafe
<1>3. CASE Steps
  <2>1. CASE FindChild \/ FindNextLeaf \/ FindLeaf \/ Get
    BY <2>1, FindKeepsRoot
  <2>2. CASE SplitFullLeaf \/ NewRoot \/ InsertInParent
    BY <2>2, SplitFullLeafKeepsRoot, NewRootKeepsRoot, InsertInParentKeepsRoot
  <2>3. CASE SplitParent \/ SplitParentLoop \/ SplitParentEnd
    BY <2>3, SplitParentKeepsRoot, SplitParentLoopKeepsRoot, SplitParentEndKeepsRoot
  <2>4. ASSUME NEW junk \in Indeterminate, InsertPair(junk) \/ InsertDuplicate(junk)
        PROVE  RootSafe'
    BY <2>4, InsertPairKeepsRoot
  <2>5. CASE Undefined
    BY <2>5, <1>2
  <2>6. InsertInv
    BY DEF RootInv
  <2> QED
    BY <1>3, <2>1, <2>2, <2>3, <2>4, <2>5, <2>6, NothingIsDeleted, Zenon DEF Steps
<1> QED
  BY <1>1, <1>2, <1>3 DEF Next

\* The root of a tree that is only inserted into and searched is sound between two calls
\* whatever the order of the keys, even in a tree that the splits have damaged:
\* insert_in_parent frees and replaces nodes on the way up, but the root pointer, which it
\* moves only when a split has reached the top, never leads to one of them, and no split
\* hangs the root below another node.
THEOREM RootSurvivesInsertions ==
    ASSUME Erases = {}, DeletePairs = {}
    PROVE  Spec => []RootStaysValid
<1>1. Init => RootInv
  <2> SUFFICES ASSUME Init PROVE RootInv
    OBVIOUS
  <2>1. InsertInv
    BY InitTypes DEF Init, InsertInv, Filled, Within, InsertSteps, NoCall, Fault
  <2> QED
    BY <2>1 DEF Init, RootInv, RootSafe
<1>2. RootInv /\ [Next]_vars => RootInv'
  <2>1. ASSUME RootInv, Next PROVE RootInv'
    <3>1. TypeInv' /\ Filled' /\ RootSafe'
      BY <2>1, NextTypes, NextFills, NextKeepsRoot DEF RootInv, InsertInv
    <3> QED
      BY <3>1 DEF RootInv, InsertInv
  <2>2. ASSUME RootInv, UNCHANGED vars PROVE RootInv'
    BY <2>2 DEF vars, RootInv, RootSafe, InsertInv, TypeInv, TypeOK, Standing, Filled, SplitCount
  <2> QED
    BY <2>1, <2>2
<1>3. RootInv => RootStaysValid
  BY DEF RootInv, RootSafe, Rooted, RootStaysValid, Idle
<1> QED
  BY <1>1, <1>2, <1>3, PTL DEF Spec
=============================================================================
