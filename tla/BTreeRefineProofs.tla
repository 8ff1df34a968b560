------------------------- MODULE BTreeRefineProofs -------------------------
(***************************************************************************)
(* A tree to which larger and larger keys are appended, and which is        *)
(* searched in between, implements Multimap: every insert and get answers,  *)
(* and changes the contents, as one atomic step of the multimap does.       *)
(*                                                                         *)
(* AppendInv (BTreeAppendProofs) says that a search tree is there at each   *)
(* step, not which pairs are in it.  The pairs are those of the live leaves *)
(* - but for the leaf that an insertion has divided and not yet freed - and *)
(* the steps above the leaves do not touch them; that no leaf is left over  *)
(* beside the tree follows from the size, totalkeycount.                    *)
(***************************************************************************)
EXTENDS BTreeRefine, BTreeAppendProofs

\* What a leaf holds, its links left out.
SameData(r, s) ==
    s.slotsinuse = r.slotsinuse /\ s.keySlots = r.keySlots /\ s.dataSlots = r.dataSlots

\* The leaves of g outside Y hold what those of h outside X do.
SameLeaves(h, X, g, Y) ==
    \A m \in NodeIds : /\ IsLeaf(h, m) /\ m \notin X <=> IsLeaf(g, m) /\ m \notin Y
                       /\ IsLeaf(h, m) /\ m \notin X => SameData(h[m], g[m])

\* The entries of the leaves outside X, and the pairs there.
LeafEntries(h, X) ==
    {e \in NodeIds \X LeafIndex : /\ IsLeaf(h, e[1]) /\ e[1] \notin X
                                  /\ e[2] < h[e[1]].slotsinuse}
PairAt(h, e) == <<h[e[1]].keySlots[e[2]], h[e[1]].dataSlots[e[2]]>>
PairsIn(h, X) == {PairAt(h, e) : e \in LeafEntries(h, X)}
LeafPairs(r) == {<<r.keySlots[i], r.dataSlots[i]>> : i \in 0 .. r.slotsinuse - 1}

\* There are n entries in the leaves outside X, and S are the pairs there.
Books(h, X, n, S) ==
    /\ IsFiniteSet(LeafEntries(h, X)) /\ Cardinality(LeafEntries(h, X)) = n
    /\ PairsIn(h, X) = S

\* After a leaf was split and before the insertion returns.
Divided == pc \in {"insert_in_parent", "split_parent"}
Old     == IF Divided THEN {local.n} ELSE {}
NewPair == <<call.key, call.data>>

\* An insertion, of a key that is not there yet.
Fresh == call.op = "insert" /\ \A p \in committed : p[1] # call.key

\* The pairs in the leaves are those committed and, on the way up, the new one.
Kept ==
    /\ Books(heap, Old, totalkeycount, IF Divided THEN committed \cup {NewPair} ELSE committed)
    /\ Divided => Fresh /\ \A m \in local.leaked : ~IsLeaf(heap, m)

\* The search for k at o of the tree t is above every entry with that key.
Aimed(h, t, o, k) ==
    /\ o \in t.G
    /\ \A e \in Pairs(h, t) : h[e[1]].keySlots[e[2]] = k => t.lo[o] <= k /\ k < t.hi[o]

Sought ==
    pc \in {"find", "get"} /\ call.op = "get" =>
        \A t : Resting(heap, t, root) => Aimed(heap, t, local.at, call.key)

\* The inductive invariant.
RefineInv == AppendInv /\ Kept /\ Sought

-----------------------------------------------------------------------------
\* Leaves that hold the same have the same entries and pairs.
LEMMA BooksKept ==
    ASSUME NEW h, NEW X, NEW g, NEW Y, SameLeaves(h, X, g, Y), NEW n, NEW S, Books(h, X, n, S)
    PROVE  Books(g, Y, n, S)
<1>1. LeafEntries(h, X) = LeafEntries(g, Y)
  <2>1. ASSUME NEW e \in NodeIds \X LeafIndex
        PROVE  e \in LeafEntries(h, X) <=> e \in LeafEntries(g, Y)
    <3>1. e[1] \in NodeIds
      OBVIOUS
    <3> QED
      BY <3>1 DEF LeafEntries, SameLeaves, SameData
  <2> QED
    BY <2>1 DEF LeafEntries
<1>2. ASSUME NEW e \in LeafEntries(h, X) PROVE PairAt(h, e) = PairAt(g, e)
  <2>1. e[1] \in NodeIds /\ IsLeaf(h, e[1]) /\ e[1] \notin X
    BY DEF LeafEntries
  <2> QED
    BY <2>1 DEF PairAt, SameLeaves, SameData
<1>3. PairsIn(h, X) = PairsIn(g, Y)
  BY <1>1, <1>2 DEF PairsIn
<1> QED
  BY <1>1, <1>3 DEF Books

\* The leaf o taken out of the count.
LEMMA LeafTaken ==
    ASSUME NEW h, NEW X, NEW o \in NodeIds, o \notin X, IsLeaf(h, o), h[o].slotsinuse \in Nat,
           h[o].slotsinuse <= LeafSlots,
           IsFiniteSet(LeafEntries(h, X)) \/ IsFiniteSet(LeafEntries(h, X \cup {o}))
    PROVE  /\ IsFiniteSet(LeafEntries(h, X)) /\ IsFiniteSet(LeafEntries(h, X \cup {o}))
           /\ Cardinality(LeafEntries(h, X \cup {o})) \in Nat
           /\ Cardinality(LeafEntries(h, X)) =
                 Cardinality(LeafEntries(h, X \cup {o})) + h[o].slotsinuse
           /\ PairsIn(h, X) = PairsIn(h, X \cup {o}) \cup LeafPairs(h[o])
<1> DEFINE R == LeafEntries(h, X \cup {o})
           c == h[o].slotsinuse
           B == Block(o, c)
<1>1. \A e \in B : e = <<o, e[2]>> /\ e[1] = o /\ e[2] \in 0 .. c - 1
  BY DEF Block
<1>2. ASSUME NEW i PROVE i \in LeafIndex /\ i < c <=> i \in 0 .. c - 1
  BY SlotsAssumption DEF LeafIndex
<1>3. LeafEntries(h, X) = R \cup B
  <2>1. ASSUME NEW e \in LeafEntries(h, X), e[1] = o PROVE e \in B
    <3>1. e = <<e[1], e[2]>> /\ e[2] \in LeafIndex /\ e[2] < c
      BY <2>1 DEF LeafEntries
    <3> QED
      BY <1>2, <2>1, <3>1 DEF Block
  <2>2. ASSUME NEW e \in LeafEntries(h, X), e[1] # o PROVE e \in R
    BY <2>2 DEF LeafEntries
  <2>3. R \subseteq LeafEntries(h, X)
    BY DEF LeafEntries
  <2>4. ASSUME NEW e \in B PROVE e \in LeafEntries(h, X)
    BY <1>1, <1>2 DEF LeafEntries
  <2> HIDE DEF R, B
  <2> QED
    BY <2>1, <2>2, <2>3, <2>4
<1>4. R \cap B = {}
  BY <1>1 DEF LeafEntries
<1>5. IsFiniteSet(R)
  <2>1. R \in SUBSET LeafEntries(h, X)
    BY <1>3
  <2> QED
    BY <2>1, FS_Subset
<1>6. IsFiniteSet(R \cup B) /\ Cardinality(R \cup B) = Cardinality(R) + c
  <2> HIDE DEF R
  <2> QED
    BY <1>4, <1>5, BlockAdded
<1>7. Cardinality(R) \in Nat
  BY <1>5, FS_CardinalityType
<1>8. {PairAt(h, e) : e \in B} = LeafPairs(h[o])
  <2>1. ASSUME NEW e \in B PROVE PairAt(h, e) \in LeafPairs(h[o])
    BY <1>1 DEF PairAt, LeafPairs
  <2>2. ASSUME NEW i \in 0 .. c - 1
        PROVE  <<h[o].keySlots[i], h[o].dataSlots[i]>> \in {PairAt(h, e) : e \in B}
    <3>1. <<o, i>> \in B
      BY DEF Block
    <3> QED
      BY <3>1 DEF PairAt
  <2> HIDE DEF B
  <2> QED
    BY <2>1, <2>2 DEF LeafPairs
<1>9. PairsIn(h, X) = PairsIn(h, X \cup {o}) \cup LeafPairs(h[o])
  <2> HIDE DEF R, B
  <2> QED
    BY <1>3, <1>8 DEF PairsIn, R
<1> QED
  BY <1>3, <1>5, <1>6, <1>7, <1>9

-----------------------------------------------------------------------------
\* What a helper of inner nodes may do to h: it leaves the data of the leaves alone.
Quiet(h, g) == g \in Edits(h) /\ (g # Fault => SameLeaves(h, {}, g, {}))

\* It does if no slot of a leaf is changed.
LEMMA QuietEdits ==
    ASSUME NEW h \in Heap, NEW g \in Edits(h),
           \A m \in NodeIds : IsLeaf(h, m) => SameData(h[m], g[m])
    PROVE  Quiet(h, g)
  BY EditsKeep DEF Quiet, SameLeaves

\* Doing nothing, and faulting.
LEMMA NothingQuiet ==
    ASSUME NEW h \in Heap
    PROVE  Quiet(h, h) /\ Quiet(h, Fault)
  BY Unedited DEF Quiet, SameLeaves, SameData

\* Leaves that hold the same hold the same outside other leaves, and through two steps.
LEMMA SameWithout ==
    ASSUME NEW h, NEW g, SameLeaves(h, {}, g, {}), NEW X
    PROVE  SameLeaves(h, X, g, X)
  BY DEF SameLeaves

\* Leaves that hold the same, twice over.
LEMMA SameCompose ==
    ASSUME NEW h, NEW X, NEW g, NEW Y, NEW f, NEW Z, SameLeaves(h, X, g, Y), SameLeaves(g, Y, f, Z)
    PROVE  SameLeaves(h, X, f, Z)
  BY DEF SameLeaves, SameData

\* Helpers compose.
LEMMA QuietCompose ==
    ASSUME NEW h \in Heap, NEW g, NEW f, Quiet(h, g), Quiet(g, f)
    PROVE  Quiet(h, f)
<1>1. g \in Heap /\ f \in Edits(h)
  BY EditsCompose DEF Quiet, Edits
<1>2. f # Fault => g # Fault
  BY FaultStays DEF Quiet
<1>3. f # Fault => SameLeaves(h, {}, f, {})
  BY <1>2, SameCompose DEF Quiet
<1> QED
  BY <1>1, <1>3 DEF Quiet

\* A change of one inner node.
LEMMA InnerQuiet ==
    ASSUME NEW h \in Heap, NEW g \in Edits(h), NEW n, IsInner(h, n),
           \A m \in NodeIds : m # n => g[m] = h[m]
    PROVE  Quiet(h, g)
<1>1. ASSUME NEW m \in NodeIds, IsLeaf(h, m) PROVE SameData(h[m], g[m])
  <2>1. m # n
    BY <1>1 DEF IsLeaf, IsInner
  <2> QED
    BY <2>1 DEF SameData
<1> QED
  BY <1>1, QuietEdits

\* A key of an inner node.
LEMMA KeyQuiet ==
    ASSUME NEW h \in Heap, NEW n, NEW k \in KeySlot, NEW index
    PROVE  Quiet(h, insertInnerNodeKeyAt(h, n, k, index))
<1> DEFINE g == insertInnerNodeKeyAt(h, n, k, index)
           u == h[n].slotsinuse
<1>1. CASE IsInner(h, n) /\ index \in InnerIndex /\ ~(index < u /\ u >= NodeSlots)
  <2>1. g = [h EXCEPT ![n].keySlots = ShiftIn(@, u, index, k), ![n].slotsinuse = Inc(@)]
    BY <1>1 DEF insertInnerNodeKeyAt
  <2>2. \A m \in NodeIds : m # n => g[m] = h[m]
    BY <2>1 DEF Heap
  <2>3. g \in Edits(h)
    BY InsertKeyEdits
  <2> HIDE DEF g
  <2> QED
    BY <1>1, <2>2, <2>3, InnerQuiet DEF g
<1>2. CASE ~(IsInner(h, n) /\ index \in InnerIndex /\ ~(index < u /\ u >= NodeSlots))
  <2>1. g = h \/ g = Fault
    BY <1>2 DEF insertInnerNodeKeyAt
  <2> HIDE DEF g
  <2> QED
    BY <2>1, NothingQuiet DEF g
<1> QED
  BY <1>1, <1>2

\* The chain of leaves.
LEMMA LinkQuiet ==
    ASSUME NEW h \in Heap, NEW a, NEW b
    PROVE  Quiet(h, LinkLeaves(h, a, b))
<1> DEFINE g == LinkLeaves(h, a, b)
<1>1. CASE IsLeaf(h, a) /\ IsLeaf(h, b)
  <2>1. h[a] \in leafNode /\ h[b] \in leafNode /\ a \in NodeIds /\ b \in NodeIds
    BY <1>1, LiveTypes
  <2>2. g = [h EXCEPT ![a].nextLeaf = b, ![b].prevLeaf = a]
    BY <1>1 DEF LinkLeaves
  <2>3. \A m \in NodeIds : m \notin {a, b} => g[m] = h[m]
    BY <2>2 DEF Heap
  <2>4. \A m \in {a, b} : SameData(h[m], g[m])
    BY <2>1, <2>2 DEF Heap, leafNode, SameData
  <2>5. g \in Edits(h)
    BY LinkLeavesEdits
  <2>6. \A m \in NodeIds : SameData(h[m], g[m])
    <3> HIDE DEF g
    <3> QED
      BY <2>3, <2>4 DEF SameData
  <2> HIDE DEF g
  <2> QED
    BY <2>5, <2>6, QuietEdits DEF g
<1>2. CASE ~(IsLeaf(h, a) /\ IsLeaf(h, b))
  BY <1>2, NothingQuiet DEF LinkLeaves
<1> QED
  BY <1>1, <1>2

\* Linking a leaf with its siblings changes links only.
LEMMA LinkSiblingsQuiet ==
    ASSUME NEW h \in Heap, NEW dest, NEW index
    PROVE  Quiet(h, LinkWithSiblings(h, dest, index))
<1> DEFINE c  == h[dest].firstChild
           h1 == IF index - 1 >= 0 THEN LinkLeaves(h, c[index - 1], c[index]) ELSE h
           h2 == LinkLeaves(h1, c[index], c[index + 1])
<1>1. Quiet(h, h1) /\ h1 \in Heap
  BY LinkQuiet, NothingQuiet DEF Quiet, Edits
<1>2. LinkWithSiblings(h, dest, index) = IF index + 1 < h[dest].numChildren THEN h2 ELSE h1
  BY DEF LinkWithSiblings
<1> HIDE DEF h1
<1>3. Quiet(h1, h2)
  BY <1>1, LinkQuiet
<1> HIDE DEF h2
<1> QED
  BY <1>1, <1>2, <1>3, QuietCompose

\* A child gets its parent, and perhaps its neighbours in the chain.
LEMMA ChildQuiet ==
    ASSUME NEW h \in Heap, NEW dest, NEW n, NEW index
    PROVE  Quiet(h, insertInnerNodeChildAt(h, dest, n, index))
<1> DEFINE c  == h[dest].numChildren
           h1 == [h EXCEPT ![dest].firstChild  = ShiftIn(@, h[dest].numChildren, index, n),
                           ![dest].numChildren = @ + 1,
                           ![n].parent         = dest]
           g  == insertInnerNodeChildAt(h, dest, n, index)
<1>1. CASE IsInner(h, dest) /\ index \in ChildIndex /\ Live(h, n) /\ ~(index < c /\ c > NodeSlots)
  <2>1. h1 \in Edits(h) /\ h1 \in Heap
    BY <1>1, AddChildEdits DEF Edits
  <2>2. dest \in NodeIds /\ n \in NodeIds
    BY <1>1 DEF IsInner, Live
  <2>3. ASSUME NEW m \in NodeIds, IsLeaf(h, m) PROVE SameData(h[m], h1[m])
    <3>1. m # dest /\ h[m] \in leafNode
      BY <1>1, <2>3, LiveTypes DEF IsLeaf, IsInner
    <3>2. CASE m = n
      BY <2>2, <3>1, <3>2 DEF Heap, leafNode, SameData
    <3>3. CASE m # n
      <4>1. h1[m] = h[m]
        BY <2>2, <3>1, <3>3 DEF Heap
      <4> QED
        BY <4>1 DEF SameData
    <3> QED
      BY <3>2, <3>3
  <2>4. Quiet(h, h1)
    <3> HIDE DEF h1
    <3> QED
      BY <2>1, <2>3, QuietEdits
  <2>5. g = IF h[n].isleafnode THEN LinkWithSiblings(h1, dest, index) ELSE h1
    BY <1>1 DEF insertInnerNodeChildAt
  <2>6. Quiet(h, LinkWithSiblings(h1, dest, index))
    <3> HIDE DEF h1
    <3>1. Quiet(h1, LinkWithSiblings(h1, dest, index))
      BY <2>1, LinkSiblingsQuiet
    <3> QED
      BY <2>4, <3>1, QuietCompose
  <2> HIDE DEF h1, g
  <2> QED
    BY <2>4, <2>5, <2>6 DEF g
<1>2. CASE ~(/\ IsInner(h, dest) /\ index \in ChildIndex
            /\ Live(h, n) /\ ~(index < c /\ c > NodeSlots))
  <2>1. g = h \/ g = Fault
    BY <1>2 DEF insertInnerNodeChildAt
  <2> HIDE DEF g
  <2> QED
    BY <2>1, NothingQuiet DEF g
<1> QED
  BY <1>1, <1>2

\* The pairs that the loop of the split places; insertinnernodepair.
LEMMA PairsQuiet ==
    ASSUME NEW h \in Heap, NEW dest, NEW at
    PROVE  /\ \A k \in KeySlot : \A N, M :
                 /\ Quiet(h, PlaceNewPair(h, dest, k, N, M, at))
                 /\ Quiet(h, insertinnernodepair(h, dest, k, N))
           /\ \A p \in node : \A i : Quiet(h, PlaceOldPair(h, dest, p, i, at))
<1>1. ASSUME NEW k \in KeySlot, NEW c, NEW i, NEW j
      PROVE  Quiet(h, insertInnerNodeChildAt(insertInnerNodeKeyAt(h, dest, k, i), dest, c, j))
  <2> DEFINE h1 == insertInnerNodeKeyAt(h, dest, k, i)
             h2 == insertInnerNodeChildAt(h1, dest, c, j)
  <2>1. Quiet(h, h1) /\ h1 \in Heap
    BY KeyQuiet, InsertKeyEdits DEF Edits
  <2> HIDE DEF h1
  <2>2. Quiet(h1, h2)
    BY <2>1, ChildQuiet
  <2> HIDE DEF h2
  <2>3. Quiet(h, h2)
    BY <2>1, <2>2, QuietCompose
  <2> QED
    BY <2>3 DEF h1, h2
<1>2. ASSUME NEW k \in KeySlot, NEW N, NEW M
      PROVE  /\ Quiet(h, PlaceNewPair(h, dest, k, N, M, at))
             /\ Quiet(h, insertinnernodepair(h, dest, k, N))
  <2> DEFINE h2 == insertInnerNodeChildAt(insertInnerNodeKeyAt(h, dest, k, at), dest, N, at)
             h3 == insertInnerNodeChildAt(h2, dest, M, at + 1)
  <2>1. Quiet(h, h2) /\ h2 \in Heap
    BY <1>1 DEF Quiet, Edits
  <2>2. PlaceNewPair(h, dest, k, N, M, at) = h3
    BY DEF PlaceNewPair
  <2> HIDE DEF h2
  <2>3. Quiet(h2, h3)
    BY <2>1, ChildQuiet
  <2> HIDE DEF h3
  <2>4. Quiet(h, PlaceNewPair(h, dest, k, N, M, at))
    BY <2>1, <2>2, <2>3, QuietCompose
  <2>5. Quiet(h, insertinnernodepair(h, dest, k, N))
    BY <1>1 DEF insertinnernodepair
  <2> QED
    BY <2>4, <2>5
<1>3. ASSUME NEW p \in node, NEW i PROVE Quiet(h, PlaceOldPair(h, dest, p, i, at))
  <2>1. KeyAt(p, i) \in KeySlot
    BY KeyAtTypes
  <2> QED
    BY <1>1, <2>1 DEF PlaceOldPair
<1> QED
  BY <1>2, <1>3

\* The count of children, and the count of keys, of a node.
LEMMA CountsQuiet ==
    ASSUME NEW h \in Heap, NEW n, NEW p, NEW i
    PROVE  Quiet(h, AddToChildren(h, n, -1)) /\ Quiet(h, CutFirstHalf(h, n, p, i))
<1> DEFINE g == AddToChildren(h, n, -1)
           f == [h EXCEPT ![n].slotsinuse = Dec(@)]
<1>1. ~IsInner(h, n) => g = Fault /\ CutFirstHalf(h, n, p, i) = Fault
  BY DEF AddToChildren, CutFirstHalf
<1>2. CASE IsInner(h, n)
  <2>1. h[n] \in innerNode /\ n \in NodeIds
    BY <1>2, LiveTypes
  <2>2. g = [h EXCEPT ![n].numChildren = @ + -1]
    BY <1>2 DEF AddToChildren
  <2>3. \A m \in NodeIds : m # n => g[m] = h[m] /\ f[m] = h[m]
    BY <2>2 DEF Heap
  <2>4. g \in Edits(h) /\ f \in Edits(h) /\ f \in Heap
    <3>1. g \in Edits(h)
      BY AddToChildrenEdits
    <3> DEFINE v == [h[n] EXCEPT !.slotsinuse = Dec(@)]
    <3>2. Dec(h[n].slotsinuse) \in UShort
      BY <2>1, CountTypes, NodeTypes DEF node
    <3>3. v \in innerNode
      BY <2>1, <3>2, InnerUpdates
    <3>4. f = [h EXCEPT ![n] = v]
      BY <2>1 DEF Heap
    <3> HIDE DEF f, v, g
    <3> QED
      BY <1>2, <3>1, <3>3, <3>4, PutInner DEF Edits
  <2> DEFINE h2 == LinkLeaves(f, p.firstChild[i - 1], p.firstChild[i])
  <2>5. CutFirstHalf(h, n, p, i) \in {Fault, f, h2}
    BY DEF CutFirstHalf
  <2> HIDE DEF g, f
  <2>6. Quiet(h, g) /\ Quiet(h, f)
    BY <1>2, <2>3, <2>4, InnerQuiet
  <2>7. Quiet(f, h2)
    BY <2>4, LinkQuiet
  <2> HIDE DEF h2
  <2>8. Quiet(h, h2)
    BY <2>6, <2>7, QuietCompose
  <2>9. Quiet(h, CutFirstHalf(h, n, p, i))
    BY <2>5, <2>6, <2>8, NothingQuiet
  <2> QED
    BY <2>6, <2>9 DEF g
<1> QED
  BY <1>1, <1>2, NothingQuiet

\* Inner nodes are allocated, and freed; the old leaf is freed.
LEMMA NewInnerQuiet ==
    ASSUME NEW h \in Heap, NEW n \in NodeIds, h[n] = Free, NEW v \in innerNode
    PROVE  SameLeaves(h, {}, new(h, n, v), {})
<1> DEFINE g == new(h, n, v)
<1>1. g[n] = v /\ ~v.isleafnode /\ \A m \in NodeIds : m # n => g[m] = h[m]
  BY DEF new, Heap, innerNode
<1> HIDE DEF g
<1>2. ~IsLeaf(g, n) /\ ~IsLeaf(h, n)
  BY <1>1 DEF IsLeaf, Live
<1>3. ASSUME NEW m \in NodeIds
      PROVE  (IsLeaf(h, m) <=> IsLeaf(g, m)) /\ (IsLeaf(h, m) => SameData(h[m], g[m]))
  <2>1. m # n => g[m] = h[m]
    BY <1>1
  <2> QED
    BY <1>2, <2>1 DEF IsLeaf, Live, SameData
<1> QED
  BY <1>3 DEF SameLeaves, g

-----------------------------------------------------------------------------
\* The number of pairs that are counted says that no leaf is left over.
LEMMA NoLeafOver ==
    ASSUME heap \in Heap, NEW t, Resting(heap, t, root),
           IsFiniteSet(LeafEntries(heap, {})),
           Cardinality(LeafEntries(heap, {})) = Cardinality(Pairs(heap, t))
    PROVE  LeafEntries(heap, {}) = Pairs(heap, t)
<1>1. Pairs(heap, t) \subseteq LeafEntries(heap, {})
  <2>1. ASSUME NEW e \in Pairs(heap, t) PROVE e \in LeafEntries(heap, {})
    <3>1. /\ e = <<e[1], e[2]>> /\ e[1] \in t.G /\ e[2] \in LeafIndex /\ t.lev[e[1]] = 0
          /\ e[2] < heap[e[1]].slotsinuse
      BY DEF Pairs
    <3>2. Says(heap, t, e[1])
      BY <3>1, RestingNode
    <3>3. IsLeaf(heap, e[1]) /\ e[1] \in NodeIds
      BY <3>1, <3>2 DEF Says, LeafSays, IsLeaf, Live
    <3>4. e \in NodeIds \X LeafIndex
      BY <3>1, <3>3
    <3> QED
      BY <3>1, <3>3, <3>4 DEF LeafEntries
  <2> QED
    BY <2>1
<1> DEFINE A == Pairs(heap, t)
           B == LeafEntries(heap, {})
<1>2. A \subseteq B /\ IsFiniteSet(B) /\ Cardinality(A) = Cardinality(B)
  BY <1>1
<1> HIDE DEF A, B
<1>3. A = B
  BY <1>2, FS_Subset
<1> QED
  BY <1>3 DEF A, B

\* The pairs in all leaves are those in the tree.
LEMMA Gathered ==
    AppendInv /\ ~Divided /\ IsFiniteSet(LeafEntries(heap, {}))
    /\ Cardinality(LeafEntries(heap, {})) = totalkeycount
    => /\ Contents = PairsIn(heap, {}) /\ Entries = LeafEntries(heap, {})
       /\ root # NULL => \A t : Resting(heap, t, root) => Entries = Pairs(heap, t)
<1> SUFFICES ASSUME AppendInv, ~Divided, IsFiniteSet(LeafEntries(heap, {})),
                    Cardinality(LeafEntries(heap, {})) = totalkeycount
             PROVE  /\ Contents = PairsIn(heap, {}) /\ Entries = LeafEntries(heap, {})
                    /\ root # NULL => \A t : Resting(heap, t, root) => Entries = Pairs(heap, t)
  OBVIOUS
<1>1. heap \in Heap /\ Within(heap) /\ pc # "undefined" /\ pc \in InsertSteps
  BY Globals DEF AppendInv, RootInv, InsertInv, Filled, Grown
<1>2. pc \in {"idle", "find", "insert", "get"}
  BY <1>1 DEF InsertSteps, Divided
<1>3. Entries = LeafEntries(heap, {})
  <2>1. CASE root = NULL
    <3>1. Cardinality(LeafEntries(heap, {})) = 0
      BY <2>1 DEF AppendInv, Grown
    <3>2. LeafEntries(heap, {}) = {}
      BY <3>1, FS_EmptySet
    <3>3. Entries = {}
      BY <2>1 DEF Entries, TreeLeaves
    <3> QED
      BY <3>2, <3>3
  <2>2. CASE root # NULL
    <3>1. PICK t : /\ Shape(heap, t, pc, local, call, root)
                   /\ totalkeycount = Cardinality(Pairs(heap, t))
      BY <2>2 DEF AppendInv, Grown
    <3>2. Resting(heap, t, root)
      BY <1>2, <3>1 DEF Shape
    <3>3. LeafEntries(heap, {}) = Pairs(heap, t)
      BY <1>1, <3>1, <3>2, NoLeafOver
    <3>4. Entries = Pairs(heap, t)
      BY <1>1, <2>2, <3>2, TreeAtRest
    <3> QED
      BY <3>3, <3>4
  <2> QED
    BY <2>1, <2>2
<1>4. Contents = PairsIn(heap, {})
  BY <1>3 DEF Contents, PairsIn, PairAt
<1>5. ASSUME root # NULL, NEW t, Resting(heap, t, root) PROVE Entries = Pairs(heap, t)
  BY <1>1, <1>5, TreeAtRest
<1> QED
  BY <1>3, <1>4, <1>5

\* The same after a step.
LEMMA GatheredNext ==
    ASSUME AppendInv', ~Divided', NEW S, Books(heap', {}, totalkeycount', S)
    PROVE  Contents' = S
<1>1. (AppendInv /\ ~Divided /\ IsFiniteSet(LeafEntries(heap, {}))
       /\ Cardinality(LeafEntries(heap, {})) = totalkeycount
       => /\ Contents = PairsIn(heap, {}) /\ Entries = LeafEntries(heap, {})
          /\ root # NULL => \A t : Resting(heap, t, root) => Entries = Pairs(heap, t))'
  BY Gathered, PTL
<1> QED
  BY <1>1 DEF Books

-----------------------------------------------------------------------------
\* The datum that insertleafAt stores.
LEMMA DataAppended ==
    ASSUME NEW h \in Heap, NEW l, IsLeaf(h, l), NEW s \in LeafIndex, NEW k, NEW d
    PROVE  insertleafAt(h, l, k, d, s)[l].dataSlots = [h[l].dataSlots EXCEPT ![s] = d]
<1> DEFINE f1 == [h[l] EXCEPT !.keySlots = ShiftIn(@, h[l].slotsinuse, s, k)]
           f2 == [f1 EXCEPT !.dataSlots[s] = d]
           h1 == [h EXCEPT ![l] = f1]
           h2 == [h1 EXCEPT ![l] = f2]
           g  == insertleafAt(h, l, k, d, s)
<1>1. h[l] \in leafNode /\ l \in NodeIds
  BY LiveTypes
<1>2. h1[l] = f1 /\ h2[l] = f2
  BY <1>1 DEF Heap
<1>3. g = [h2 EXCEPT ![l].slotsinuse = Inc(@)]
  <2>1. h1 = [h EXCEPT ![l].keySlots = ShiftIn(@, h[l].slotsinuse, s, k)]
    BY <1>1 DEF Heap
  <2> DEFINE h3 == [h1 EXCEPT ![l].dataSlots[s] = d]
  <2>2. h2 = h3
    <3> HIDE DEF h1, f1
    <3> QED
      BY <1>2
  <2>3. g = [h3 EXCEPT ![l].slotsinuse = Inc(@)]
    <3> HIDE DEF h1
    <3> QED
      BY <2>1 DEF insertleafAt
  <2> HIDE DEF h2, h3, g
  <2> QED
    BY <2>2, <2>3
<1>4. f1.dataSlots = h[l].dataSlots /\ f2.dataSlots = [f1.dataSlots EXCEPT ![s] = d]
  BY <1>1 DEF leafNode
<1>5. g[l].dataSlots = h2[l].dataSlots
  <2>1. h2 \in [NodeIds -> {h2[m] : m \in NodeIds}] /\ f2 \in [DOMAIN f2 -> {f2[m] : m \in DOMAIN f2}]
    BY <1>1 DEF Heap
  <2> DEFINE f3 == [f2 EXCEPT !.slotsinuse = Inc(@)]
  <2>2. g[l] = f3
    <3>1. l \in DOMAIN h2
      BY <1>1 DEF Heap
    <3> HIDE DEF h2, f2, g
    <3> QED
      BY <1>2, <1>3, <3>1
  <2>3. f3.dataSlots = f2.dataSlots
    <3>1. f2 \in [isleafnode : {TRUE}, isrootnode : BOOLEAN, parent : Pointer, slotsinuse : UShort,
                  keySlots : {f2.keySlots}, dataSlots : {f2.dataSlots},
                  nextLeaf : Pointer, prevLeaf : Pointer]
      BY <1>1 DEF leafNode
    <3> HIDE DEF f2
    <3> QED
      BY <3>1
  <2> HIDE DEF f2, f3, g, h2
  <2> QED
    BY <1>2, <2>2, <2>3
<1> HIDE DEF f1, f2, h1, h2, g
<1> QED
  BY <1>2, <1>4, <1>5 DEF g

\* The pairs of a leaf with a pair more at the end.
LEMMA PairAppended ==
    ASSUME NEW h \in Heap, NEW l, IsLeaf(h, l), NEW s, s = h[l].slotsinuse, s < LeafSlots,
           NEW k \in KeySlot, NEW d \in DataSlot, NEW g, g = insertleafAt(h, l, k, d, s)
    PROVE  LeafPairs(g[l]) = LeafPairs(h[l]) \cup {<<k, d>>}
<1>1. LeafLonger(h, g, l, s, k)
  BY LeafAppended, Zenon
<1>2. s \in Nat /\ s \in LeafIndex /\ h[l].dataSlots \in [LeafIndex -> DataSlot]
  <2>1. h[l] \in leafNode /\ h[l] \in node
    BY LiveTypes DEF node
  <2>2. s \in Nat
    BY <2>1, NodeTypes
  <2>3. s \in LeafIndex
    BY <2>2, SlotsAssumption DEF LeafIndex
  <2>4. h[l].dataSlots \in [LeafIndex -> DataSlot]
    BY <2>1 DEF leafNode
  <2> QED
    BY <2>2, <2>3, <2>4
<1>3. g[l].dataSlots = [h[l].dataSlots EXCEPT ![s] = d]
  BY <1>2, DataAppended
<1> DEFINE P(r, i) == <<r.keySlots[i], r.dataSlots[i]>>
<1>4. g[l].slotsinuse - 1 = s /\ P(g[l], s) = <<k, d>>
  BY <1>1, <1>2, <1>3 DEF LeafLonger
<1>5. ASSUME NEW i \in 0 .. s - 1 PROVE P(g[l], i) = P(h[l], i)
  <2>1. i # s /\ g[l].keySlots[i] = h[l].keySlots[i]
    BY <1>1, <1>2 DEF LeafLonger
  <2> QED
    BY <1>2, <1>3, <2>1
<1> HIDE DEF P
<1>6. {P(g[l], i) : i \in 0 .. s} = {P(h[l], i) : i \in 0 .. s - 1} \cup {<<k, d>>}
  <2>1. 0 .. s = (0 .. s - 1) \cup {s}
    BY <1>2
  <2> QED
    BY <1>4, <1>5, <2>1
<1> QED
  BY <1>4, <1>6 DEF LeafPairs, P

\* The pairs of the two leaves that a full leaf is split into.
LEMMA PairsSplit ==
    ASSUME NEW r \in leafNode, isfull(r), NEW k \in Keys, NEW d,
           \A i \in 0 .. r.slotsinuse - 1 : r.keySlots[i] \in Keys /\ r.keySlots[i] < k
    PROVE  LET s == SplitLeaf(r, k, d)
           IN  LeafPairs(s.ln) \cup LeafPairs(s.lp) = LeafPairs(r) \cup {<<k, d>>}
<1> DEFINE above == SlotsAbove(r, k)
           n     == r.slotsinuse
           first == IF above # {} /\ Least(above) = 0 THEN 1 ELSE 0
           keys  == [r.keySlots  EXCEPT ![0] = IF first = 1 THEN k ELSE @]
           data  == [r.dataSlots EXCEPT ![0] = IF first = 1 THEN d ELSE @]
           pos   == IF above = {} THEN n ELSE IF first = 1 THEN 1 ELSE Least(above)
           half  == n \div 2
           low   == IF pos < half THEN half + 1 ELSE half
           Pair(i) == IF i < pos THEN <<keys[i], data[i]>>
                      ELSE IF i = pos THEN <<k, d>> ELSE <<keys[i - 1], data[i - 1]>>
           Leaf(from, count) ==
             [NewLeaf EXCEPT
                !.slotsinuse = count,
                !.keySlots   = [i \in LeafIndex |->
                                   IF i < count THEN Pair(from + i)[1] ELSE Junk],
                !.dataSlots  = [i \in LeafIndex |->
                                   IF i < count THEN Pair(from + i)[2] ELSE EmptyData]]
<1>1. /\ n \in Nat /\ n = LeafSlots /\ n \in 2 .. 1000 /\ r.keySlots \in [0 .. n - 1 -> KeySlot]
      /\ r.dataSlots \in [0 .. n - 1 -> DataSlot]
  BY NodeTypes, SlotsAssumption DEF isfull, node, leafNode, LeafIndex
<1>2. half \in Nat /\ 1 <= half /\ half < n
  <2> HIDE DEF n
  <2> QED
    BY <1>1
<1>3. above = {}
  <2>1. \A i \in 0 .. n - 1 : ~(r.keySlots[i] > k)
    BY KeysAssumption
  <2> QED
    BY <2>1 DEF SlotsAbove
<1>4. first = 0 /\ pos = n
  BY <1>3
<1>5. keys = r.keySlots /\ data = r.dataSlots
  BY <1>1, <1>4
<1> HIDE DEF above, first, keys, data, pos
<1>6. low = half
  BY <1>1, <1>2, <1>4
<1>7. ASSUME NEW i \in 0 .. n
      PROVE  Pair(i) = IF i < n THEN <<r.keySlots[i], r.dataSlots[i]>> ELSE <<k, d>>
  BY <1>1, <1>4, <1>5
<1>8. \A i : Pair(i) = <<Pair(i)[1], Pair(i)[2]>>
  OBVIOUS
<1> HIDE DEF Pair
<1>9. ASSUME NEW from \in 0 .. n, NEW count \in 0 .. n, from + count <= n + 1
      PROVE  LeafPairs(Leaf(from, count)) = {Pair(from + i) : i \in 0 .. count - 1}
  <2> DEFINE ks == [i \in LeafIndex |-> IF i < count THEN Pair(from + i)[1] ELSE Junk]
             ds == [i \in LeafIndex |-> IF i < count THEN Pair(from + i)[2] ELSE EmptyData]
  <2>1. Leaf(from, count) = [NewLeaf EXCEPT !.slotsinuse = count, !.keySlots = ks, !.dataSlots = ds]
    OBVIOUS
  <2>2. ASSUME NEW i \in 0 .. count - 1 PROVE <<ks[i], ds[i]>> = Pair(from + i)
    <3>1. i \in LeafIndex /\ i < count
      BY <1>1, <1>9 DEF LeafIndex
    <3> QED
      BY <1>8, <3>1
  <2> HIDE DEF ks, ds, Leaf, n
  <2>3. /\ Leaf(from, count).slotsinuse = count /\ Leaf(from, count).keySlots = ks
        /\ Leaf(from, count).dataSlots = ds
    BY <2>1 DEF NewLeaf
  <2> QED
    BY <2>2, <2>3 DEF LeafPairs
<1>10. SplitLeaf(r, k, d) = [ln |-> Leaf(0, low), lp |-> Leaf(low, n + 1 - low)]
  BY DEF SplitLeaf, above, first, keys, data, pos, Pair
<1> HIDE DEF Leaf, low, half
<1>11. SplitLeaf(r, k, d).ln = Leaf(0, half) /\ SplitLeaf(r, k, d).lp = Leaf(half, n + 1 - half)
  BY <1>6, <1>10
<1> HIDE DEF n
<1>12. /\ LeafPairs(Leaf(0, half)) = {Pair(0 + i) : i \in 0 .. half - 1}
       /\ LeafPairs(Leaf(half, n + 1 - half)) = {Pair(half + i) : i \in 0 .. (n + 1 - half) - 1}
  <2>1. 0 \in 0 .. n /\ half \in 0 .. n /\ 0 + half <= n + 1
    BY <1>1, <1>2
  <2>2. n + 1 - half \in 0 .. n /\ half + (n + 1 - half) <= n + 1
    BY <1>1, <1>2
  <2> QED
    BY <1>9, <2>1, <2>2
<1>13. {Pair(0 + i) : i \in 0 .. half - 1} \cup {Pair(half + i) : i \in 0 .. (n + 1 - half) - 1}
          = {Pair(i) : i \in 0 .. n}
  <2>1. ASSUME NEW i \in 0 .. half - 1 PROVE 0 + i \in 0 .. n
    BY <1>1, <1>2
  <2>2. ASSUME NEW i \in 0 .. (n + 1 - half) - 1 PROVE half + i \in 0 .. n
    BY <1>1, <1>2
  <2>3. ASSUME NEW i \in 0 .. n, i < half
        PROVE  i \in 0 .. half - 1 /\ i = 0 + i
    BY <1>1, <1>2, <2>3
  <2>4. ASSUME NEW i \in 0 .. n, ~(i < half)
        PROVE  i - half \in 0 .. (n + 1 - half) - 1 /\ i = half + (i - half)
    BY <1>1, <1>2, <2>4
  <2> DEFINE A == {Pair(0 + i) : i \in 0 .. half - 1}
             B == {Pair(half + i) : i \in 0 .. (n + 1 - half) - 1}
             C == {Pair(i) : i \in 0 .. n}
  <2>5. A \subseteq C
    BY <2>1
  <2>6. B \subseteq C
    BY <2>2
  <2>7. ASSUME NEW i \in 0 .. n PROVE Pair(i) \in A \/ Pair(i) \in B
    <3>1. CASE i < half
      BY <2>3, <3>1
    <3>2. CASE ~(i < half)
      <4>1. Pair(half + (i - half)) \in B
        BY <2>4, <3>2
      <4> QED
        BY <2>4, <3>2, <4>1
    <3> QED
      BY <3>1, <3>2
  <2> HIDE DEF A, B
  <2> QED
    BY <2>5, <2>6, <2>7 DEF A, B
<1>14. {Pair(i) : i \in 0 .. n} = LeafPairs(r) \cup {<<k, d>>}
  <2>1. 0 .. n = (0 .. n - 1) \cup {n}
    BY <1>1
  <2>2. \A i \in 0 .. n - 1 : Pair(i) = <<r.keySlots[i], r.dataSlots[i]>>
    BY <1>1, <1>7
  <2>3. Pair(n) = <<k, d>>
    BY <1>1, <1>7
  <2> QED
    BY <2>1, <2>2, <2>3 DEF LeafPairs, n
<1> QED
  BY <1>11, <1>12, <1>13, <1>14

-----------------------------------------------------------------------------
\* A leaf comes into the books, or goes out of them.
LEMMA LeafAdded ==
    ASSUME NEW h, NEW X, NEW o \in NodeIds, o \notin X, IsLeaf(h, o), h[o].slotsinuse \in Nat,
           h[o].slotsinuse <= LeafSlots, NEW Y, Y = X \cup {o}, NEW n, NEW S, Books(h, Y, n, S)
    PROVE  Books(h, X, n + h[o].slotsinuse, S \cup LeafPairs(h[o]))
<1>1. /\ IsFiniteSet(LeafEntries(h, Y)) /\ Cardinality(LeafEntries(h, Y)) = n
      /\ PairsIn(h, Y) = S
  BY DEF Books
<1>2. /\ IsFiniteSet(LeafEntries(h, X))
      /\ Cardinality(LeafEntries(h, X)) = Cardinality(LeafEntries(h, Y)) + h[o].slotsinuse
      /\ PairsIn(h, X) = PairsIn(h, Y) \cup LeafPairs(h[o])
  BY <1>1, LeafTaken
<1> QED
  BY <1>1, <1>2 DEF Books

\* A leaf o is taken out of the books.
LEMMA LeafRemoved ==
    ASSUME NEW h, NEW o \in NodeIds, IsLeaf(h, o), h[o].slotsinuse \in Nat,
           h[o].slotsinuse <= LeafSlots, NEW n, NEW S, Books(h, {}, n, S)
    PROVE  /\ Books(h, {o}, n - h[o].slotsinuse, PairsIn(h, {o}))
           /\ S = PairsIn(h, {o}) \cup LeafPairs(h[o]) /\ n \in Nat
<1> DEFINE c == Cardinality(LeafEntries(h, {o}))
           s == h[o].slotsinuse
<1>1. /\ IsFiniteSet(LeafEntries(h, {})) /\ Cardinality(LeafEntries(h, {})) = n
      /\ PairsIn(h, {}) = S /\ {} \cup {o} = {o}
  BY DEF Books
<1>2. /\ IsFiniteSet(LeafEntries(h, {o})) /\ c \in Nat /\ n = c + s
      /\ S = PairsIn(h, {o}) \cup LeafPairs(h[o])
  <2>1. o \notin {}
    OBVIOUS
  <2>2. /\ IsFiniteSet(LeafEntries(h, {} \cup {o}))
        /\ Cardinality(LeafEntries(h, {} \cup {o})) \in Nat
        /\ Cardinality(LeafEntries(h, {})) =
              Cardinality(LeafEntries(h, {} \cup {o})) + h[o].slotsinuse
        /\ PairsIn(h, {}) = PairsIn(h, {} \cup {o}) \cup LeafPairs(h[o])
    BY <1>1, <2>1, LeafTaken, Zenon
  <2> QED
    BY <1>1, <2>2
<1>3. c = n - s /\ n \in Nat
  <2> HIDE DEF c
  <2> QED
    BY <1>2
<1> QED
  BY <1>2, <1>3 DEF Books

\* The books after a pair was stored behind the others of a leaf.
LEMMA BooksAppended ==
    ASSUME NEW h \in Heap, NEW l, IsLeaf(h, l), NEW s, s = h[l].slotsinuse, s < LeafSlots,
           NEW k \in KeySlot, NEW d \in DataSlot, NEW g, g = insertleafAt(h, l, k, d, s),
           NEW n, NEW S, Books(h, {}, n, S)
    PROVE  Books(g, {}, n + 1, S \cup {<<k, d>>})
<1>1. LeafLonger(h, g, l, s, k) /\ LeafPairs(g[l]) = LeafPairs(h[l]) \cup {<<k, d>>}
  <2>1. LeafLonger(h, g, l, s, k)
    BY LeafAppended, Zenon
  <2>2. LeafPairs(g[l]) = LeafPairs(h[l]) \cup {<<k, d>>}
    BY PairAppended
  <2> QED
    BY <2>1, <2>2
<1>2. s \in Nat /\ l \in NodeIds /\ s + 1 \in Nat /\ s + 1 <= LeafSlots /\ s <= LeafSlots
  <2>1. s \in Nat /\ l \in NodeIds
    BY LiveTypes, NodeTypes DEF node
  <2> QED
    BY <2>1, SlotsAssumption
<1> DEFINE T == PairsIn(h, {l})
<1>3. Books(h, {l}, n - s, T) /\ S = T \cup LeafPairs(h[l]) /\ n \in Nat
  <2>1. h[l].slotsinuse \in Nat /\ h[l].slotsinuse <= LeafSlots
    BY <1>2
  <2>2. /\ Books(h, {l}, n - h[l].slotsinuse, PairsIn(h, {l}))
        /\ S = PairsIn(h, {l}) \cup LeafPairs(h[l]) /\ n \in Nat
    BY <1>2, <2>1, LeafRemoved, Zenon
  <2> QED
    BY <2>2
<1> HIDE DEF T
<1>4. IsLeaf(g, l) /\ \A m : IsLeaf(g, m) <=> IsLeaf(h, m)
  BY <1>1, EditsKeep DEF LeafLonger
<1>5. SameLeaves(h, {l}, g, {l})
  BY <1>1, <1>4 DEF LeafLonger, SameLeaves, SameData
<1>6. Books(g, {l}, n - s, T)
  BY <1>3, <1>5, BooksKept
<1>7. g[l].slotsinuse = s + 1
  BY <1>1 DEF LeafLonger
<1>8. Books(g, {}, (n - s) + (s + 1), T \cup LeafPairs(g[l]))
  <2>1. g[l].slotsinuse \in Nat /\ g[l].slotsinuse <= LeafSlots /\ {l} = {} \cup {l}
    BY <1>2, <1>7
  <2>2. Books(g, {}, (n - s) + g[l].slotsinuse, T \cup LeafPairs(g[l]))
    BY <1>2, <1>4, <1>6, <2>1, LeafAdded, Zenon
  <2> QED
    BY <1>7, <2>2
<1>9. (n - s) + (s + 1) = n + 1
  BY <1>2, <1>3
<1>10. T \cup LeafPairs(g[l]) = S \cup {<<k, d>>}
  BY <1>1, <1>3
<1> QED
  BY <1>8, <1>9, <1>10

\* The books after an empty leaf was allocated.
LEMMA BooksEmpty ==
    ASSUME NEW h \in Heap, NEW l \in NodeIds, h[l] = Free, NEW r \in leafNode, r.slotsinuse = 0,
           NEW n, NEW S, Books(h, {}, n, S), n \in Int
    PROVE  Books(new(h, l, r), {}, n, S)
<1> DEFINE g == new(h, l, r)
<1>1. g[l] = r /\ \A m \in NodeIds : m # l => g[m] = h[m]
  BY DEF new, Heap
<1>2. r.isleafnode /\ r # Free
  BY FreeAssumption DEF leafNode, node
<1> HIDE DEF g
<1>3. IsLeaf(g, l) /\ ~IsLeaf(h, l)
  BY <1>1, <1>2 DEF IsLeaf, Live
<1>4. SameLeaves(h, {}, g, {l})
  <2>1. ASSUME NEW m \in NodeIds
        PROVE  /\ IsLeaf(h, m) <=> IsLeaf(g, m) /\ m # l
               /\ IsLeaf(h, m) => SameData(h[m], g[m])
    BY <1>1, <1>3 DEF IsLeaf, Live, SameData
  <2> QED
    BY <2>1 DEF SameLeaves
<1>5. Books(g, {l}, n, S)
  BY <1>4, BooksKept
<1>6. Books(g, {}, n + g[l].slotsinuse, S \cup LeafPairs(g[l]))
  <2>1. g[l].slotsinuse \in Nat /\ g[l].slotsinuse <= LeafSlots /\ {l} = {} \cup {l}
    BY <1>1, SlotsAssumption
  <2> QED
    BY <1>3, <1>5, <2>1, LeafAdded, Zenon
<1>7. LeafPairs(g[l]) = {}
  BY <1>1 DEF LeafPairs
<1>8. n + g[l].slotsinuse = n /\ S \cup LeafPairs(g[l]) = S
  BY <1>1, <1>7
<1> QED
  BY <1>6, <1>8 DEF g

\* The books after a full leaf was split, the old leaf left out of them.
LEMMA BooksDivided ==
    ASSUME NEW h \in Heap, NEW o, IsLeaf(h, o), isfull(h[o]), NEW k \in Keys, NEW d \in DataSlot,
           \A i \in 0 .. h[o].slotsinuse - 1 : h[o].keySlots[i] \in Keys /\ h[o].keySlots[i] < k,
           NEW a \in NodeIds, NEW b \in NodeIds, a # b, h[a] = Free, h[b] = Free,
           NEW s, s = SplitLeaf(h[o], k, d),
           NEW g, g = new(new(h, a, [s.ln EXCEPT !.nextLeaf = b]), b, [s.lp EXCEPT !.prevLeaf = a]),
           NEW n, NEW S, Books(h, {}, n, S)
    PROVE  Books(g, {o}, n + 1, S \cup {<<k, d>>})
<1> DEFINE x == [s.ln EXCEPT !.nextLeaf = b]
           y == [s.lp EXCEPT !.prevLeaf = a]
<1>1. h[o] \in leafNode /\ o \in NodeIds /\ a # o /\ b # o /\ ~IsLeaf(h, a) /\ ~IsLeaf(h, b)
      /\ k \in KeySlot
  BY LiveTypes DEF KeySlot, IsLeaf, Live
<1>2. s.ln \in leafNode /\ s.lp \in leafNode
  BY <1>1, SplitLeafTypes
<1>3. x \in leafNode /\ y \in leafNode /\ SameData(s.ln, x) /\ SameData(s.lp, y)
  <2>1. a \in Pointer /\ b \in Pointer
    BY DEF Pointer
  <2>2. x \in leafNode /\ y \in leafNode
    BY <1>2, <2>1, LeafUpdates DEF leafNode
  <2>3. SameData(s.ln, x) /\ SameData(s.lp, y)
    BY <1>2 DEF leafNode, SameData
  <2> QED
    BY <2>2, <2>3
<1>4. LeafPairs(s.ln) \cup LeafPairs(s.lp) = LeafPairs(h[o]) \cup {<<k, d>>}
  BY <1>1, PairsSplit
<1>5. LeafPairs(x) = LeafPairs(s.ln) /\ LeafPairs(y) = LeafPairs(s.lp)
  <2> HIDE DEF x, y
  <2> QED
    BY <1>3 DEF SameData, LeafPairs
<1> DEFINE u == h[o].slotsinuse
           half == u \div 2
<1>6. /\ half \in Nat /\ half < u /\ u = LeafSlots /\ u \in Nat
      /\ s.ln.slotsinuse = half /\ s.lp.slotsinuse = u + 1 - half /\ 1 <= half
  <2>1. SplitAppends(h[o], s, k)
    BY <1>1, SplitLeafAppends
  <2> QED
    BY <2>1 DEF SplitAppends
<1>7. x.slotsinuse = half /\ y.slotsinuse = u + 1 - half
  <2> HIDE DEF x, y, half
  <2> QED
    BY <1>3, <1>6 DEF SameData
<1> HIDE DEF x, y, half
<1>8. /\ g[a] = x /\ g[b] = y /\ \A m \in NodeIds : m \notin {a, b} => g[m] = h[m]
  <2>1. g = new(new(h, a, x), b, y)
    BY DEF x, y
  <2> QED
    BY <2>1 DEF new, Heap
<1>9. IsLeaf(g, a) /\ IsLeaf(g, b)
  BY <1>3, <1>8, FreeAssumption DEF leafNode, node, IsLeaf, Live
<1>10. Books(h, {o}, n - u, PairsIn(h, {o})) /\ S = PairsIn(h, {o}) \cup LeafPairs(h[o])
       /\ n \in Nat
  <2>1. h[o].slotsinuse \in Nat /\ h[o].slotsinuse <= LeafSlots
    BY <1>6
  <2>2. /\ Books(h, {o}, n - h[o].slotsinuse, PairsIn(h, {o}))
        /\ S = PairsIn(h, {o}) \cup LeafPairs(h[o]) /\ n \in Nat
    BY <1>1, <2>1, LeafRemoved, Zenon
  <2> QED
    BY <2>2
<1> DEFINE T == PairsIn(h, {o})
<1> HIDE DEF T, u
<1>11. SameLeaves(h, {o}, g, {o, a, b})
  <2>1. ASSUME NEW m \in NodeIds
        PROVE  /\ IsLeaf(h, m) /\ m \notin {o} <=> IsLeaf(g, m) /\ m \notin {o, a, b}
               /\ IsLeaf(h, m) /\ m \notin {o} => SameData(h[m], g[m])
    BY <1>1, <1>8 DEF IsLeaf, Live, SameData
  <2> QED
    BY <2>1 DEF SameLeaves
<1>12. Books(g, {o, a, b}, n - u, T)
  BY <1>10, <1>11, BooksKept DEF T
<1>13. Books(g, {o, a}, (n - u) + (u + 1 - half), T \cup LeafPairs(y))
  <2>1. g[b].slotsinuse \in Nat /\ g[b].slotsinuse <= LeafSlots /\ b \notin {o, a}
        /\ {o, a, b} = {o, a} \cup {b} /\ g[b].slotsinuse = u + 1 - half /\ g[b] = y
    BY <1>1, <1>6, <1>7, <1>8
  <2>2. Books(g, {o, a}, (n - u) + g[b].slotsinuse, T \cup LeafPairs(g[b]))
    BY <1>9, <1>12, <2>1, LeafAdded, Zenon
  <2> QED
    BY <2>1, <2>2
<1>14. Books(g, {o}, ((n - u) + (u + 1 - half)) + half, (T \cup LeafPairs(y)) \cup LeafPairs(x))
  <2>1. g[a].slotsinuse \in Nat /\ g[a].slotsinuse <= LeafSlots /\ a \notin {o}
        /\ {o, a} = {o} \cup {a} /\ g[a].slotsinuse = half /\ g[a] = x
    BY <1>1, <1>6, <1>7, <1>8
  <2>2. Books(g, {o}, ((n - u) + (u + 1 - half)) + g[a].slotsinuse,
              (T \cup LeafPairs(y)) \cup LeafPairs(g[a]))
    BY <1>9, <1>13, <2>1, LeafAdded, Zenon
  <2> QED
    BY <2>1, <2>2
<1>15. ((n - u) + (u + 1 - half)) + half = n + 1
  BY <1>6, <1>10
<1>16. (T \cup LeafPairs(y)) \cup LeafPairs(x) = S \cup {<<k, d>>}
  <2>1. S = T \cup LeafPairs(h[o])
    BY <1>10 DEF T
  <2> QED
    BY <1>4, <1>5, <2>1
<1> QED
  BY <1>14, <1>15, <1>16

-----------------------------------------------------------------------------
\* The leaves and keys of the entries.
LEMMA EntryKeys ==
    ASSUME AppendInv, NEW t, Resting(heap, t, root), NEW e \in Pairs(heap, t)
    PROVE  /\ e[1] \in t.G /\ t.lev[e[1]] = 0 /\ IsLeaf(heap, e[1])
           /\ e[2] \in 0 .. heap[e[1]].slotsinuse - 1
           /\ heap[e[1]].keySlots[e[2]] \in Keys /\ heap[e[1]].keySlots[e[2]] \in Int
           /\ t.lo[e[1]] <= heap[e[1]].keySlots[e[2]] /\ heap[e[1]].keySlots[e[2]] < t.hi[e[1]]
           /\ heap[e[1]].keySlots[e[2]] < t.top
<1> DEFINE l == e[1]
           i == e[2]
<1>1. l \in t.G /\ t.lev[l] = 0 /\ i \in LeafIndex /\ i < heap[l].slotsinuse
  BY DEF Pairs
<1>2. SearchTree(t) /\ Says(heap, t, l)
  BY <1>1, RestingNode
<1>3. LeafSays(heap, t, l) /\ IsLeaf(heap, l)
  BY <1>1, <1>2 DEF Says, LeafSays
<1>4. heap \in Heap
  BY DEF AppendInv, RootInv, InsertInv, TypeInv, TypeOK
<1>5. heap[l].slotsinuse \in Nat
  BY <1>3, <1>4, LiveTypes, NodeTypes DEF node
<1>6. i \in 0 .. heap[l].slotsinuse - 1
  BY <1>1, <1>5, SlotsAssumption DEF LeafIndex
<1>7. t.hi[l] \in Int /\ t.top \in Int /\ t.hi[l] <= t.top /\ t.lo[l] \in Int
  BY <1>1, <1>2, Numbers
<1> HIDE DEF l, i
<1>8. /\ heap[l].keySlots[i] \in Keys
      /\ t.lo[l] <= heap[l].keySlots[i] /\ heap[l].keySlots[i] < t.hi[l]
  BY <1>3, <1>6 DEF LeafSays
<1>9. heap[l].keySlots[i] \in Int
  BY <1>8, KeysAssumption
<1>10. heap[l].keySlots[i] < t.top
  BY <1>7, <1>8, <1>9
<1> QED
  BY <1>1, <1>3, <1>6, <1>8, <1>9, <1>10 DEF l, i

\* Between two splits, what is committed are the pairs of the tree.
LEMMA CommittedPairs ==
    ASSUME RefineInv, ~Divided
    PROVE  /\ committed = {PairAt(heap, e) : e \in LeafEntries(heap, {})}
           /\ Contents = committed
           /\ root # NULL => \A t : Resting(heap, t, root) => LeafEntries(heap, {}) = Pairs(heap, t)
<1>1. AppendInv /\ Books(heap, {}, totalkeycount, committed)
  BY DEF RefineInv, Kept, Old
<1>2. /\ IsFiniteSet(LeafEntries(heap, {})) /\ Cardinality(LeafEntries(heap, {})) = totalkeycount
      /\ PairsIn(heap, {}) = committed
  BY <1>1 DEF Books
<1>3. /\ Contents = PairsIn(heap, {}) /\ Entries = LeafEntries(heap, {})
      /\ root # NULL => \A t : Resting(heap, t, root) => Entries = Pairs(heap, t)
  BY <1>1, <1>2, Gathered
<1> QED
  BY <1>2, <1>3 DEF PairsIn

\* The key that is inserted is not there yet.
LEMMA NewHere ==
    ASSUME RefineInv, pc = "insert"
    PROVE  Fresh
<1>1. AppendInv /\ ~Divided /\ root # NULL
  BY Shaped DEF RefineInv, Divided
<1>2. PICK t : Shape(heap, t, pc, local, call, root)
  BY <1>1, Shaped
<1>3. Resting(heap, t, root) /\ SearchTree(t) /\ call.key \in Keys /\ call.key >= t.top
      /\ local.at \in t.G /\ call.op = "insert"
  BY <1>1, <1>2, AtInsert DEF Shape, Looking
<1>4. committed = {PairAt(heap, e) : e \in Pairs(heap, t)}
  BY <1>1, <1>3, CommittedPairs
<1>5. call.key \in Int /\ t.top \in Int
  BY <1>3, KeysAssumption, Numbers
<1>6. ASSUME NEW e \in Pairs(heap, t) PROVE PairAt(heap, e)[1] # call.key
  <2>1. heap[e[1]].keySlots[e[2]] \in Int /\ heap[e[1]].keySlots[e[2]] < t.top
    BY <1>1, <1>3, EntryKeys
  <2>2. heap[e[1]].keySlots[e[2]] # call.key
    BY <1>3, <1>5, <2>1
  <2> QED
    BY <2>2 DEF PairAt
<1> QED
  BY <1>3, <1>4, <1>6 DEF Fresh

-----------------------------------------------------------------------------
\* How committed follows.
Follow == committed' = IF pc' = "idle" THEN Contents' ELSE committed

\* A step that ends a call with S in the books commits S.
LEMMA ReturnCommits ==
    ASSUME AppendInv', Follow, pc' = "idle", NEW g, heap' = g, NEW S,
           Books(g, {}, totalkeycount', S)
    PROVE  Kept' /\ committed' = S
<1>1. ~Divided' /\ Old' = {}
  BY DEF Divided, Old
<1>2. Contents' = S
  BY <1>1, GatheredNext
<1>3. committed' = S
  BY <1>2 DEF Follow
<1> QED
  BY <1>1, <1>3 DEF Kept

\* A step on the way up.
LEMMA ClimbKeeps ==
    ASSUME Follow, pc' \in {"insert_in_parent", "split_parent"}, call' = call,
           NEW g, heap' = g, NEW l, local' = l,
           Books(g, {l.n}, totalkeycount', committed \cup {NewPair}), Fresh,
           \A m \in l.leaked : ~IsLeaf(g, m)
    PROVE  Kept' /\ committed' = committed
<1>1. Divided' /\ Old' = {l.n} /\ NewPair' = NewPair /\ committed' = committed
  BY DEF Divided, Old, NewPair, Follow
<1>2. Fresh'
  BY <1>1 DEF Fresh
<1> QED
  BY <1>1, <1>2 DEF Kept

\* A step that leaves the leaves and the count alone.
LEMMA LookKeeps ==
    ASSUME RefineInv, AppendInv', Follow, ~Divided, ~Divided', UNCHANGED <<heap, totalkeycount>>
    PROVE  Kept' /\ committed' = committed
<1>1. Books(heap, {}, totalkeycount, committed)
  BY DEF RefineInv, Kept, Old
<1>2. CASE pc' = "idle"
  BY <1>1, <1>2, ReturnCommits
<1>3. CASE pc' # "idle"
  <2>1. Old' = {} /\ committed' = committed
    BY <1>3 DEF Old, Follow
  <2> QED
    BY <1>1, <2>1 DEF Kept
<1> QED
  BY <1>2, <1>3

\* What a call that returns does to the control.
LEMMA ReturnDone ==
    ASSUME AppendInv', NEW g, NEW c, NEW d, Return(g, c, d)
    PROVE  g # Fault /\ heap' = g /\ pc' = "idle" /\ result' = [code |-> c, data |-> d]
  BY DEF Return, Go, AppendInv, Grown

-----------------------------------------------------------------------------
\* An insertion returns, and goes on.
Inserted ==
    /\ Kept' /\ committed' = committed \cup {NewPair}
    /\ pc' = "idle" /\ result' = [code |-> "ok", data |-> EmptyData]
Climbed ==
    /\ Kept' /\ committed' = committed /\ Fresh
    /\ pc' \in {"insert_in_parent", "split_parent"} /\ UNCHANGED <<call, result>>

\* The first pair.
LEMMA MakeRootKeepsBooks ==
    ASSUME RefineInv, AppendInv', Follow, NEW k \in Keys, NEW d \in PayloadsOf[k], MakeRoot(k, d)
    PROVE  /\ Kept' /\ committed' = committed \cup {<<k, d>>} /\ committed = {}
           /\ pc = "idle" /\ pc' = "idle" /\ call' = [op |-> "insert", key |-> k, data |-> d]
           /\ result' = [code |-> "ok", data |-> EmptyData]
<1> DEFINE l == FirstId
           r == [NewLeaf EXCEPT !.isrootnode = TRUE]
           h == new(heap, l, r)
           g == insertleafAt(h, l, k, d, 0)
<1>1. /\ pc = "idle" /\ root = NULL /\ totalkeycount' = totalkeycount + 1
      /\ call' = [op |-> "insert", key |-> k, data |-> d] /\ Return(g, "ok", EmptyData)
  BY DEF MakeRoot
<1>2. UnusedIds # {}
  <2>1. Cardinality(UnusedIds) >= Reserve /\ Reserve \in Nat \ {0}
    BY WorkloadAssumption DEF MakeRoot
  <2>2. UnusedIds = {} => Cardinality(UnusedIds) = 0
    BY FS_EmptySet, Zenon
  <2> QED
    BY <2>1, <2>2
<1>3. heap \in Heap /\ l \in NodeIds /\ heap[l] = Free
  BY <1>2, FirstUnused DEF RefineInv, AppendInv, RootInv, InsertInv, TypeInv, TypeOK
<1>4. r \in leafNode /\ r.isleafnode /\ r.slotsinuse = 0 /\ r \in node
  BY NewNodes DEF node, leafNode, NewLeaf
<1>5. totalkeycount = 0 /\ AppendInv
  BY <1>1 DEF RefineInv, AppendInv, Grown
<1>6. Books(heap, {}, 0, committed)
  BY <1>1, <1>5 DEF RefineInv, Kept, Divided, Old
<1>7. committed = {}
  <2>1. LeafEntries(heap, {}) = {}
    BY <1>6, FS_EmptySet DEF Books
  <2> QED
    BY <1>6, <2>1 DEF Books, PairsIn
<1> HIDE DEF r, l
<1>8. h \in Heap /\ IsLeaf(h, l) /\ h[l] = r
  BY <1>3, <1>4, NewInHeap DEF IsLeaf
<1>9. Books(h, {}, 0, committed)
  BY <1>3, <1>4, <1>6, BooksEmpty
<1> HIDE DEF h
<1>10. k \in KeySlot /\ d \in DataSlot /\ 0 < LeafSlots /\ 0 = h[l].slotsinuse
  BY <1>4, <1>8, Data, SlotsAssumption
<1> HIDE DEF g
<1>11. Books(g, {}, 0 + 1, committed \cup {<<k, d>>})
  BY <1>8, <1>9, <1>10, BooksAppended DEF g
<1>12. g # Fault /\ heap' = g /\ pc' = "idle" /\ result' = [code |-> "ok", data |-> EmptyData]
  BY <1>1, ReturnDone, Zenon
<1>13. Kept' /\ committed' = committed \cup {<<k, d>>}
  <2>1. totalkeycount' = 0 + 1
    BY <1>1, <1>5
  <2> QED
    BY <1>11, <1>12, <2>1, ReturnCommits
<1> QED
  BY <1>1, <1>7, <1>12, <1>13

\* A pair goes into the last leaf.
LEMMA InsertPairKeepsBooks ==
    ASSUME RefineInv, AppendInv', Follow, NEW junk, InsertPair(junk)
    PROVE  Inserted
<1> DEFINE o == local.at
           k == call.key
           d == call.data
           s == heap[o].slotsinuse
           g == insertleafpair(heap, o, k, d, junk)
<1>1. pc = "insert" /\ totalkeycount' = totalkeycount + 1 /\ Return(g, "ok", EmptyData)
      /\ PairResult(heap, o, k, d, junk) = "inserted" /\ AppendInv
  BY DEF InsertPair, RefineInv
<1>2. heap \in Heap
  BY <1>1, Shaped
<1>3. PICK t : Shape(heap, t, pc, local, call, root)
  BY <1>1, Shaped
<1>4. /\ SearchTree(t) /\ o \in t.G /\ t.lev[o] = 0 /\ k \in Keys /\ k >= t.top /\ d \in DataSlot
      /\ IsLeaf(heap, o) /\ s \in Nat /\ s <= LeafSlots /\ Says(heap, t, o)
  BY <1>1, <1>3, AtInsert
<1>5. s < LeafSlots
  <2>1. s # LeafSlots
    BY <1>1 DEF PairResult, isfull
  <2> QED
    BY <1>4, <2>1, SlotsAssumption
<1>6. g = insertleafAt(heap, o, k, d, s)
  <2>1. findKeyLoc(heap[o], k) = s
    BY <1>2, <1>4, LastKeys
  <2> QED
    BY <1>1, <2>1 DEF insertleafpair
<1>7. k \in KeySlot
  BY <1>4 DEF KeySlot
<1>8. Books(heap, {}, totalkeycount, committed)
  BY <1>1 DEF RefineInv, Kept, Divided, Old
<1>9. NewPair = <<k, d>>
  BY DEF NewPair
<1>10. g # Fault /\ heap' = g /\ pc' = "idle" /\ result' = [code |-> "ok", data |-> EmptyData]
  <2> HIDE DEF g
  <2> QED
    BY <1>1, ReturnDone, Zenon
<1> HIDE DEF o, k, d, g
<1>11. Books(g, {}, totalkeycount + 1, committed \cup {<<k, d>>})
  BY <1>2, <1>4, <1>5, <1>6, <1>7, <1>8, BooksAppended
<1>12. Kept' /\ committed' = committed \cup {NewPair}
  BY <1>1, <1>9, <1>10, <1>11, ReturnCommits
<1> QED
  BY <1>10, <1>12 DEF Inserted

\* A full leaf is split.
LEMMA SplitFullLeafKeepsBooks ==
    ASSUME RefineInv, AppendInv', Follow, SplitFullLeaf
    PROVE  Climbed
<1> DEFINE o == local.at
           a == FirstId
           b == SecondId
           k == call.key
           d == call.data
           s == SplitLeaf(heap[o], k, d)
           g == new(new(heap, a, [s.ln EXCEPT !.nextLeaf = b]), b, [s.lp EXCEPT !.prevLeaf = a])
           l == [parent |-> heap[o].parent, N |-> a, k |-> s.lp.keySlots[0], Nprime |-> b,
                 n |-> o, leaked |-> {}]
<1>1. /\ pc = "insert" /\ isfull(heap[o]) /\ CanAllocate /\ Go(g, "insert_in_parent", l)
      /\ totalkeycount' = totalkeycount + 1 /\ UNCHANGED <<root, call, result>> /\ AppendInv
  BY DEF SplitFullLeaf, RefineInv
<1>2. heap \in Heap
  BY <1>1, Shaped
<1>3. PICK t : Shape(heap, t, pc, local, call, root)
  BY <1>1, Shaped
<1>4. /\ SearchTree(t) /\ o \in t.G /\ t.lev[o] = 0 /\ k \in Keys /\ k >= t.top /\ d \in DataSlot
      /\ IsLeaf(heap, o) /\ Says(heap, t, o)
  BY <1>1, <1>3, AtInsert
<1>5. \A i \in 0 .. heap[o].slotsinuse - 1 : heap[o].keySlots[i] \in Keys /\ heap[o].keySlots[i] < k
  BY <1>2, <1>4, LastKeys
<1>6. a \in NodeIds /\ b \in NodeIds /\ a # b /\ heap[a] = Free /\ heap[b] = Free
  BY <1>1, Addresses
<1>7. Books(heap, {}, totalkeycount, committed)
  BY <1>1 DEF RefineInv, Kept, Divided, Old
<1>8. NewPair = <<k, d>> /\ l.n = o /\ l.leaked = {}
  BY DEF NewPair
<1> HIDE DEF o, a, b, k, d, l
<1>9. heap' = g /\ pc' = "insert_in_parent" /\ local' = l
  <2> HIDE DEF g
  <2> QED
    BY <1>1 DEF Go, AppendInv, Grown
<1>10. Books(g, {o}, totalkeycount + 1, committed \cup {<<k, d>>})
  <2>1. /\ s = SplitLeaf(heap[o], k, d)
        /\ g = new(new(heap, a, [s.ln EXCEPT !.nextLeaf = b]), b, [s.lp EXCEPT !.prevLeaf = a])
    OBVIOUS
  <2> HIDE DEF s, g
  <2> QED
    BY <1>1, <1>2, <1>4, <1>5, <1>6, <1>7, <2>1, BooksDivided, Zenon
<1> HIDE DEF g
<1>11. Fresh
  BY <1>1, NewHere
<1>12. Kept' /\ committed' = committed
  BY <1>1, <1>8, <1>9, <1>10, <1>11, ClimbKeeps
<1> QED
  BY <1>1, <1>9, <1>11, <1>12 DEF Climbed

\* The end of an insertion frees the leaf that was split, and no other.
LEMMA InsertEndsKeepsBooks ==
    ASSUME RefineInv, AppendInv', Follow, pc = "insert_in_parent", NEW h \in Heap,
           h # Fault => SameLeaves(heap, {}, h, {}), InsertEnds(h), totalkeycount' = totalkeycount
    PROVE  Inserted
<1> DEFINE n      == local.n
           h1     == freeNode(h, n)
           unseen == local.leaked \ PointedTo(h1, NodeIds \ local.leaked)
           g      == [m \in NodeIds |-> IF m \in unseen THEN Free ELSE h1[m]]
           S      == committed \cup {NewPair}
<1>1. Return(g, "ok", EmptyData)
  BY DEF InsertEnds
<1>2. g # Fault /\ heap' = g /\ pc' = "idle" /\ result' = [code |-> "ok", data |-> EmptyData]
  <2> HIDE DEF g
  <2> QED
    BY <1>1, ReturnDone, Zenon
<1>3. h # Fault /\ h1 = [h EXCEPT ![n] = Free] /\ n \in NodeIds
  <2>1. h1 # Fault
    BY <1>2 DEF Fault
  <2>2. Live(h, n)
    BY <2>1 DEF freeNode
  <2> QED
    BY <2>2 DEF freeNode, Live, Fault
<1>4. Books(heap, {n}, totalkeycount, S) /\ \A m \in local.leaked : ~IsLeaf(heap, m)
  BY DEF RefineInv, Kept, Divided, Old
<1> HIDE DEF S
<1>5. SameLeaves(heap, {}, h, {})
  BY <1>3
<1>6. ASSUME NEW m \in NodeIds
      PROVE  /\ IsLeaf(heap, m) /\ m \notin {n} <=> IsLeaf(g, m) /\ m \notin {}
             /\ IsLeaf(heap, m) /\ m \notin {n} => SameData(heap[m], g[m])
  <2>1. /\ IsLeaf(heap, m) <=> IsLeaf(h, m)
        /\ IsLeaf(heap, m) => SameData(heap[m], h[m])
    BY <1>5 DEF SameLeaves
  <2>2. h1[m] = IF m = n THEN Free ELSE h[m]
    BY <1>3 DEF Heap
  <2>3. m \in unseen => ~IsLeaf(h, m)
    BY <1>4, <2>1
  <2>4. g[m] = IF m \in unseen \/ m = n THEN Free ELSE h[m]
    <3> HIDE DEF unseen, h1
    <3> QED
      BY <2>2
  <2> HIDE DEF g, unseen
  <2> QED
    BY <2>1, <2>3, <2>4 DEF IsLeaf, Live, SameData
<1> HIDE DEF g, n
<1>7. SameLeaves(heap, {n}, g, {})
  BY <1>6 DEF SameLeaves
<1>8. Books(g, {}, totalkeycount, S)
  BY <1>4, <1>7, BooksKept
<1>9. Kept' /\ committed' = S
  BY <1>2, <1>8, ReturnCommits
<1> QED
  BY <1>2, <1>9 DEF Inserted, S

-----------------------------------------------------------------------------
\* A step on the way up that is quiet.
LEMMA ClimbsOn ==
    ASSUME RefineInv, AppendInv', Follow, Divided, NEW g \in Heap,
           g # Fault => SameLeaves(heap, {}, g, {}),
           NEW p \in {"insert_in_parent", "split_parent"}, NEW l, Go(g, p, l), l.n = local.n,
           \A m \in l.leaked : m \in local.leaked \/ (m = local.parent /\ IsInner(heap, m)),
           UNCHANGED <<totalkeycount, call, result>>
    PROVE  Climbed
<1>1. TypeInv /\ pc \in {"insert_in_parent", "split_parent"}
  BY DEF RefineInv, AppendInv, RootInv, InsertInv, Divided
<1>2. local.leaked \in SUBSET NodeIds
  BY <1>1, AtInsertInParent
<1>3. g # Fault /\ heap' = g /\ pc' = p /\ local' = l
  BY DEF Go, AppendInv, Grown
<1>4. /\ Books(heap, {local.n}, totalkeycount, committed \cup {NewPair}) /\ Fresh
      /\ \A m \in local.leaked : ~IsLeaf(heap, m)
  BY DEF RefineInv, Kept, Old
<1>5. SameLeaves(heap, {local.n}, g, {local.n})
  BY <1>3, SameWithout
<1>6. Books(g, {l.n}, totalkeycount', committed \cup {NewPair})
  BY <1>4, <1>5, BooksKept
<1>7. ASSUME NEW m \in l.leaked PROVE ~IsLeaf(g, m)
  <2>1. m \in NodeIds /\ ~IsLeaf(heap, m)
    BY <1>2, <1>4, <1>7 DEF IsInner, IsLeaf, Live
  <2> QED
    BY <1>3, <2>1 DEF SameLeaves
<1>8. Kept' /\ committed' = committed
  BY <1>3, <1>4, <1>6, <1>7, ClimbKeeps
<1> QED
  BY <1>3, <1>4, <1>8 DEF Climbed

\* insert_in_parent makes a new root.
LEMMA NewRootKeepsBooks ==
    ASSUME RefineInv, AppendInv', Follow, NewRoot
    PROVE  Inserted
<1> DEFINE tnode == FirstId
           r     == [NewInner EXCEPT !.isrootnode = TRUE]
           h1    == new(heap, tnode, r)
           h2    == insertInnerNodeKeyAt(h1, tnode, local.k, 0)
           h3    == insertInnerNodeChildAt(h2, tnode, local.N, 0)
           h4    == insertInnerNodeChildAt(h3, tnode, local.Nprime, 1)
<1>1. heap \in Heap /\ local.k \in KeySlot /\ pc = "insert_in_parent"
  <2>1. TypeInv /\ pc = "insert_in_parent"
    BY DEF RefineInv, AppendInv, RootInv, InsertInv, NewRoot
  <2> QED
    BY <2>1, Globals, AtInsertInParent
<1>2. tnode \in NodeIds /\ heap[tnode] = Free
  BY FirstUnused DEF NewRoot, CanAllocate
<1>3. r \in innerNode /\ r \in node
  BY NewNodes DEF node, innerNode, NewInner
<1> HIDE DEF r, tnode
<1>4. h1 \in Heap /\ SameLeaves(heap, {}, h1, {})
  BY <1>1, <1>2, <1>3, NewInHeap, NewInnerQuiet
<1> HIDE DEF h1
<1>5. Quiet(h1, h2) /\ h2 \in Heap
  BY <1>1, <1>4, KeyQuiet DEF Quiet, Edits
<1> HIDE DEF h2
<1>6. Quiet(h2, h3) /\ h3 \in Heap
  BY <1>5, ChildQuiet DEF Quiet, Edits
<1> HIDE DEF h3
<1>7. Quiet(h3, h4) /\ h4 \in Heap
  BY <1>6, ChildQuiet DEF Quiet, Edits
<1> HIDE DEF h4
<1>8. Quiet(h1, h4)
  <2>1. Quiet(h1, h3)
    BY <1>4, <1>5, <1>6, QuietCompose
  <2> QED
    BY <1>4, <1>7, <2>1, QuietCompose
<1>9. h4 # Fault => SameLeaves(heap, {}, h4, {})
  BY <1>4, <1>8, SameCompose DEF Quiet
<1>10. InsertEnds(h4) /\ totalkeycount' = totalkeycount
  BY DEF NewRoot, h1, h2, h3, h4, r, tnode
<1> QED
  BY <1>1, <1>7, <1>9, <1>10, InsertEndsKeepsBooks

\* insert_in_parent finds room.
LEMMA InsertInParentKeepsBooks ==
    ASSUME RefineInv, AppendInv', Follow, InsertInParent
    PROVE  Inserted
<1> DEFINE p   == local.parent
           loc == PairLocation(heap[p], local.k)
           h0  == AddToChildren(heap, p, -1)
           h1  == insertinnernodepair(h0, p, local.k, local.N)
           h2  == IF loc >= 1 THEN insertInnerNodeChildAt(h1, p, local.Nprime, loc + 1) ELSE h1
<1>1. heap \in Heap /\ local.k \in KeySlot /\ pc = "insert_in_parent"
  <2>1. TypeInv /\ pc = "insert_in_parent"
    BY DEF RefineInv, AppendInv, RootInv, InsertInv, InsertInParent
  <2> QED
    BY <2>1, Globals, AtInsertInParent
<1>2. Quiet(heap, h0) /\ h0 \in Heap
  BY <1>1, CountsQuiet DEF Quiet, Edits
<1> HIDE DEF h0
<1>3. Quiet(h0, h1) /\ h1 \in Heap
  BY <1>1, <1>2, PairsQuiet DEF Quiet, Edits
<1> HIDE DEF h1
<1>4. Quiet(h1, h2) /\ h2 \in Heap
  <2> HIDE DEF loc
  <2> QED
    BY <1>3, ChildQuiet, NothingQuiet DEF Quiet, Edits
<1>5. InsertEnds(h2) /\ totalkeycount' = totalkeycount
  BY DEF InsertInParent, h0, h1
<1> HIDE DEF h2
<1>6. Quiet(heap, h2)
  <2>1. Quiet(heap, h1)
    BY <1>1, <1>2, <1>3, QuietCompose
  <2> QED
    BY <1>1, <1>4, <2>1, QuietCompose
<1> QED
  BY <1>1, <1>4, <1>5, <1>6, InsertEndsKeepsBooks DEF Quiet

\* insert_in_parent finds none.
LEMMA SplitParentKeepsBooks ==
    ASSUME RefineInv, AppendInv', Follow, SplitParent
    PROVE  Climbed
<1> DEFINE h1 == new(heap, FirstId, NewInner)
           g  == new(h1, SecondId, NewInner)
           l  == [parent |-> local.parent, N |-> local.N, k |-> local.k,
                  Nprime |-> local.Nprime, n |-> local.n, leaked |-> local.leaked,
                  pNode |-> FirstId, ppNode |-> SecondId,
                  i |-> 0, slot |-> 0, j |-> 0, added |-> FALSE, kp |-> Junk]
<1>1. /\ heap \in Heap /\ Divided /\ Go(g, "split_parent", l)
      /\ UNCHANGED <<totalkeycount, call, result>>
  BY DEF SplitParent, Divided, RefineInv, AppendInv, RootInv, InsertInv, TypeInv, TypeOK
<1>2. /\ FirstId \in NodeIds /\ SecondId \in NodeIds /\ FirstId # SecondId
      /\ heap[FirstId] = Free /\ heap[SecondId] = Free
  BY Addresses DEF SplitParent
<1>3. NewInner \in node /\ NewInner \in innerNode
  BY NewNodes DEF node
<1>4. l.n = local.n /\ l.leaked = local.leaked
  OBVIOUS
<1>5. h1 \in Heap /\ SameLeaves(heap, {}, h1, {}) /\ h1[SecondId] = Free
  <2>1. h1[SecondId] = heap[SecondId]
    BY <1>1, <1>2, <1>3, NewInHeap
  <2> QED
    BY <1>1, <1>2, <1>3, <2>1, NewInHeap, NewInnerQuiet
<1> HIDE DEF h1, l
<1>6. g \in Heap /\ SameLeaves(h1, {}, g, {})
  BY <1>2, <1>3, <1>5, NewInHeap, NewInnerQuiet
<1> HIDE DEF g
<1>7. SameLeaves(heap, {}, g, {})
  BY <1>5, <1>6, SameCompose
<1>8. \A m \in l.leaked : m \in local.leaked \/ (m = local.parent /\ IsInner(heap, m))
  BY <1>4
<1> QED
  BY <1>1, <1>4, <1>6, <1>7, <1>8, ClimbsOn

\* A round of the loop of the split.
LEMMA SplitParentLoopKeepsBooks ==
    ASSUME RefineInv, AppendInv', Follow, SplitParentLoop
    PROVE  Climbed
<1> DEFINE p    == heap[local.parent]
           half == p.slotsinuse \div 2
           here == p.keySlots[local.i] > local.k /\ local.slot = local.i
           low  == local.i < half + 1
           at   == IF low THEN local.slot ELSE local.j
           h1   == IF here THEN PlaceNewPair(heap, local.pNode, local.k, local.N, local.Nprime, at)
                           ELSE heap
           j1   == IF here /\ ~low THEN local.j + 1 ELSE local.j
           i    == IF here /\ local.i > 0 THEN local.i - 1 ELSE local.i
           old  == i < half + 1 /\ local.slot = i
           h2   == IF old THEN PlaceOldPair(h1, local.pNode, p, i, local.slot) ELSE h1
           h3   == IF i > half THEN PlaceOldPair(h2, local.ppNode, p, i, j1) ELSE h2
           h4   == IF i = half + 1 THEN CutFirstHalf(h3, local.pNode, p, i) ELSE h3
           kp   == IF i = half + 1 THEN KeyAt(h3[local.pNode], i - 1) ELSE local.kp
           l    == [local EXCEPT !.i = i + 1, !.slot = @ + 1,
                                 !.j = IF i > half THEN j1 + 1 ELSE j1,
                                 !.added = @ \/ here, !.kp = kp]
<1>1. /\ pc = "split_parent" /\ heap \in Heap /\ local \in Locals["split_parent"]
      /\ local.k \in KeySlot /\ p \in node
  <2>1. pc = "split_parent"
    BY Zenon DEF SplitParentLoop
  <2>2. TypeInv /\ heap \in Heap
    BY DEF RefineInv, AppendInv, RootInv, InsertInv, TypeInv, TypeOK
  <2>3. local \in Locals["split_parent"]
    BY <2>1, <2>2, TypesAt, LocalsFields
  <2>4. local.k \in KeySlot
    BY <2>3, LocalsFields
  <2>5. IsInner(heap, local.parent)
    BY <2>1, <2>2 DEF TypeInv, Standing
  <2> QED
    BY <2>1, <2>2, <2>3, <2>4, <2>5, LiveTypes DEF node
<1>2. Quiet(heap, h1) /\ h1 \in Heap
  <2>1. Quiet(heap, PlaceNewPair(heap, local.pNode, local.k, local.N, local.Nprime, at))
    <3> HIDE DEF at
    <3> QED
      BY <1>1, PairsQuiet
  <2> HIDE DEF here
  <2> QED
    BY <1>1, <2>1, NothingQuiet DEF Quiet, Edits
<1> HIDE DEF h1
<1>3. Quiet(h1, h2) /\ h2 \in Heap
  <2>1. Quiet(h1, PlaceOldPair(h1, local.pNode, p, i, local.slot))
    <3> HIDE DEF i, p
    <3> QED
      BY <1>1, <1>2, PairsQuiet
  <2> HIDE DEF old
  <2> QED
    BY <1>2, <2>1, NothingQuiet DEF Quiet, Edits
<1> HIDE DEF h2
<1>4. Quiet(h2, h3) /\ h3 \in Heap
  <2>1. Quiet(h2, PlaceOldPair(h2, local.ppNode, p, i, j1))
    <3> HIDE DEF i, p, j1
    <3> QED
      BY <1>1, <1>3, PairsQuiet
  <2> HIDE DEF i, half
  <2> QED
    BY <1>3, <2>1, NothingQuiet DEF Quiet, Edits
<1> HIDE DEF h3
<1>5. Quiet(h3, h4) /\ h4 \in Heap
  <2>1. Quiet(h3, CutFirstHalf(h3, local.pNode, p, i))
    BY <1>4, CountsQuiet
  <2> HIDE DEF i, half
  <2> QED
    BY <1>4, <2>1, NothingQuiet DEF Quiet, Edits
<1>6. Go(h4, "split_parent", l) /\ UNCHANGED <<totalkeycount, call, result>>
  BY Zenon DEF SplitParentLoop, h3, h2, h1
<1> HIDE DEF h4
<1>7. Quiet(heap, h4)
  <2>1. Quiet(heap, h2)
    BY <1>1, <1>2, <1>3, QuietCompose
  <2>2. Quiet(heap, h3)
    BY <1>1, <1>4, <2>1, QuietCompose
  <2> QED
    BY <1>1, <1>5, <2>2, QuietCompose
<1>8. l.n = local.n /\ l.leaked = local.leaked
  <2>1. DOMAIN local = {"parent", "N", "k", "Nprime", "n", "leaked", "pNode", "ppNode", "i",
                        "slot", "j", "added", "kp"}
    BY <1>1, LocalsFields
  <2> HIDE DEF i, kp, here, half, j1
  <2> QED
    BY <2>1
<1> HIDE DEF l
<1>9. Divided
  BY <1>1 DEF Divided
<1>10. \A m \in l.leaked : m \in local.leaked \/ (m = local.parent /\ IsInner(heap, m))
  BY <1>8
<1>11. h4 # Fault => SameLeaves(heap, {}, h4, {})
  BY <1>7 DEF Quiet
<1> QED
  BY <1>5, <1>6, <1>8, <1>9, <1>10, <1>11, ClimbsOn

\* The end of that loop.
LEMMA SplitParentEndKeepsBooks ==
    ASSUME RefineInv, AppendInv', Follow, SplitParentEnd
    PROVE  Climbed
<1> DEFINE p    == heap[local.parent]
           pp   == local.ppNode
           last == p.firstChild[local.i]
           h1   == IF last = NULL THEN heap ELSE insertInnerNodeChildAt(heap, pp, last, local.j)
           h0   == AddToChildren(h1, pp, -1)
           h2   == IF local.added THEN h1
                   ELSE PlaceNewPair(h0, pp, local.k, local.N, local.Nprime, local.j)
           l    == [parent |-> p.parent, N |-> local.pNode, k |-> local.kp, Nprime |-> pp,
                    n |-> local.n, leaked |-> local.leaked \cup {local.parent}]
<1>1. /\ pc = "split_parent" /\ heap \in Heap /\ local.k \in KeySlot
      /\ IsInner(heap, local.parent)
  <2>1. pc = "split_parent"
    BY Zenon DEF SplitParentEnd
  <2>2. TypeInv /\ heap \in Heap
    BY DEF RefineInv, AppendInv, RootInv, InsertInv, TypeInv, TypeOK
  <2>3. local \in Locals["split_parent"]
    BY <2>1, <2>2, TypesAt, LocalsFields
  <2>4. local.k \in KeySlot
    BY <2>3, LocalsFields
  <2> QED
    BY <2>1, <2>2, <2>4 DEF TypeInv, Standing
<1>2. Quiet(heap, h1) /\ h1 \in Heap
  BY <1>1, ChildQuiet, NothingQuiet DEF Quiet, Edits
<1> HIDE DEF h1
<1>3. Quiet(h1, h0) /\ h0 \in Heap
  BY <1>2, CountsQuiet DEF Quiet, Edits
<1> HIDE DEF h0
<1>4. Quiet(h0, PlaceNewPair(h0, pp, local.k, local.N, local.Nprime, local.j))
  BY <1>1, <1>3, PairsQuiet
<1>5. Quiet(heap, h2)
  <2>1. Quiet(heap, h0)
    BY <1>1, <1>2, <1>3, QuietCompose
  <2>2. Quiet(heap, PlaceNewPair(h0, pp, local.k, local.N, local.Nprime, local.j))
    BY <1>1, <1>4, <2>1, QuietCompose
  <2> QED
    BY <1>2, <2>2
<1>6. Go(h2, "insert_in_parent", l) /\ UNCHANGED <<totalkeycount, call, result>>
  BY DEF SplitParentEnd, h1, h0
<1> HIDE DEF h2
<1>7. l.n = local.n /\ l.leaked = local.leaked \cup {local.parent}
  OBVIOUS
<1> HIDE DEF l
<1>8. Divided
  BY <1>1 DEF Divided
<1>9. \A m \in l.leaked : m \in local.leaked \/ (m = local.parent /\ IsInner(heap, m))
  BY <1>1, <1>7
<1>10. h2 \in Heap /\ (h2 # Fault => SameLeaves(heap, {}, h2, {}))
  BY <1>1, <1>5 DEF Quiet, Edits
<1> QED
  BY <1>6, <1>7, <1>8, <1>9, <1>10, ClimbsOn

-----------------------------------------------------------------------------
\* Every entry with the key k of a search that has come to a leaf is in that leaf.
LEMMA FoundThere ==
    ASSUME AppendInv, NEW t, Resting(heap, t, root), NEW o, NEW k, Aimed(heap, t, o, k),
           t.lev[o] = 0, NEW e \in Pairs(heap, t), heap[e[1]].keySlots[e[2]] = k
    PROVE  e[1] = o
<1>1. /\ e[1] \in t.G /\ t.lev[e[1]] = 0 /\ k \in Int /\ t.lo[e[1]] <= k /\ k < t.hi[e[1]]
  BY EntryKeys
<1>2. o \in t.G /\ t.lo[o] <= k /\ k < t.hi[o]
  BY DEF Aimed
<1>3. SearchTree(t)
  BY <1>2, RestingNode
<1>4. e[1] # o => t.hi[e[1]] <= t.lo[o] \/ t.hi[o] <= t.lo[e[1]]
  BY <1>1, <1>2, <1>3 DEF SearchTree, Apart
<1>5. t.hi[e[1]] \in Int /\ t.lo[e[1]] \in Int /\ t.hi[o] \in Int /\ t.lo[o] \in Int
  BY <1>1, <1>2, <1>3, Numbers
<1> QED
  BY <1>1, <1>2, <1>4, <1>5

\* A search starts at the root.
LEMMA StartAims ==
    ASSUME RefineInv, NEW k, Start("get", k, EmptyData)
    PROVE  Sought'
<1>1. heap' = heap /\ root' = root /\ local'.at = root /\ call'.key = k /\ AppendInv
  BY DEF Start, RefineInv
<1>2. ASSUME NEW t, Resting(heap, t, root) PROVE Aimed(heap, t, root, k)
  <2>1. root \in t.G /\ t.lo[root] = t.bot /\ t.hi[root] = t.top
    BY <1>2 DEF Resting, Crown
  <2>2. SearchTree(t)
    BY <1>2, <2>1, RestingNode
  <2>3. ASSUME NEW e \in Pairs(heap, t), heap[e[1]].keySlots[e[2]] = k
        PROVE  t.lo[root] <= k /\ k < t.hi[root]
    <3>1. /\ e[1] \in t.G /\ k \in Int /\ t.lo[e[1]] <= k /\ k < t.top
      BY <1>1, <1>2, <2>3, EntryKeys
    <3>2. t.bot <= t.lo[e[1]] /\ t.bot \in Int /\ t.lo[e[1]] \in Int
      BY <2>2, <3>1, Numbers
    <3> QED
      BY <2>1, <3>1, <3>2
  <2> QED
    BY <2>1, <2>3 DEF Aimed
<1> QED
  BY <1>1, <1>2 DEF Sought

\* A level down: into the child whose keys the one sought is among.
LEMMA FindChildAims ==
    ASSUME RefineInv, FindChild
    PROVE  Sought'
<1> DEFINE o == local.at
           n == heap[o]
           k == call.key
           above == SlotsAbove(n, k)
           to == IF above = {} THEN getChild(n, n.slotsinuse)
                 ELSE IF n.numChildren <= n.slotsinuse THEN local.at
                 ELSE IF getChild(n, Least(above)) # NULL THEN getChild(n, Least(above))
                 ELSE getChild(n, n.numChildren - 1)
<1>1. /\ pc = "find" /\ IsInner(heap, o) /\ local' = [at |-> to] /\ AppendInv
      /\ UNCHANGED <<heap, root, pc, call>>
  BY DEF FindChild, RefineInv
<1>2. k \in Int
  <2>1. \E t : Shape(heap, t, pc, local, call, root)
    BY <1>1, Shaped
  <2>2. call \in Calling
    BY <1>1, <2>1, AtFind
  <2> QED
    BY <2>2, CallFields, KeysAssumption
<1>3. ASSUME NEW t, Resting(heap, t, root), Aimed(heap, t, o, k) PROVE Aimed(heap, t, to, k)
  <2> DEFINE e == t.cnt[o]
  <2>1. o \in t.G
    BY <1>3 DEF Aimed
  <2>2. SearchTree(t) /\ Says(heap, t, o)
    BY <1>3, <2>1, RestingNode
  <2>3. InnerSays(heap, t, o) /\ t.lev[o] > 0
    <3>1. t.lev[o] # 0
      BY <1>1, <2>2 DEF Says, LeafSays, IsLeaf, IsInner
    <3> QED
      BY <2>1, <2>2, <3>1, Numbers DEF Says
  <2>4. /\ e \in Nat /\ e >= 1 /\ n.slotsinuse = e /\ n.numChildren = e + 1
        /\ \A i \in 0 .. e - 1 : n.keySlots[i] = t.ks[o][i] /\ t.ks[o][i] \in Int
        /\ \A i \in 0 .. e : /\ n.firstChild[i] = t.ch[o][i] /\ t.ch[o][i] \in t.G
                             /\ t.ch[o][i] # NULL /\ IsChild(t, o, i)
    <3>1. /\ e \in Nat /\ e >= 1 /\ \A i \in 0 .. e : t.ch[o][i] \in t.G /\ IsChild(t, o, i)
      BY <2>1, <2>2, <2>3, ChildSpans
    <3>2. \A i \in 0 .. e - 1 : t.ks[o][i] \in Int
      BY <2>1, <2>2, <2>3, KeysAssumption DEF SearchTree, Inner
    <3>3. \A m \in t.G : m # NULL
      BY <2>2, Numbers
    <3> QED
      BY <2>3, <3>1, <3>2, <3>3 DEF InnerSays
  <2> HIDE DEF o, n, k, e
  <2>5. PICK i \in 0 .. e : /\ to = t.ch[o][i]
                            /\ i # e => t.ks[o][i] > k
                            /\ \A j \in 0 .. e - 1 : j < i => ~(t.ks[o][j] > k)
    <3>1. \A j \in 0 .. e - 1 : j \in above <=> t.ks[o][j] > k
      BY <2>4 DEF SlotsAbove
    <3>2. CASE above = {}
      <4>1. to = t.ch[o][e] /\ e \in 0 .. e
        BY <2>4, <3>2 DEF getChild
      <4> HIDE DEF above, to
      <4> QED
        BY <3>1, <3>2, <4>1
    <3>3. CASE above # {}
      <4> DEFINE j == Least(above)
      <4>1. above \in SUBSET Nat /\ above \subseteq 0 .. e - 1
        BY <2>4 DEF SlotsAbove
      <4>2. j \in above /\ \A i \in above : j <= i
        <5> HIDE DEF above
        <5> QED
          BY <3>3, <4>1, LeastThere DEF Least
      <4>3. j \in 0 .. e /\ j \in 0 .. e - 1 /\ ~(j < 0) /\ ~(j > e) /\ ~(e + 1 <= e)
        BY <2>4, <4>1, <4>2
      <4> HIDE DEF j
      <4>4. getChild(n, j) = t.ch[o][j] /\ getChild(n, j) # NULL
        BY <2>4, <4>3 DEF getChild
      <4>5. to = t.ch[o][j]
        <5> HIDE DEF above
        <5> QED
          BY <2>4, <3>3, <4>3, <4>4 DEF j
      <4> HIDE DEF above, to
      <4>6. \A i \in 0 .. e - 1 : i < j => i \notin above
        BY <4>2, <4>3
      <4>7. t.ks[o][j] > k /\ \A i \in 0 .. e - 1 : i < j => ~(t.ks[o][i] > k)
        BY <3>1, <4>2, <4>3, <4>6
      <4> QED
        BY <4>3, <4>5, <4>7
    <3> QED
      BY <3>2, <3>3
  <2> HIDE DEF to, above
  <2>6. /\ to \in t.G
        /\ t.lo[to] = IF i = 0 THEN t.lo[o] ELSE t.ks[o][i - 1]
        /\ t.hi[to] = IF i = e THEN t.hi[o] ELSE t.ks[o][i]
    BY <2>4, <2>5 DEF IsChild, e
  <2>7. i = 0 \/ (i - 1 \in 0 .. e - 1 /\ t.ks[o][i - 1] <= k)
    <3>1. i # 0 => i - 1 \in 0 .. e - 1 /\ i - 1 < i
      BY <2>4, <2>5
    <3>2. i # 0 => ~(t.ks[o][i - 1] > k) /\ t.ks[o][i - 1] \in Int
      BY <2>4, <2>5, <3>1
    <3>3. \A x \in Int : ~(x > k) => x <= k
      BY <1>2
    <3> QED
      BY <3>1, <3>2, <3>3
  <2>8. i = e \/ k < t.ks[o][i]
    <3>1. i # e => i \in 0 .. e - 1 /\ t.ks[o][i] > k
      BY <2>4, <2>5
    <3> QED
      BY <1>2, <2>4, <3>1
  <2>9. t.lo[o] <= k /\ k < t.hi[o] => t.lo[to] <= k /\ k < t.hi[to]
    BY <2>6, <2>7, <2>8
  <2> QED
    BY <1>3, <2>6, <2>9 DEF Aimed
<1> HIDE DEF to
<1>4. local'.at = to
  BY <1>1
<1> QED
  BY <1>1, <1>3, <1>4 DEF RefineInv, Sought

\* On to the next leaf: the key sought is nowhere.
LEMMA FindNextLeafAims ==
    ASSUME RefineInv, FindNextLeaf
    PROVE  Sought'
<1> DEFINE o == local.at
           to == heap[o].nextLeaf
           k == call.key
<1>1. /\ pc = "find" /\ IsLeaf(heap, o) /\ local' = [at |-> to] /\ to # NULL /\ AppendInv
      /\ UNCHANGED <<heap, root, pc, call>>
      /\ \A i \in 0 .. heap[o].slotsinuse - 1 : ~(heap[o].keySlots[i] >= k)
  BY DEF FindNextLeaf, StopsAt, RefineInv
<1>2. ASSUME NEW t, Resting(heap, t, root), Aimed(heap, t, o, k) PROVE Aimed(heap, t, to, k)
  <2>1. o \in t.G
    BY <1>2 DEF Aimed
  <2>2. SearchTree(t) /\ Says(heap, t, o)
    BY <1>2, <2>1, RestingNode
  <2>3. t.lev[o] = 0
    BY <1>1, <2>2 DEF Says, InnerSays, IsLeaf, IsInner
  <2>4. to \in t.G
    <3>1. After(heap, t, NULL, o)
      BY <1>2, <2>1, <2>3, RestingNode
    <3>2. PICK b : Follows(t, o, b) /\ (heap[o].nextLeaf = b \/ b = NULL)
      BY <1>1, <3>1 DEF After
    <3>3. b \in t.G /\ b # NULL
      BY <2>2, <3>2, Numbers DEF Follows
    <3> QED
      BY <3>2, <3>3
  <2>5. ASSUME NEW e \in Pairs(heap, t), heap[e[1]].keySlots[e[2]] = k PROVE FALSE
    <3>1. e[1] = o
      BY <1>1, <1>2, <2>3, <2>5, FoundThere
    <3>2. e[2] \in 0 .. heap[o].slotsinuse - 1 /\ k \in Int
      BY <1>1, <1>2, <2>5, <3>1, EntryKeys
    <3>3. heap[o].keySlots[e[2]] = k
      BY <2>5, <3>1
    <3> QED
      BY <1>1, <3>2, <3>3
  <2> HIDE DEF to
  <2> QED
    BY <2>4, <2>5 DEF Aimed
<1> HIDE DEF to
<1>3. local'.at = to
  BY <1>1
<1> QED
  BY <1>1, <1>2, <1>3 DEF RefineInv, Sought

\* A step that stays where it is.
LEMMA StaysAimed ==
    ASSUME RefineInv, UNCHANGED <<heap, root, call, local>>, pc' = pc \/ pc = "find"
    PROVE  Sought'
  BY DEF RefineInv, Sought

-----------------------------------------------------------------------------
\* What a step shows to the caller.
Requests == [op : Ops, key : Keys, data : Payloads \cup {EmptyData}]

\* The effect of a call c that inserts, or searches.
Put(c) ==
    /\ c.op = "insert" /\ \A p \in committed : p[1] # c.key
    /\ committed' = committed \cup {<<c.key, c.data>>}
    /\ result' = [code |-> "ok", data |-> EmptyData]
Got(c) ==
    /\ c.op = "get" /\ committed' = committed
    /\ \/ (\A p \in committed : p[1] # c.key) /\ result' = [code |-> "absent", data |-> EmptyData]
       \/ \E p \in committed : p[1] = c.key /\ result' = [code |-> "ok", data |-> p[2]]

Asked ==
    /\ pc = "idle" /\ pc' # "idle" /\ call' \in Requests
    /\ result' = NoResult /\ committed' = committed
Answered == pc # "idle" /\ pc' = "idle" /\ call' = call /\ (Put(call) \/ Got(call))
AtOnce   == pc = "idle" /\ pc' = "idle" /\ call' \in Requests /\ (Put(call') \/ Got(call'))
Onward   == (pc = "idle" <=> pc' = "idle") /\ UNCHANGED <<committed, call, result>>
Visible  == Asked \/ Answered \/ AtOnce \/ Onward

\* A step that keeps the invariant and shows what it may.
Sound == Kept' /\ Sought' /\ Visible

\* Nothing is committed to a tree without a root.
LEMMA NothingCommitted ==
    ASSUME RefineInv, root = NULL, ~Divided
    PROVE  committed = {}
<1>1. totalkeycount = 0
  BY DEF RefineInv, AppendInv, Grown
<1>2. Books(heap, {}, 0, committed)
  BY <1>1 DEF RefineInv, Kept, Old
<1>3. LeafEntries(heap, {}) = {}
  BY <1>2, FS_EmptySet DEF Books
<1> QED
  BY <1>2, <1>3 DEF Books, PairsIn

\* A call begins.
LEMMA CallsSound ==
    ASSUME RefineInv, AppendInv', Follow, Erases = {}, DeletePairs = {}, Calls
    PROVE  Sound
<1>1. PICK k \in Keys :
          \/ \E d \in PayloadsOf[k] : MakeRoot(k, d) \/ CallInsert(k, d)
          \/ \E d \in Payloads : CallDeletePair(k, d)
          \/ CallErase(k) \/ CallGet(k)
          \/ \E op \in {"get", "erase", "delete_pair"} : CallOnEmptyTree(op, k)
  BY DEF Calls
<1>2. ~CallErase(k) /\ \A d : ~CallDeletePair(k, d)
  BY DEF CallErase, CallDeletePair, MayErase
<1>3. \A d \in PayloadsOf[k] : d \in Payloads
  BY WorkloadAssumption
<1>4. ASSUME NEW d \in PayloadsOf[k], MakeRoot(k, d) PROVE Sound
  <2>1. /\ Kept' /\ committed' = committed \cup {<<k, d>>} /\ committed = {}
        /\ pc = "idle" /\ pc' = "idle" /\ call' = [op |-> "insert", key |-> k, data |-> d]
        /\ result' = [code |-> "ok", data |-> EmptyData]
    BY <1>4, MakeRootKeepsBooks
  <2>2. call' \in Requests /\ Put(call')
    BY <1>3, <2>1 DEF Requests, Ops, Put
  <2>3. Sought'
    BY <2>1 DEF Sought
  <2> QED
    BY <2>1, <2>2, <2>3 DEF Sound, Visible, AtOnce
<1>5. ASSUME NEW op \in {"insert", "get"}, NEW d \in Payloads \cup {EmptyData},
             pc = "idle", Start(op, k, d), op = "get" => d = EmptyData
      PROVE  Sound
  <2>1. /\ pc' = "find" /\ call' = [op |-> op, key |-> k, data |-> d] /\ result' = NoResult
        /\ UNCHANGED <<heap, totalkeycount>> /\ ~Divided /\ ~Divided'
    BY <1>5 DEF Start, Divided
  <2>2. Kept' /\ committed' = committed
    BY <2>1, LookKeeps
  <2>3. call' \in Requests
    BY <2>1 DEF Requests, Ops
  <2>4. Sought'
    <3>1. CASE op = "get"
      BY <1>5, <3>1, StartAims
    <3>2. CASE op = "insert"
      BY <2>1, <3>2 DEF Sought
    <3> QED
      BY <3>1, <3>2
  <2> QED
    BY <1>5, <2>1, <2>2, <2>3, <2>4 DEF Sound, Visible, Asked
<1>6. ASSUME NEW d \in PayloadsOf[k], CallInsert(k, d) PROVE Sound
  BY <1>3, <1>5, <1>6 DEF CallInsert
<1>7. CASE CallGet(k)
  BY <1>5, <1>7 DEF CallGet
<1>8. ASSUME NEW op \in {"get", "erase", "delete_pair"}, CallOnEmptyTree(op, k) PROVE Sound
  <2>1. /\ pc = "idle" /\ pc' = "idle" /\ root = NULL /\ op = "get"
        /\ call' = [op |-> op, key |-> k, data |-> EmptyData]
        /\ result' = [code |-> "absent", data |-> EmptyData]
        /\ UNCHANGED <<heap, totalkeycount>> /\ ~Divided /\ ~Divided'
    BY <1>8 DEF CallOnEmptyTree, Divided
  <2>2. Kept' /\ committed' = committed /\ committed = {}
    BY <2>1, LookKeeps, NothingCommitted
  <2>3. call' \in Requests /\ Got(call') /\ Sought'
    BY <2>1, <2>2 DEF Requests, Ops, Got, Sought
  <2> QED
    BY <2>1, <2>2, <2>3 DEF Sound, Visible, AtOnce
<1> QED
  BY <1>1, <1>2, <1>4, <1>6, <1>7, <1>8

\* A step of find.
LEMMA FindSound ==
    ASSUME RefineInv, AppendInv', Follow, FindChild \/ FindNextLeaf \/ FindLeaf
    PROVE  Sound
<1>1. pc = "find" /\ pc' \in {"find", "insert", "get"}
      /\ UNCHANGED <<heap, root, totalkeycount, call, result>>
  <2>1. CASE FindChild \/ FindNextLeaf
    BY <2>1 DEF FindChild, FindNextLeaf
  <2>2. CASE FindLeaf
    <3>1. \E t : Shape(heap, t, pc, local, call, root)
      BY <2>2, Shaped DEF FindLeaf, RefineInv
    <3>2. call \in Calling
      BY <2>2, <3>1, AtFind DEF FindLeaf, RefineInv
    <3>3. call.op \in Ops /\ call.op \in {"none", "insert", "get"}
      BY <3>2, CallFields DEF RefineInv, AppendInv, RootInv, InsertInv, Filled
    <3> QED
      BY <2>2, <3>3 DEF FindLeaf, Ops
  <2> QED
    BY <2>1, <2>2
<1>2. ~Divided /\ ~Divided'
  BY <1>1 DEF Divided
<1>3. Kept' /\ committed' = committed
  BY <1>1, <1>2, LookKeeps
<1>4. Sought'
  <2>1. CASE FindLeaf
    <3>1. local' = local
      BY <2>1 DEF FindLeaf
    <3> QED
      BY <1>1, <3>1, StaysAimed
  <2> QED
    BY <2>1, FindChildAims, FindNextLeafAims
<1> QED
  BY <1>1, <1>3, <1>4 DEF Sound, Visible, Onward

\* What find_key finds in a leaf.
LEMMA KeyFound ==
    ASSUME NEW r, r.slotsinuse \in Nat, NEW k
    PROVE  LET at == findKeyEqual(r, k)
           IN  IF \E i \in 0 .. r.slotsinuse - 1 : r.keySlots[i] = k
               THEN at < r.slotsinuse /\ at \in 0 .. r.slotsinuse - 1 /\ r.keySlots[at] = k
               ELSE ~(at < r.slotsinuse)
<1> DEFINE S == {i \in 0 .. r.slotsinuse - 1 : r.keySlots[i] = k}
<1>1. S \in SUBSET Nat
  OBVIOUS
<1>2. findKeyEqual(r, k) = IF S = {} THEN r.slotsinuse ELSE Least(S)
  BY DEF findKeyEqual
<1>3. CASE S = {}
  <2>1. findKeyEqual(r, k) = r.slotsinuse /\ ~\E i \in 0 .. r.slotsinuse - 1 : r.keySlots[i] = k
    BY <1>2, <1>3
  <2> QED
    BY <2>1
<1>4. CASE S # {}
  <2>1. findKeyEqual(r, k) \in S
    <3> HIDE DEF S
    <3> QED
      BY <1>1, <1>2, <1>4, LeastIsMember
  <2> QED
    BY <2>1
<1> QED
  BY <1>3, <1>4

\* A search answers with what is in the leaf it has come to, and nothing else has the key.
LEMMA GetSound ==
    ASSUME RefineInv, AppendInv', Follow, Get
    PROVE  Sound
<1> DEFINE o == local.at
           k == call.key
           r == heap[o]
           at == findKeyEqual(r, k)
<1>1. /\ pc = "get" /\ AppendInv /\ UNCHANGED <<totalkeycount, call>>
      /\ IF at < r.slotsinuse THEN Return(heap, "ok", r.dataSlots[at])
                              ELSE Return(heap, "absent", EmptyData)
  BY DEF Get, RefineInv
<1>2. /\ heap' = heap /\ pc' = "idle"
      /\ result' = IF at < r.slotsinuse THEN [code |-> "ok", data |-> r.dataSlots[at]]
                                        ELSE [code |-> "absent", data |-> EmptyData]
  <2> HIDE DEF r, at
  <2> QED
    BY <1>1, ReturnDone
<1>3. ~Divided /\ ~Divided'
  BY <1>1, <1>2 DEF Divided
<1>4. Kept' /\ committed' = committed
  BY <1>1, <1>2, <1>3, LookKeeps
<1>5. root # NULL /\ heap \in Heap
  BY <1>1, Shaped
<1>6. PICK t : Shape(heap, t, pc, local, call, root)
  BY <1>1, Shaped
<1>7. Resting(heap, t, root) /\ o \in t.G /\ t.lev[o] = 0 /\ call.op = "get"
  BY <1>1, <1>6 DEF Shape, Looking
<1>8. Aimed(heap, t, o, k)
  BY <1>1, <1>7 DEF RefineInv, Sought
<1>9. committed = {PairAt(heap, e) : e \in Pairs(heap, t)}
  BY <1>3, <1>5, <1>7, CommittedPairs
<1>10. IsLeaf(heap, o) /\ r.slotsinuse \in Nat /\ r.slotsinuse <= LeafSlots
  <2>1. Says(heap, t, o)
    BY <1>7, RestingNode
  <2>2. IsLeaf(heap, o)
    BY <1>7, <2>1 DEF Says, LeafSays
  <2>3. r.slotsinuse \in Nat
    BY <1>5, <2>2, LiveTypes, NodeTypes DEF node
  <2>4. Within(heap)
    BY <1>1, Shaped
  <2> QED
    BY <2>2, <2>3, <2>4 DEF Within, Room, IsLeaf, Live
<1> DEFINE there == \E i \in 0 .. r.slotsinuse - 1 : r.keySlots[i] = k
<1>11. IF there THEN at < r.slotsinuse /\ at \in 0 .. r.slotsinuse - 1 /\ r.keySlots[at] = k
                ELSE ~(at < r.slotsinuse)
  <2> HIDE DEF r
  <2> QED
    BY <1>10, KeyFound
<1> HIDE DEF at
<1>12. Got(call)
  <2>1. CASE there
    <3> DEFINE e == <<o, at>>
    <3>1. at < r.slotsinuse /\ at \in 0 .. r.slotsinuse - 1 /\ r.keySlots[at] = k
      BY <1>11, <2>1
    <3>2. at \in LeafIndex
      BY <1>10, <3>1, SlotsAssumption DEF LeafIndex
    <3>3. e \in Pairs(heap, t) /\ PairAt(heap, e) = <<k, r.dataSlots[at]>>
      BY <1>7, <3>1, <3>2 DEF Pairs, PairAt
    <3>4. <<k, r.dataSlots[at]>> \in committed
      BY <1>9, <3>3
    <3>5. result' = [code |-> "ok", data |-> r.dataSlots[at]]
      BY <1>2, <3>1
    <3> QED
      BY <1>4, <1>7, <3>4, <3>5 DEF Got
  <2>2. CASE ~there
    <3>1. ASSUME NEW e \in Pairs(heap, t), PairAt(heap, e)[1] = k PROVE FALSE
      <4>1. heap[e[1]].keySlots[e[2]] = k
        BY <3>1 DEF PairAt
      <4>2. e[1] = o
        BY <1>1, <1>7, <1>8, <4>1, FoundThere
      <4>3. e[2] \in 0 .. heap[e[1]].slotsinuse - 1
        BY <1>1, <1>7, EntryKeys
      <4> QED
        BY <2>2, <4>1, <4>2, <4>3
    <3>2. \A p \in committed : p[1] # k
      BY <1>9, <3>1
    <3>3. result' = [code |-> "absent", data |-> EmptyData]
      BY <1>2, <1>11, <2>2
    <3> QED
      BY <1>4, <1>7, <3>2, <3>3 DEF Got
  <2> QED
    BY <2>1, <2>2
<1>13. Sought'
  BY <1>2 DEF Sought
<1> QED
  BY <1>1, <1>2, <1>4, <1>12, <1>13 DEF Sound, Visible, Answered

-----------------------------------------------------------------------------
\* No pair is refused: the key is beyond those of the last leaf.
LEMMA NothingRefused ==
    ASSUME AppendInv, NEW junk \in Indeterminate
    PROVE  ~InsertDuplicate(junk)
<1> SUFFICES ASSUME InsertDuplicate(junk) PROVE FALSE
  OBVIOUS
<1> DEFINE o == local.at
           twice == DuplicateFrom(heap, o, findKeyLoc(heap[o], call.key), call.key, call.data, junk)
<1>1. pc = "insert" /\ PairResult(heap, o, call.key, call.data, junk) = "duplicate"
  BY DEF InsertDuplicate
<1>2. heap \in Heap
  BY <1>1, Shaped
<1>3. PICK t : Shape(heap, t, pc, local, call, root)
  BY <1>1, Shaped
<1>4. /\ Resting(heap, t, root) /\ SearchTree(t) /\ o \in t.G /\ t.lev[o] = 0
      /\ t.hi[o] = t.top /\ call.key \in Keys /\ call.key >= t.top
      /\ IsLeaf(heap, o) /\ Readable(heap, o) /\ Says(heap, t, o)
  BY <1>1, <1>3, AtInsert
<1>5. heap[o].nextLeaf = NULL
  <2>1. After(heap, t, NULL, o)
    BY <1>4, RestingNode
  <2>2. ASSUME NEW b, Follows(t, o, b) PROVE FALSE
    <3>1. b \in t.G /\ t.lo[b] = t.top
      BY <1>4, <2>2 DEF Follows
    <3>2. t.lo[b] \in Int /\ t.hi[b] \in Int /\ t.lo[b] < t.hi[b] /\ t.hi[b] <= t.top
      BY <1>4, <3>1, Numbers
    <3> QED
      BY <3>1, <3>2
  <2> QED
    BY <2>1, <2>2 DEF After
<1>6. findKeyLoc(heap[o], call.key) = heap[o].slotsinuse
  BY <1>2, <1>4, LastKeys
<1>7. junk \in BOOLEAN
  BY WorkloadAssumption
<1>8. twice = "none"
  BY <1>2, <1>4, <1>5, <1>6, <1>7, NothingRepeated
<1> HIDE DEF twice
<1>9. PairResult(heap, o, call.key, call.data, junk) \in {"full", "inserted"}
  BY <1>4, <1>8 DEF PairResult, twice
<1> QED
  BY <1>1, <1>9

\* A step that ends an insertion, and one on its way up.
LEMMA InsertedSound ==
    ASSUME Inserted, Fresh, pc # "idle", call' = call
    PROVE  Sound
<1>1. Kept' /\ pc' = "idle"
  BY DEF Inserted
<1>2. Sought'
  BY <1>1 DEF Sought
<1>3. Put(call)
  BY DEF Inserted, Fresh, Put, NewPair
<1> QED
  BY <1>1, <1>2, <1>3 DEF Sound, Visible, Answered

\* A step of an insertion on its way up shows nothing.
LEMMA ClimbedSound ==
    ASSUME Climbed, pc # "idle"
    PROVE  Sound
<1>1. /\ Kept' /\ pc' \in {"insert_in_parent", "split_parent"}
      /\ UNCHANGED <<committed, call, result>>
  BY DEF Climbed
<1>2. Sought'
  BY <1>1 DEF Sought
<1> QED
  BY <1>1, <1>2 DEF Sound, Visible, Onward

\* Every step keeps the invariant and shows what it may.
LEMMA NextSound ==
    ASSUME RefineInv, AppendInv', Follow, Erases = {}, DeletePairs = {}, Next
    PROVE  Sound
<1>1. CASE Calls
  BY <1>1, CallsSound
<1>2. ~Undefined /\ ~Stopped
  BY NothingUndefined DEF Stopped, RefineInv, AppendInv, Grown
<1>3. CASE FindChild \/ FindNextLeaf \/ FindLeaf
  BY <1>3, FindSound
<1>4. CASE Get
  BY <1>4, GetSound
<1>5. ASSUME NEW junk, InsertPair(junk) PROVE Sound
  <2>1. Inserted /\ pc = "insert" /\ call' = call
    BY <1>5, InsertPairKeepsBooks DEF InsertPair
  <2> QED
    BY <2>1, NewHere, InsertedSound
<1>6. CASE NewRoot \/ InsertInParent
  <2>1. Inserted
    BY <1>6, NewRootKeepsBooks, InsertInParentKeepsBooks
  <2>2. pc = "insert_in_parent" /\ call' = call
    BY <1>6 DEF NewRoot, InsertInParent, InsertEnds
  <2>3. Fresh
    BY <2>2 DEF RefineInv, Kept, Divided
  <2> QED
    BY <2>1, <2>2, <2>3, InsertedSound
<1>7. CASE SplitFullLeaf \/ SplitParent \/ SplitParentLoop \/ SplitParentEnd
  <2>1. Climbed
    BY <1>7, SplitFullLeafKeepsBooks, SplitParentKeepsBooks, SplitParentLoopKeepsBooks,
       SplitParentEndKeepsBooks
  <2>2. pc # "idle"
    BY <1>7, Zenon DEF SplitFullLeaf, SplitParent, SplitParentLoop, SplitParentEnd
  <2> QED
    BY <2>1, <2>2, ClimbedSound
<1>8. CASE Steps
  <2>1. AppendInv /\ InsertInv
    BY DEF RefineInv, AppendInv, RootInv
  <2> QED
    BY <1>2, <1>3, <1>4, <1>5, <1>6, <1>7, <1>8, <2>1, NothingRefused, NothingIsDeleted, Zenon
       DEF Steps
<1> QED
  BY <1>1, <1>2, <1>8 DEF Next

\* So does a step that changes nothing.
LEMMA NothingSound ==
    ASSUME RefineInv, UNCHANGED <<vars, committed>>
    PROVE  RefineInv' /\ Visible
<1>1. UNCHANGED <<heap, root, headleaf, totalkeycount, pc, call, local, result, committed>>
  BY DEF vars
<1>2. AppendInv'
  BY <1>1 DEF RefineInv, AppendInv, Grown, RootInv, RootSafe, InsertInv, TypeInv, TypeOK, Standing,
              Filled, SplitCount
<1>3. Kept'
  BY <1>1 DEF RefineInv, Kept, Divided, Old, NewPair, Fresh
<1>4. Sought'
  BY <1>1 DEF RefineInv, Sought
<1>5. Visible
  BY <1>1 DEF Visible, Onward
<1> QED
  BY <1>2, <1>3, <1>4, <1>5 DEF RefineInv

\* The invariant holds of the empty tree.
LEMMA RefineStarts ==
    ASSUME RefineInit
    PROVE  RefineInv
<1>1. AppendInv
  BY AppendStarts DEF RefineInit
<1>2. pc = "idle" /\ heap = Fault /\ totalkeycount = 0 /\ committed = {}
  BY DEF RefineInit, Init
<1>3. LeafEntries(heap, {}) = {}
  BY <1>2, FreeAssumption DEF LeafEntries, IsLeaf, Live, Fault
<1>4. Books(heap, {}, 0, {})
  <2>1. IsFiniteSet({}) /\ Cardinality({}) = 0
    BY FS_EmptySet
  <2> QED
    BY <1>3, <2>1, Zenon DEF Books, PairsIn
<1>5. Kept /\ Sought
  BY <1>2, <1>4 DEF Kept, Sought, Divided, Old
<1> QED
  BY <1>1, <1>5 DEF RefineInv

\* Every step of a workload that only appends keeps it.
LEMMA RefineStays ==
    ASSUME RefineInv, Inserts \subseteq {"append", "fill"}, Erases = {}, DeletePairs = {},
           NodeSlots >= 3, [RefineNext]_<<vars, committed>>
    PROVE  RefineInv' /\ Visible
<1>1. CASE RefineNext
  <2>1. Next /\ Follow
    BY <1>1 DEF RefineNext, Follow
  <2>2. AppendInv'
    BY <2>1, AppendStays DEF RefineInv
  <2>3. Sound
    BY <2>1, <2>2, NextSound
  <2> QED
    BY <2>2, <2>3 DEF Sound, RefineInv
<1>2. CASE UNCHANGED <<vars, committed>>
  BY <1>2, NothingSound
<1> QED
  BY <1>1, <1>2

-----------------------------------------------------------------------------
\* What a step shows is a step of the multimap, or none.
LEMMA VisibleIsMultimap ==
    ASSUME Visible
    PROVE  [Abstract!Next]_Abstract!vars
<1>1. Requests = Abstract!Calls
  BY DEF Requests, Ops, Abstract!Calls, Abstract!Ops
<1>2. ASSUME NEW c, Put(c) \/ Got(c) PROVE Abstract!Effect(c)
  <2>1. CASE Put(c)
    <3>1. <<c.key, c.data>> \notin committed
      BY <2>1 DEF Put
    <3> QED
      BY <2>1, <3>1 DEF Put, Abstract!Effect, Abstract!Insert, Abstract!Answer
  <2>2. CASE Got(c)
    <3> DEFINE matching == {p \in committed : p[1] = c.key}
    <3>1. CASE matching = {}
      BY <2>2, <3>1 DEF Got, Abstract!Effect, Abstract!Get, Abstract!Answer
    <3>2. CASE matching # {}
      BY <2>2, <3>2 DEF Got, Abstract!Effect, Abstract!Get, Abstract!Answer
    <3> QED
      BY <3>1, <3>2
  <2> QED
    BY <1>2, <2>1, <2>2
<1>3. CASE Asked
  BY <1>1, <1>3 DEF Asked, Abstract!Next, Abstract!Request
<1>4. CASE Answered
  BY <1>2, <1>4 DEF Answered, Abstract!Next, Abstract!Respond
<1>5. CASE AtOnce
  BY <1>1, <1>2, <1>5 DEF AtOnce, Abstract!Next, Abstract!Immediate
<1>6. CASE Onward
  BY <1>6 DEF Onward, Abstract!vars
<1> QED
  BY <1>3, <1>4, <1>5, <1>6 DEF Visible

\* Nor does what it shows take a key out.
LEMMA VisibleKeeps ==
    ASSUME Visible
    PROVE  committed \subseteq committed'
<1>1. ASSUME NEW c, Put(c) \/ Got(c) PROVE committed \subseteq committed'
  BY <1>1 DEF Put, Got
<1> QED
  BY <1>1 DEF Visible, Asked, Answered, AtOnce, Onward

\* The keys, and the effect of a call on them.
KeyPairs == {<<p[1], EmptyData>> : p \in committed}
KeyEffect(c) ==
    \/ /\ c.op = "insert" /\ <<c.key, EmptyData>> \notin KeyPairs
       /\ KeyPairs' = KeyPairs \cup {<<c.key, EmptyData>>}
       /\ NoData(result') = [code |-> "ok", data |-> EmptyData]
    \/ /\ c.op = "get" /\ KeyPairs' = KeyPairs
       /\ NoData(result') = [code |-> IF <<c.key, EmptyData>> \in KeyPairs THEN "ok" ELSE "absent",
                              data |-> EmptyData]

\* An answer without its payload.
LEMMA NoDataResult ==
    ASSUME NEW x, NEW d
    PROVE  NoData([code |-> x, data |-> d]) = [code |-> x, data |-> EmptyData]
  BY DEF NoData

\* A call has the effect on the keys that it has on the pairs.
LEMMA ShownOnKeys ==
    ASSUME NEW c, Put(c) \/ Got(c)
    PROVE  KeyEffect(c)
<1>1. CASE Put(c)
  <2>1. <<c.key, EmptyData>> \notin KeyPairs
    BY <1>1 DEF Put, KeyPairs
  <2>2. KeyPairs' = KeyPairs \cup {<<c.key, EmptyData>>}
    <3> DEFINE x == <<c.key, c.data>>
    <3>1. <<x[1], EmptyData>> = <<c.key, EmptyData>> /\ committed' = committed \cup {x}
      BY <1>1 DEF Put
    <3> HIDE DEF x
    <3>2. {<<p[1], EmptyData>> : p \in committed \cup {x}} = KeyPairs \cup {<<x[1], EmptyData>>}
      BY SMTT(20) DEF KeyPairs
    <3> QED
      BY <3>1, <3>2 DEF KeyPairs
  <2>3. NoData(result') = [code |-> "ok", data |-> EmptyData] /\ c.op = "insert"
    BY <1>1, NoDataResult DEF Put
  <2> QED
    BY <2>1, <2>2, <2>3 DEF KeyEffect
<1>2. CASE Got(c)
  <2>1. c.op = "get" /\ KeyPairs' = KeyPairs
    BY <1>2 DEF Got, KeyPairs
  <2>2. CASE \A p \in committed : p[1] # c.key
    <3>1. result' = [code |-> "absent", data |-> EmptyData] /\ <<c.key, EmptyData>> \notin KeyPairs
      BY <1>2, <2>2 DEF Got, KeyPairs
    <3> QED
      BY <2>1, <3>1, NoDataResult DEF KeyEffect
  <2>3. CASE ~\A p \in committed : p[1] # c.key
    <3>1. PICK p \in committed : p[1] = c.key /\ result' = [code |-> "ok", data |-> p[2]]
      BY <1>2, <2>3 DEF Got
    <3>2. <<c.key, EmptyData>> \in KeyPairs
      BY <3>1 DEF KeyPairs
    <3> QED
      BY <2>1, <3>1, <3>2, NoDataResult DEF KeyEffect
  <2> QED
    BY <2>2, <2>3
<1> QED
  BY <1>1, <1>2

\* The same without the payloads.
LEMMA VisibleIsKeySet ==
    ASSUME Visible, call' \in Requests \/ call' = call, call \in Requests \/ pc = "idle"
    PROVE  [AbstractKeys!Next]_AbstractKeys!vars
<1>1. ASSUME NEW c \in Requests
      PROVE  /\ NoData(c) \in AbstractKeys!Calls
             /\ NoData(c).op = c.op /\ NoData(c).key = c.key /\ NoData(c).data = EmptyData
  BY DEF Requests, Ops, NoData, AbstractKeys!Calls, AbstractKeys!Ops
<1>2. CASE Asked
  <2>1. NoData(call') \in AbstractKeys!Calls
    BY <1>1, <1>2 DEF Asked
  <2>2. NoData(result') = NoResult
    BY <1>2, NoDataResult DEF Asked, NoResult
  <2>3. KeyPairs' = KeyPairs /\ pc = "idle" /\ pc' # "idle"
    BY <1>2 DEF Asked, KeyPairs
  <2> QED
    BY <2>1, <2>2, <2>3 DEF AbstractKeys!Next, AbstractKeys!Request, NoData, KeyPairs
<1>3. CASE Answered
  <2> DEFINE b == NoData(call)
  <2>1. call \in Requests /\ pc # "idle" /\ pc' = "idle" /\ call' = call /\ KeyEffect(call)
    BY <1>3, ShownOnKeys DEF Answered
  <2>2. b.op = call.op /\ b.key = call.key /\ b.data = EmptyData
    BY <1>1, <2>1
  <2> HIDE DEF b
  <2>3. AbstractKeys!Effect(b)
    <3>1. CASE call.op = "insert"
      <4>1. /\ <<b.key, b.data>> \notin KeyPairs /\ KeyPairs' = KeyPairs \cup {<<b.key, b.data>>}
            /\ b.op = "insert" /\ NoData(result') = [code |-> "ok", data |-> EmptyData]
        BY <2>1, <2>2, <3>1 DEF KeyEffect
      <4>2. AbstractKeys!Insert(b)
        BY <4>1 DEF AbstractKeys!Insert, AbstractKeys!Answer, NoData, KeyPairs
      <4> QED
        BY <4>2 DEF AbstractKeys!Effect
    <3>2. CASE call.op = "get"
      <4> DEFINE matching == {p \in KeyPairs : p[1] = b.key}
      <4>1. /\ b.op = "get" /\ KeyPairs' = KeyPairs
            /\ NoData(result') = [code |-> IF <<b.key, EmptyData>> \in KeyPairs THEN "ok"
                                           ELSE "absent", data |-> EmptyData]
        BY <2>1, <2>2, <3>2 DEF KeyEffect
      <4>2. matching = IF <<b.key, EmptyData>> \in KeyPairs THEN {<<b.key, EmptyData>>} ELSE {}
        <5>1. ASSUME NEW p \in KeyPairs PROVE p = <<p[1], EmptyData>>
          BY DEF KeyPairs
        <5>2. <<b.key, EmptyData>>[1] = b.key
          OBVIOUS
        <5> QED
          BY <5>1, <5>2
      <4>3. IF matching = {} THEN NoData(result') = [code |-> "absent", data |-> EmptyData]
            ELSE \E p \in matching : NoData(result') = [code |-> "ok", data |-> p[2]]
        BY <4>1, <4>2
      <4>4. AbstractKeys!Get(b)
        BY <4>1, <4>3 DEF AbstractKeys!Get, AbstractKeys!Answer, NoData, KeyPairs
      <4> QED
        BY <4>4 DEF AbstractKeys!Effect
    <3> QED
      BY <2>1, <3>1, <3>2 DEF KeyEffect
  <2> QED
    BY <2>1, <2>3 DEF AbstractKeys!Next, AbstractKeys!Respond, NoData, b
<1>4. CASE AtOnce
  <2> DEFINE b == NoData(call')
  <2>1. call' \in Requests /\ pc = "idle" /\ pc' = "idle" /\ KeyEffect(call')
    BY <1>4, ShownOnKeys DEF AtOnce
  <2>2. /\ b.op = call'.op /\ b.key = call'.key /\ b.data = EmptyData
        /\ b \in AbstractKeys!Calls
    BY <1>1, <2>1
  <2> HIDE DEF b
  <2>3. AbstractKeys!Effect(b)
    <3>1. CASE call'.op = "insert"
      <4>1. /\ <<b.key, b.data>> \notin KeyPairs /\ KeyPairs' = KeyPairs \cup {<<b.key, b.data>>}
            /\ b.op = "insert" /\ NoData(result') = [code |-> "ok", data |-> EmptyData]
        BY <2>1, <2>2, <3>1 DEF KeyEffect
      <4>2. AbstractKeys!Insert(b)
        BY <4>1 DEF AbstractKeys!Insert, AbstractKeys!Answer, NoData, KeyPairs
      <4> QED
        BY <4>2 DEF AbstractKeys!Effect
    <3>2. CASE call'.op = "get"
      <4> DEFINE matching == {p \in KeyPairs : p[1] = b.key}
      <4>1. /\ b.op = "get" /\ KeyPairs' = KeyPairs
            /\ NoData(result') = [code |-> IF <<b.key, EmptyData>> \in KeyPairs THEN "ok"
                                           ELSE "absent", data |-> EmptyData]
        BY <2>1, <2>2, <3>2 DEF KeyEffect
      <4>2. matching = IF <<b.key, EmptyData>> \in KeyPairs THEN {<<b.key, EmptyData>>} ELSE {}
        <5>1. ASSUME NEW p \in KeyPairs PROVE p = <<p[1], EmptyData>>
          BY DEF KeyPairs
        <5>2. <<b.key, EmptyData>>[1] = b.key
          OBVIOUS
        <5> QED
          BY <5>1, <5>2
      <4>3. IF matching = {} THEN NoData(result') = [code |-> "absent", data |-> EmptyData]
            ELSE \E p \in matching : NoData(result') = [code |-> "ok", data |-> p[2]]
        BY <4>1, <4>2
      <4>4. AbstractKeys!Get(b)
        BY <4>1, <4>3 DEF AbstractKeys!Get, AbstractKeys!Answer, NoData, KeyPairs
      <4> QED
        BY <4>4 DEF AbstractKeys!Effect
    <3> QED
      BY <2>1, <3>1, <3>2 DEF KeyEffect
  <2> QED
    BY <2>1, <2>2, <2>3 DEF AbstractKeys!Next, AbstractKeys!Immediate, NoData, b
<1>5. CASE Onward
  BY <1>5 DEF Onward, AbstractKeys!vars, NoData
<1> QED
  BY <1>2, <1>3, <1>4, <1>5 DEF Visible

\* While a call runs, it is a request.
LEMMA CallTyped ==
    ASSUME RefineInv
    PROVE  call \in Requests \/ pc = "idle"
<1>1. TypeInv /\ pc # "undefined"
  BY DEF RefineInv, AppendInv, RootInv, InsertInv, Grown
<1> QED
  BY <1>1 DEF TypeInv, Standing, Calling, Requests, DataSlot

-----------------------------------------------------------------------------
\* A tree to which ever larger keys are appended implements the multimap: whatever the
\* number of nodes, of slots and of keys, each insert and get of nwt::btree answers, and
\* changes the contents, as one atomic step of the multimap does, although it takes many
\* steps and splits nodes on the way.
THEOREM AppendingImplementsMultimap ==
    ASSUME Inserts \subseteq {"append", "fill"}, Erases = {}, DeletePairs = {}, NodeSlots >= 3
    PROVE  RefineSpec => ImplementsMultimap
<1>1. RefineInit => RefineInv /\ Abstract!Init
  BY RefineStarts DEF RefineInit, Init, Abstract!Init
<1>2. RefineInv /\ [RefineNext]_<<vars, committed>> => RefineInv' /\ [Abstract!Next]_Abstract!vars
  BY RefineStays, VisibleIsMultimap
<1> QED
  BY <1>1, <1>2, PTL DEF RefineSpec, ImplementsMultimap, Abstract!Spec

\* So it does if the payloads are left out.
THEOREM AppendingImplementsKeySet ==
    ASSUME Inserts \subseteq {"append", "fill"}, Erases = {}, DeletePairs = {}, NodeSlots >= 3
    PROVE  RefineSpec => ImplementsKeySet
<1>1. RefineInit => RefineInv /\ AbstractKeys!Init
  BY RefineStarts DEF RefineInit, Init, AbstractKeys!Init, NoData, NoCall, NoResult
<1>2. RefineInv /\ [RefineNext]_<<vars, committed>> =>
         RefineInv' /\ [AbstractKeys!Next]_AbstractKeys!vars
  <2> SUFFICES ASSUME RefineInv, [RefineNext]_<<vars, committed>>
               PROVE  RefineInv' /\ [AbstractKeys!Next]_AbstractKeys!vars
    OBVIOUS
  <2>1. RefineInv' /\ Visible
    BY RefineStays
  <2>2. call \in Requests \/ pc = "idle"
    BY CallTyped
  <2>3. call' \in Requests \/ call' = call
    BY <2>1 DEF Visible, Asked, Answered, AtOnce, Onward
  <2> QED
    BY <2>1, <2>2, <2>3, VisibleIsKeySet
<1> QED
  BY <1>1, <1>2, PTL DEF RefineSpec, ImplementsKeySet, AbstractKeys!Spec

\* An insertion takes no other key out: no split loses a pair.
THEOREM AppendingKeepsOthers ==
    ASSUME Inserts \subseteq {"append", "fill"}, Erases = {}, DeletePairs = {}, NodeSlots >= 3
    PROVE  RefineSpec => InsertKeepsOthers
<1>1. RefineInit => RefineInv
  BY RefineStarts
<1>2. RefineInv /\ [RefineNext]_<<vars, committed>> =>
         /\ RefineInv'
         /\ [call.op = "insert" =>
                {p[1] : p \in committed} \subseteq {p[1] : p \in committed'}]_<<vars, committed>>
  <2> SUFFICES ASSUME RefineInv, [RefineNext]_<<vars, committed>>
               PROVE  /\ RefineInv'
                      /\ {p[1] : p \in committed} \subseteq {p[1] : p \in committed'}
    OBVIOUS
  <2>1. RefineInv' /\ Visible
    BY RefineStays
  <2>2. committed \subseteq committed'
    BY <2>1, VisibleKeeps
  <2> QED
    BY <2>1, <2>2
<1> QED
  BY <1>1, <1>2, PTL DEF RefineSpec, InsertKeepsOthers
=============================================================================
