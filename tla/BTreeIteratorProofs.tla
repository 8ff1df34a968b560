------------------------ MODULE BTreeIteratorProofs ------------------------
(***************************************************************************)
(* In a tree to which larger and larger keys are appended, and which is     *)
(* searched in between, an iterator stays inside the tree and visits every  *)
(* key in order, whatever the splits have made of the leaves and their      *)
(* chain: for a caller who drops it before it changes the tree, and who     *)
(* calls begin only while the first leaf is the root.                       *)
(***************************************************************************)
EXTENDS BTreeIterator, BTreeAppendProofs

\* A position inside the tree: an entry of a leaf, or past the last one.
Inside(p) ==
    /\ p = iterator(p.currnode, p.currslot)
    /\ p.currnode \in TreeLeaves
    /\ OnEntry(p) \/ PastLast(p)

\* headleaf, where begin starts, is the whole tree until the first split of a root.
HeadSafe == root = headleaf /\ root # NULL => IsLeaf(heap, root)

\* While the caller holds an iterator the tree is only searched.
IterSafe ==
    /\ HeadSafe
    /\ Held => pc = "idle" \/ (pc \in {"find", "get"} /\ call.op = "get")
    /\ Held /\ it # end => Inside(it)

\* The inductive invariant.
IterInv == pc = "undefined" \/ (AppendInv /\ IterSafe)

-----------------------------------------------------------------------------
\* The keys of the tree are those of its leaves.
LEMMA HeldKeysAre ==
    ASSUME NEW t, Still(t), NEW k
    PROVE  k \in HeldKeys <=>
              \E l \in LeavesOf(t) : \E i \in 0 .. heap[l].slotsinuse - 1 : k = heap[l].keySlots[i]
<1>1. TreeLeaves = LeavesOf(t)
  BY TreeAtRest DEF Still
<1>2. ASSUME NEW l \in LeavesOf(t), NEW i \in 0 .. heap[l].slotsinuse - 1
      PROVE  /\ heap[l].keySlots[i] # Junk /\ <<l, i>> \in Entries
             /\ heap[l].slotsinuse \in Nat /\ heap[l].slotsinuse <= LeafSlots
  <2>1. l \in t.G /\ t.lev[l] = 0
    BY DEF LeavesOf
  <2>2. heap[l].slotsinuse \in Nat /\ heap[l].slotsinuse <= LeafSlots
    BY <2>1, LeafKeys
  <2>3. i \in LeafIndex /\ i < heap[l].slotsinuse
    BY <2>2, SlotsAssumption DEF LeafIndex
  <2>4. heap[l].keySlots[i] \in Keys
    BY <2>1, StillNode DEF LeafSays
  <2> QED
    BY <1>1, <2>2, <2>3, <2>4, JunkAssumption DEF Entries
<1>3. ASSUME NEW l \in LeavesOf(t), NEW i \in 0 .. heap[l].slotsinuse - 1
      PROVE  heap[l].keySlots[i] \in HeldKeys
  <2>1. <<l, i>>[1] = l /\ <<l, i>>[2] = i
    OBVIOUS
  <2> QED
    BY <1>2, <2>1 DEF HeldKeys
<1>4. ASSUME k \in HeldKeys
      PROVE  \E l \in LeavesOf(t) : \E i \in 0 .. heap[l].slotsinuse - 1 : k = heap[l].keySlots[i]
  <2>1. PICK e \in Entries : k = heap[e[1]].keySlots[e[2]]
    BY <1>4 DEF HeldKeys
  <2>2. e[1] \in LeavesOf(t) /\ e[2] \in LeafIndex /\ e[2] < heap[e[1]].slotsinuse
    BY <1>1, <2>1 DEF Entries
  <2>3. heap[e[1]].slotsinuse \in Nat
    BY <2>2, LeafKeys DEF LeavesOf
  <2>4. e[2] \in 0 .. heap[e[1]].slotsinuse - 1
    BY <2>2, <2>3, SlotsAssumption DEF LeafIndex
  <2> QED
    BY <2>1, <2>2, <2>4
<1> QED
  BY <1>3, <1>4

\* Keys ascend within a leaf and from leaf to leaf.
LEMMA KeysAscend ==
    ASSUME NEW t, Still(t), NEW l \in LeavesOf(t), NEW m \in LeavesOf(t),
           NEW i \in 0 .. heap[l].slotsinuse - 1, NEW j \in 0 .. heap[m].slotsinuse - 1
    PROVE  /\ heap[l].keySlots[i] \in Int /\ heap[m].keySlots[j] \in Int
           /\ l = m /\ i < j => heap[l].keySlots[i] < heap[m].keySlots[j]
           /\ l = m /\ i > j => heap[l].keySlots[i] > heap[m].keySlots[j]
           /\ t.hi[l] <= t.lo[m] => heap[l].keySlots[i] < heap[m].keySlots[j]
           /\ t.hi[m] <= t.lo[l] => heap[l].keySlots[i] > heap[m].keySlots[j]
           /\ l # m => t.hi[l] <= t.lo[m] \/ t.hi[m] <= t.lo[l]
<1>1. l \in t.G /\ t.lev[l] = 0 /\ m \in t.G /\ t.lev[m] = 0
  BY DEF LeavesOf
<1>2. /\ heap[l].keySlots[i] \in Int /\ t.lo[l] \in Int /\ t.hi[l] \in Int
      /\ t.lo[l] <= heap[l].keySlots[i] /\ heap[l].keySlots[i] < t.hi[l]
      /\ \A x, y \in 0 .. heap[l].slotsinuse - 1 :
            x < y => heap[l].keySlots[x] < heap[l].keySlots[y]
  BY <1>1, LeafKeys
<1>3. /\ heap[m].keySlots[j] \in Int /\ t.lo[m] \in Int /\ t.hi[m] \in Int
      /\ t.lo[m] <= heap[m].keySlots[j] /\ heap[m].keySlots[j] < t.hi[m]
  BY <1>1, LeafKeys
<1>4. l # m => t.hi[l] <= t.lo[m] \/ t.hi[m] <= t.lo[l]
  BY <1>1 DEF Still, SearchTree, Apart
<1>5. /\ t.hi[l] <= t.lo[m] => heap[l].keySlots[i] < heap[m].keySlots[j]
      /\ t.hi[m] <= t.lo[l] => heap[l].keySlots[i] > heap[m].keySlots[j]
  <2> HIDE DEF Still
  <2> QED
    BY <1>2, <1>3
<1>6. ASSUME l = m
      PROVE  /\ i < j => heap[l].keySlots[i] < heap[m].keySlots[j]
             /\ i > j => heap[l].keySlots[i] > heap[m].keySlots[j]
  <2> HIDE DEF Still
  <2>1. j \in 0 .. heap[l].slotsinuse - 1
    BY <1>6
  <2>2. /\ i < j => heap[l].keySlots[i] < heap[l].keySlots[j]
        /\ j < i => heap[l].keySlots[j] < heap[l].keySlots[i]
    BY <1>2, <2>1
  <2> QED
    BY <1>2, <1>3, <1>6, <2>2
<1> QED
  BY <1>2, <1>3, <1>4, <1>5, <1>6

\* The least of a set of integers that has one.
LEMMA LeastIs ==
    ASSUME NEW S \in SUBSET Int, NEW x \in S, \A y \in S : x <= y
    PROVE  Least(S) = x
<1>1. \A n \in S : (\A m \in S : n <= m) => n = x
  OBVIOUS
<1> QED
  BY <1>1 DEF Least

\* The position p is at slot i of leaf l.
LEMMA Position ==
    ASSUME NEW t, Still(t), NEW p, Inside(p)
    PROVE  LET l == p.currnode
               n == heap[l].slotsinuse
           IN  /\ p = iterator(l, p.currslot) /\ l \in LeavesOf(t) /\ l \in t.G /\ t.lev[l] = 0
               /\ IsLeaf(heap, l) /\ n \in Nat /\ n >= 1 /\ n <= LeafSlots
               /\ \/ p.currslot \in 0 .. n - 1 /\ ~PastLast(p)
                  \/ p.currslot = n /\ heap[l].nextLeaf = NULL /\ PastLast(p)
<1>1. p = iterator(p.currnode, p.currslot) /\ p.currnode \in LeavesOf(t)
  BY TreeAtRest DEF Still, Inside
<1>2. p.currnode \in t.G /\ t.lev[p.currnode] = 0
  BY <1>1 DEF LeavesOf
<1>3. /\ IsLeaf(heap, p.currnode) /\ heap[p.currnode].slotsinuse \in Nat
      /\ heap[p.currnode].slotsinuse >= 1 /\ heap[p.currnode].slotsinuse <= LeafSlots
  BY <1>2, StillNode, LeafKeys
<1>4. \/ p.currslot \in 0 .. heap[p.currnode].slotsinuse - 1
      \/ p.currslot = heap[p.currnode].slotsinuse /\ heap[p.currnode].nextLeaf = NULL /\ PastLast(p)
  BY DEF Inside, OnEntry, PastLast
<1>5. p.currslot \in 0 .. heap[p.currnode].slotsinuse - 1 => ~PastLast(p)
  BY <1>3 DEF PastLast
<1> QED
  BY <1>1, <1>2, <1>3, <1>4, <1>5

\* An entry is a position inside the tree.
LEMMA EntryInside ==
    ASSUME NEW t, Still(t), NEW l \in LeavesOf(t), NEW i \in 0 .. heap[l].slotsinuse - 1
    PROVE  /\ Inside(iterator(l, i)) /\ OnEntry(iterator(l, i)) /\ iterator(l, i) # end
           /\ KeyUnder(iterator(l, i)) = heap[l].keySlots[i]
<1>1. l \in t.G /\ t.lev[l] = 0 /\ l \in TreeLeaves
  BY TreeAtRest DEF Still, LeavesOf
<1>2. IsLeaf(heap, l) /\ l # NULL
  BY <1>1, StillNode
<1>3. iterator(l, i).currnode = l /\ iterator(l, i).currslot = i /\ end.currnode = NULL
  BY DEF iterator, end
<1> QED
  BY <1>1, <1>2, <1>3 DEF Inside, OnEntry, KeyUnder

-----------------------------------------------------------------------------
\* The entry <<b, i>> holds the first key after the position p.
NextKey(t, p, b, i) ==
    /\ heap[b].keySlots[i] > KeyUnder(p)
    /\ \A m \in LeavesOf(t) : \A j \in 0 .. heap[m].slotsinuse - 1 :
          heap[m].keySlots[j] > KeyUnder(p) => heap[b].keySlots[i] <= heap[m].keySlots[j]

\* A step from p to that entry goes to the least of the keys after p.
LEMMA GoesToNext ==
    ASSUME NEW t, Still(t), NEW p, ~PastLast(p), NEW b \in LeavesOf(t),
           NEW i \in 0 .. heap[b].slotsinuse - 1, NextKey(t, p, b, i),
           NEW q, q = iterator(b, i)
    PROVE  /\ Inside(q) /\ q # end /\ KeysAfter(p) # {}
           /\ OnEntry(q) /\ KeyUnder(q) = Least(KeysAfter(p))
<1> DEFINE key(m, j) == heap[m].keySlots[j]
<1>1. Inside(q) /\ OnEntry(q) /\ q # end /\ KeyUnder(q) = key(b, i)
  BY EntryInside
<1>2. KeysAfter(p) = {k \in HeldKeys : k > KeyUnder(p)}
  BY DEF KeysAfter
<1>3. ASSUME NEW k \in KeysAfter(p) PROVE k \in Int /\ key(b, i) <= k
  <2>1. k \in HeldKeys /\ k > KeyUnder(p)
    BY <1>2
  <2>2. PICK m \in LeavesOf(t) : \E j \in 0 .. heap[m].slotsinuse - 1 : k = key(m, j)
    BY <2>1, HeldKeysAre
  <2>3. PICK j \in 0 .. heap[m].slotsinuse - 1 : k = key(m, j)
    BY <2>2
  <2>4. key(m, j) \in Int
    BY KeysAscend
  <2>5. key(m, j) > KeyUnder(p) => key(b, i) <= key(m, j)
    BY DEF NextKey
  <2> QED
    BY <2>1, <2>3, <2>4, <2>5
<1>4. key(b, i) \in KeysAfter(p)
  <2>1. key(b, i) \in HeldKeys
    BY HeldKeysAre
  <2>2. key(b, i) > KeyUnder(p)
    BY DEF NextKey
  <2> QED
    BY <1>2, <2>1, <2>2
<1> HIDE DEF key
<1>5. Least(KeysAfter(p)) = key(b, i)
  BY <1>3, <1>4, LeastIs
<1> QED
  BY <1>1, <1>4, <1>5

\* operator++ goes from a position inside the tree to the next greater key, if any.
LEMMA Advances ==
    ASSUME NEW t, Still(t), NEW p, Inside(p)
    PROVE  /\ Inside(advance(p)) /\ advance(p) # end
           /\ IF KeysAfter(p) = {} THEN PastLast(advance(p))
              ELSE OnEntry(advance(p)) /\ KeyUnder(advance(p)) = Least(KeysAfter(p))
<1> DEFINE l == p.currnode
           s == p.currslot
           n == heap[l].slotsinuse
           q == advance(p)
           key(m, i) == heap[m].keySlots[i]
<1>1. /\ p = iterator(l, s) /\ l \in LeavesOf(t) /\ l \in t.G /\ t.lev[l] = 0
      /\ IsLeaf(heap, l) /\ n \in Nat /\ n >= 1
      /\ \/ s \in 0 .. n - 1 /\ ~PastLast(p)
         \/ s = n /\ heap[l].nextLeaf = NULL /\ PastLast(p)
  BY Position
<1>2. /\ \/ t.hi[l] = t.top /\ heap[l].nextLeaf = NULL
         \/ heap[l].nextLeaf # NULL /\ Follows(t, l, heap[l].nextLeaf)
  BY <1>1, ChainLinks
<1>3. q = IF s + 1 < n THEN iterator(l, s + 1)
          ELSE IF heap[l].nextLeaf # NULL THEN iterator(heap[l].nextLeaf, 0)
          ELSE iterator(l, n)
  BY DEF advance
<1>4. ASSUME q = iterator(l, n), heap[l].nextLeaf = NULL PROVE Inside(q) /\ q # end /\ PastLast(q)
  <2>1. q.currnode = l /\ q.currslot = n /\ end.currnode = NULL
    BY <1>4 DEF iterator, end
  <2>2. l \in TreeLeaves /\ l # NULL
    BY <1>1, TreeAtRest, StillNode DEF Still
  <2>3. PastLast(q)
    BY <1>1, <1>4, <2>1 DEF PastLast
  <2> QED
    BY <1>4, <2>1, <2>2, <2>3 DEF Inside
<1>5. CASE PastLast(p)
  <2>1. q = iterator(l, n) /\ heap[l].nextLeaf = NULL
    BY <1>1, <1>3, <1>5
  <2>2. KeysAfter(p) = {}
    BY <1>5 DEF KeysAfter
  <2> QED
    BY <1>4, <2>1, <2>2
<1>6. CASE ~PastLast(p)
  <2>1. s \in 0 .. n - 1 /\ KeysAfter(p) = {k \in HeldKeys : k > key(l, s)}
    BY <1>1, <1>6 DEF KeysAfter, KeyUnder
  <2>2. KeyUnder(p) = key(l, s)
    BY DEF KeyUnder
  <2>3. CASE s + 1 < n
    <3>1. s + 1 \in 0 .. heap[l].slotsinuse - 1 /\ s \in 0 .. heap[l].slotsinuse - 1 /\ s < s + 1
      BY <1>1, <2>1, <2>3
    <3>2. key(l, s + 1) > key(l, s) /\ key(l, s + 1) \in Int /\ key(l, s) \in Int
      <4>1. key(l, s) < key(l, s + 1) /\ key(l, s + 1) \in Int /\ key(l, s) \in Int
        BY <1>1, <3>1, KeysAscend
      <4> QED
        BY <4>1
    <3>3. ASSUME NEW m \in LeavesOf(t), NEW j \in 0 .. heap[m].slotsinuse - 1, key(m, j) > key(l, s)
          PROVE  key(l, s + 1) <= key(m, j)
      <4>1. key(m, j) \in Int /\ (l # m => t.hi[l] <= t.lo[m] \/ t.hi[m] <= t.lo[l])
        BY <1>1, <3>1, KeysAscend
      <4>2. CASE l = m
        <5>1. j \in 0 .. heap[l].slotsinuse - 1 /\ ~(s > j) /\ j # s
          <6>1. s > j => key(l, s) > key(l, j)
            BY <1>1, <3>1, <4>2, KeysAscend
          <6>2. key(l, j) > key(l, s)
            BY <3>3, <4>2
          <6> HIDE DEF key
          <6> QED
            BY <3>2, <4>1, <4>2, <6>1, <6>2
        <5>2. j = s + 1 \/ s + 1 < j
          <6> HIDE DEF s
          <6> QED
            BY <3>1, <5>1
        <5>3. s + 1 < j => key(l, s + 1) < key(l, j)
          BY <1>1, <3>1, <5>1, KeysAscend
        <5> HIDE DEF key
        <5> QED
          BY <3>2, <4>1, <4>2, <5>2, <5>3
      <4>3. CASE t.hi[l] <= t.lo[m]
        <5>1. key(l, s + 1) < key(m, j)
          BY <1>1, <3>1, <4>3, KeysAscend
        <5> HIDE DEF key
        <5> QED
          BY <3>2, <4>1, <5>1
      <4>4. CASE t.hi[m] <= t.lo[l]
        <5>1. key(l, s) > key(m, j)
          BY <1>1, <3>1, <4>4, KeysAscend
        <5> HIDE DEF key
        <5> QED
          BY <3>2, <3>3, <4>1, <5>1
      <4> QED
        BY <4>1, <4>2, <4>3, <4>4
    <3>4. q = iterator(l, s + 1)
      BY <1>3, <2>3
    <3>5. NextKey(t, p, l, s + 1)
      BY <2>2, <3>2, <3>3 DEF NextKey
    <3> QED
      BY <1>1, <1>6, <3>1, <3>4, <3>5, GoesToNext
  <2>4. CASE ~(s + 1 < n)
    <3>1. s = n - 1 /\ s \in 0 .. heap[l].slotsinuse - 1
      <4> HIDE DEF s, n
      <4> QED
        BY <1>1, <2>1, <2>4 DEF n
    <3>2. ASSUME NEW m \in LeavesOf(t), NEW j \in 0 .. heap[m].slotsinuse - 1, key(m, j) > key(l, s)
          PROVE  t.hi[l] <= t.lo[m]
      <4>1. /\ key(m, j) \in Int /\ key(l, s) \in Int
            /\ l # m => t.hi[l] <= t.lo[m] \/ t.hi[m] <= t.lo[l]
            /\ t.hi[m] <= t.lo[l] => key(l, s) > key(m, j)
            /\ l = m /\ s > j => key(l, s) > key(m, j)
        BY <1>1, <3>1, KeysAscend
      <4>2. l = m => s > j \/ j = s
        <5> HIDE DEF s, l
        <5> QED
          BY <1>1, <3>1 DEF n
      <4>3. l = m /\ j = s => key(m, j) = key(l, s)
        OBVIOUS
      <4> HIDE DEF key, s, l
      <4> QED
        BY <3>2, <4>1, <4>2, <4>3
    <3>3. CASE heap[l].nextLeaf = NULL
      <4>1. q = iterator(l, n)
        BY <1>3, <2>4, <3>3
      <4>2. ASSUME NEW k \in KeysAfter(p) PROVE FALSE
        <5>1. k \in HeldKeys /\ k > key(l, s)
          BY <2>1
        <5>2. PICK m \in LeavesOf(t) : \E j \in 0 .. heap[m].slotsinuse - 1 : k = key(m, j)
          BY <5>1, HeldKeysAre
        <5>3. t.hi[l] <= t.lo[m] /\ t.hi[l] = t.top
          BY <1>2, <3>2, <3>3, <5>1, <5>2
        <5>4. t.lo[m] \in Int /\ t.hi[m] \in Int /\ t.lo[m] < t.hi[m] /\ t.hi[m] <= t.top /\ t.top \in Int
          BY LeafKeys DEF LeavesOf
        <5> QED
          BY <5>3, <5>4
      <4> QED
        BY <1>4, <3>3, <4>1, <4>2
    <3>4. CASE heap[l].nextLeaf # NULL
      <4> DEFINE b == heap[l].nextLeaf
      <4>1. b \in LeavesOf(t) /\ t.lo[b] = t.hi[l] /\ q = iterator(b, 0)
        BY <1>2, <1>3, <2>4, <3>4 DEF Follows, LeavesOf
      <4> HIDE DEF b, q
      <4>2. /\ 0 \in 0 .. heap[b].slotsinuse - 1 /\ t.lo[b] \in Int /\ t.hi[b] \in Int
            /\ t.lo[b] < t.hi[b] /\ t.hi[l] <= t.lo[b]
        <5>1. /\ heap[b].slotsinuse \in Nat /\ heap[b].slotsinuse >= 1
              /\ t.lo[b] \in Int /\ t.hi[b] \in Int /\ t.lo[b] < t.hi[b]
          BY <4>1, LeafKeys DEF LeavesOf
        <5> QED
          BY <4>1, <5>1
      <4>3. key(b, 0) > key(l, s) /\ key(b, 0) \in Int
        <5>1. key(l, s) < key(b, 0) /\ key(l, s) \in Int /\ key(b, 0) \in Int
          BY <1>1, <3>1, <4>1, <4>2, KeysAscend
        <5> HIDE DEF key
        <5> QED
          BY <5>1
      <4>4. ASSUME NEW m \in LeavesOf(t), NEW j \in 0 .. heap[m].slotsinuse - 1,
                   key(m, j) > key(l, s)
            PROVE  key(b, 0) <= key(m, j)
        <5>1. t.lo[b] <= t.lo[m]
          BY <3>2, <4>1, <4>4
        <5>2. /\ key(m, j) \in Int /\ (b # m => t.hi[b] <= t.lo[m] \/ t.hi[m] <= t.lo[b])
              /\ t.hi[b] <= t.lo[m] => key(b, 0) < key(m, j)
              /\ b = m /\ 0 < j => key(b, 0) < key(m, j)
          BY <4>1, <4>2, KeysAscend
        <5>3. t.lo[m] \in Int /\ t.hi[m] \in Int /\ t.lo[m] < t.hi[m]
          BY LeafKeys DEF LeavesOf
        <5>4. CASE b = m
          <6>1. j = 0 \/ 0 < j
            OBVIOUS
          <6>2. j = 0 => key(m, j) = key(b, 0)
            BY <5>4
          <6> HIDE DEF key
          <6> QED
            BY <4>3, <5>2, <5>4, <6>1, <6>2
        <5>5. CASE b # m
          <6> HIDE DEF key
          <6> QED
            BY <4>2, <4>3, <5>1, <5>2, <5>3, <5>5
        <5> QED
          BY <5>4, <5>5
      <4>5. NextKey(t, p, b, 0)
        BY <2>2, <4>3, <4>4 DEF NextKey
      <4> QED
        BY <1>6, <4>1, <4>2, <4>5, GoesToNext DEF q
    <3> QED
      BY <3>3, <3>4
  <2> QED
    BY <2>3, <2>4
<1> QED
  BY <1>5, <1>6

\* The entry <<b, i>> holds the last key before the position p.
PreviousKey(t, p, b, i) ==
    /\ heap[b].keySlots[i] \in KeysBefore(p)
    /\ \A m \in LeavesOf(t) : \A j \in 0 .. heap[m].slotsinuse - 1 :
          heap[m].keySlots[j] \in KeysBefore(p) => heap[m].keySlots[j] <= heap[b].keySlots[i]

\* A step from p to that entry goes to the greatest of the keys before p.
LEMMA GoesToPrevious ==
    ASSUME NEW t, Still(t), NEW p, NEW b \in LeavesOf(t),
           NEW i \in 0 .. heap[b].slotsinuse - 1, PreviousKey(t, p, b, i),
           NEW q, q = iterator(b, i)
    PROVE  /\ Inside(q) /\ q # end /\ KeysBefore(p) # {}
           /\ OnEntry(q) /\ KeyUnder(q) \in KeysBefore(p)
           /\ \A k \in KeysBefore(p) : k <= KeyUnder(q)
<1> DEFINE key(m, j) == heap[m].keySlots[j]
<1>1. Inside(q) /\ OnEntry(q) /\ q # end /\ KeyUnder(q) = key(b, i)
  BY EntryInside
<1>2. KeysBefore(p) \subseteq HeldKeys
  BY DEF KeysBefore
<1>3. ASSUME NEW k \in KeysBefore(p) PROVE k <= key(b, i)
  <2>1. k \in HeldKeys
    BY <1>2
  <2>2. PICK m \in LeavesOf(t) : \E j \in 0 .. heap[m].slotsinuse - 1 : k = key(m, j)
    BY <2>1, HeldKeysAre
  <2>3. PICK j \in 0 .. heap[m].slotsinuse - 1 : k = key(m, j)
    BY <2>2
  <2> QED
    BY <1>3, <2>3 DEF PreviousKey
<1>4. key(b, i) \in KeysBefore(p)
  BY DEF PreviousKey
<1> HIDE DEF key
<1> QED
  BY <1>1, <1>3, <1>4

\* operator-- goes from a position inside the tree to the next smaller key, if any.
LEMMA Retreats ==
    ASSUME NEW t, Still(t), NEW p, Inside(p)
    PROVE  /\ Inside(retreat(p)) /\ retreat(p) # end
           /\ IF KeysBefore(p) = {} THEN retreat(p) = p
              ELSE /\ OnEntry(retreat(p)) /\ KeyUnder(retreat(p)) \in KeysBefore(p)
                   /\ \A k \in KeysBefore(p) : k <= KeyUnder(retreat(p))
<1> DEFINE l == p.currnode
           s == p.currslot
           n == heap[l].slotsinuse
           q == retreat(p)
           b == heap[l].prevLeaf
           key(m, i) == heap[m].keySlots[i]
<1>1. /\ p = iterator(l, s) /\ l \in LeavesOf(t) /\ l \in t.G /\ t.lev[l] = 0
      /\ IsLeaf(heap, l) /\ n \in Nat /\ n >= 1 /\ n <= LeafSlots
      /\ \/ s \in 0 .. n - 1 /\ ~PastLast(p)
         \/ s = n /\ heap[l].nextLeaf = NULL /\ PastLast(p)
  BY Position
<1>2. /\ \/ t.hi[l] = t.top /\ heap[l].nextLeaf = NULL
         \/ heap[l].nextLeaf # NULL /\ Follows(t, l, heap[l].nextLeaf)
      /\ \/ t.lo[l] = t.bot /\ b = NULL
         \/ b # NULL /\ Follows(t, b, l)
  BY <1>1, ChainLinks
<1>3. q = IF s > 0 THEN iterator(l, s - 1)
          ELSE IF b # NULL THEN iterator(b, Dec(heap[b].slotsinuse))
          ELSE iterator(l, 0)
  BY DEF retreat
<1>4. CASE PastLast(p)
  <2>1. s = n /\ heap[l].nextLeaf = NULL /\ t.hi[l] = t.top
    BY <1>1, <1>2, <1>4 DEF PastLast
  <2>2. n - 1 \in 0 .. heap[l].slotsinuse - 1 /\ q = iterator(l, n - 1)
    <3>1. n > 0 /\ n - 1 \in 0 .. n - 1
      BY <1>1
    <3>2. s > 0 /\ s - 1 = n - 1
      BY <2>1, <3>1
    <3> QED
      BY <1>3, <3>1, <3>2
  <2>3. KeysBefore(p) = HeldKeys
    BY <1>4 DEF KeysBefore
  <2>4. ASSUME NEW m \in LeavesOf(t), NEW j \in 0 .. heap[m].slotsinuse - 1
        PROVE  key(m, j) <= key(l, n - 1)
    <3>1. /\ key(l, n - 1) \in Int /\ key(m, j) \in Int
          /\ l # m => t.hi[l] <= t.lo[m] \/ t.hi[m] <= t.lo[l]
          /\ t.hi[m] <= t.lo[l] => key(l, n - 1) > key(m, j)
          /\ l = m /\ n - 1 > j => key(l, n - 1) > key(m, j)
      BY <1>1, <2>2, KeysAscend
    <3>2. t.lo[m] \in Int /\ t.hi[m] \in Int /\ t.lo[m] < t.hi[m] /\ t.hi[m] <= t.top
          /\ t.top \in Int
      BY LeafKeys DEF LeavesOf
    <3>3. l = m => n - 1 > j \/ j = n - 1
      BY <1>1
    <3>4. l = m /\ j = n - 1 => key(m, j) = key(l, n - 1)
      OBVIOUS
    <3> HIDE DEF key, n, l, s
    <3> QED
      BY <2>1, <3>1, <3>2, <3>3, <3>4
  <2>5. key(l, n - 1) \in HeldKeys
    BY <1>1, <2>2, HeldKeysAre
  <2>6. PreviousKey(t, p, l, n - 1)
    BY <2>3, <2>4, <2>5 DEF PreviousKey
  <2> QED
    BY <1>1, <2>2, <2>6, GoesToPrevious
<1>5. CASE ~PastLast(p)
  <2>1. s \in 0 .. n - 1 /\ \A k : k \in KeysBefore(p) <=> k \in HeldKeys /\ k < key(l, s)
    BY <1>1, <1>5 DEF KeysBefore, KeyUnder
  <2>2. CASE s > 0
    <3>1. s - 1 \in 0 .. heap[l].slotsinuse - 1 /\ s \in 0 .. heap[l].slotsinuse - 1 /\ s - 1 < s
      BY <1>1, <2>1, <2>2
    <3>2. key(l, s - 1) < key(l, s) /\ key(l, s - 1) \in Int /\ key(l, s) \in Int
      BY <1>1, <3>1, KeysAscend
    <3>3. ASSUME NEW m \in LeavesOf(t), NEW j \in 0 .. heap[m].slotsinuse - 1,
                 key(m, j) < key(l, s)
          PROVE  key(m, j) <= key(l, s - 1)
      <4>1. /\ key(m, j) \in Int /\ (l # m => t.hi[l] <= t.lo[m] \/ t.hi[m] <= t.lo[l])
            /\ t.hi[l] <= t.lo[m] => key(l, s) < key(m, j)
            /\ l = m /\ s < j => key(l, s) < key(m, j)
        BY <1>1, <3>1, KeysAscend
      <4>2. /\ t.hi[m] <= t.lo[l] => key(l, s - 1) > key(m, j)
            /\ l = m /\ s - 1 > j => key(l, s - 1) > key(m, j)
        BY <1>1, <3>1, KeysAscend
      <4>3. l = m => s < j \/ j = s \/ j = s - 1 \/ s - 1 > j
        <5> HIDE DEF s
        <5> QED
          BY <3>1
      <4>4. l = m /\ j = s - 1 => key(m, j) = key(l, s - 1)
        OBVIOUS
      <4>5. l = m /\ j = s => key(m, j) = key(l, s)
        OBVIOUS
      <4> HIDE DEF key, s, l
      <4> QED
        BY <3>2, <3>3, <4>1, <4>2, <4>3, <4>4, <4>5
    <3>4. key(l, s - 1) \in HeldKeys
      BY <1>1, <3>1, HeldKeysAre
    <3>5. PreviousKey(t, p, l, s - 1)
      BY <2>1, <3>2, <3>3, <3>4 DEF PreviousKey
    <3>6. q = iterator(l, s - 1)
      BY <1>3, <2>2
    <3> QED
      BY <1>1, <3>1, <3>5, <3>6, GoesToPrevious
  <2>3. CASE ~(s > 0)
    <3>1. s = 0 /\ 0 \in 0 .. heap[l].slotsinuse - 1
      <4> HIDE DEF s
      <4> QED
        BY <1>1, <2>1, <2>3
    <3>2. ASSUME NEW m \in LeavesOf(t), NEW j \in 0 .. heap[m].slotsinuse - 1,
                 key(m, j) < key(l, 0)
          PROVE  l # m /\ t.hi[m] <= t.lo[l]
      <4>1. /\ key(m, j) \in Int /\ key(l, 0) \in Int
            /\ l # m => t.hi[l] <= t.lo[m] \/ t.hi[m] <= t.lo[l]
            /\ t.hi[l] <= t.lo[m] => key(l, 0) < key(m, j)
            /\ l = m /\ 0 < j => key(l, 0) < key(m, j)
        BY <1>1, <3>1, KeysAscend
      <4>2. j = 0 \/ 0 < j
        OBVIOUS
      <4>3. l = m /\ j = 0 => key(m, j) = key(l, 0)
        OBVIOUS
      <4> HIDE DEF key, s, l
      <4> QED
        BY <3>2, <4>1, <4>2, <4>3
    <3>3. CASE b = NULL
      <4>1. q = iterator(l, 0) /\ t.lo[l] = t.bot
        BY <1>2, <1>3, <2>3, <3>3
      <4>2. q = p
        BY <1>1, <3>1, <4>1
      <4>3. ASSUME NEW k \in KeysBefore(p) PROVE FALSE
        <5>1. k \in HeldKeys /\ k < key(l, 0)
          BY <2>1, <3>1
        <5>2. PICK m \in LeavesOf(t) : \E j \in 0 .. heap[m].slotsinuse - 1 : k = key(m, j)
          BY <5>1, HeldKeysAre
        <5>3. t.hi[m] <= t.bot
          BY <3>2, <4>1, <5>1, <5>2
        <5>4. t.lo[m] \in Int /\ t.hi[m] \in Int /\ t.lo[m] < t.hi[m] /\ t.bot <= t.lo[m]
              /\ t.bot \in Int
          BY LeafKeys DEF LeavesOf
        <5> QED
          BY <5>3, <5>4
      <4>4. q # end
        <5>1. l # NULL /\ end.currnode = NULL /\ q.currnode = l
          BY <1>1, <4>1, StillNode DEF end, iterator
        <5> HIDE DEF q, l
        <5> QED
          BY <5>1
      <4> HIDE DEF q
      <4> QED
        BY <4>2, <4>3, <4>4 DEF q
    <3>4. CASE b # NULL
      <4>1. b \in LeavesOf(t) /\ t.hi[b] = t.lo[l] /\ q = iterator(b, Dec(heap[b].slotsinuse))
        BY <1>2, <1>3, <2>3, <3>4 DEF Follows, LeavesOf
      <4> HIDE DEF b, q
      <4>2. /\ heap[b].slotsinuse \in Nat /\ heap[b].slotsinuse >= 1
            /\ heap[b].slotsinuse <= LeafSlots /\ t.lo[b] \in Int /\ t.hi[b] \in Int
            /\ t.lo[b] < t.hi[b]
        BY <4>1, LeafKeys DEF LeavesOf
      <4> DEFINE i == heap[b].slotsinuse - 1
      <4>3. Dec(heap[b].slotsinuse) = i /\ i \in 0 .. heap[b].slotsinuse - 1
        BY <4>2, Counting, SlotsAssumption
      <4>4. key(b, i) < key(l, 0) /\ key(b, i) \in Int /\ key(l, 0) \in Int
        <5>1. t.hi[b] <= t.lo[l]
          BY <4>1, <4>2
        <5> QED
          BY <1>1, <3>1, <4>1, <4>3, <5>1, KeysAscend
      <4>5. ASSUME NEW m \in LeavesOf(t), NEW j \in 0 .. heap[m].slotsinuse - 1,
                   key(m, j) < key(l, 0)
            PROVE  key(m, j) <= key(b, i)
        <5>1. t.hi[m] <= t.hi[b]
          BY <3>2, <4>1, <4>5
        <5>2. /\ key(m, j) \in Int /\ (b # m => t.hi[b] <= t.lo[m] \/ t.hi[m] <= t.lo[b])
              /\ t.hi[m] <= t.lo[b] => key(b, i) > key(m, j)
              /\ b = m /\ i > j => key(b, i) > key(m, j)
          BY <4>1, <4>3, KeysAscend
        <5>3. t.lo[m] \in Int /\ t.hi[m] \in Int /\ t.lo[m] < t.hi[m]
          BY LeafKeys DEF LeavesOf
        <5>4. b = m => i > j \/ j = i
          BY <4>2
        <5>5. b = m /\ j = i => key(m, j) = key(b, i)
          OBVIOUS
        <5> HIDE DEF key, i
        <5> QED
          BY <4>2, <4>4, <5>1, <5>2, <5>3, <5>4, <5>5
      <4>6. key(b, i) \in HeldKeys
        BY <4>1, <4>3, HeldKeysAre
      <4>7. PreviousKey(t, p, b, i)
        BY <2>1, <3>1, <4>4, <4>5, <4>6 DEF PreviousKey
      <4>8. q = iterator(b, i)
        BY <4>1, <4>3
      <4> QED
        BY <4>1, <4>3, <4>7, <4>8, GoesToPrevious DEF q
    <3> QED
      BY <3>3, <3>4
  <2> QED
    BY <2>2, <2>3
<1> QED
  BY <1>4, <1>5

-----------------------------------------------------------------------------
\* The tree stands while it is searched, too.
LEMMA AtSearch ==
    ASSUME AppendInv, root # NULL, pc \in {"idle", "find", "get"}
    PROVE  \E t : Still(t) /\ Shape(heap, t, pc, local, call, root)
<1>1. heap \in Heap /\ Within(heap)
  BY Globals DEF AppendInv, RootInv, InsertInv, Filled
<1>2. PICK t : Shape(heap, t, pc, local, call, root) /\ totalkeycount = Cardinality(Pairs(heap, t))
  BY DEF AppendInv, Grown
<1>3. Resting(heap, t, root)
  BY <1>2 DEF Shape
<1>4. heap[root].isrootnode /\ heap[root].parent = NULL
  BY DEF AppendInv, RootInv, RootSafe, Rooted
<1>5. SearchTree(t) /\ IsFiniteSet(t.G) /\ root \in t.G
  BY <1>3 DEF Resting, Stands, Crown
<1> QED
  BY <1>1, <1>2, <1>3, <1>4, <1>5 DEF Still

\* Where a split goes up to a parent, the root is an inner node.
LEMMA RootAbove ==
    ASSUME AppendInv, pc \in {"insert_in_parent", "split_parent"}, local.parent # NULL
    PROVE  ~IsLeaf(heap, root)
<1> DEFINE P == local.parent
<1>1. PICK t : Shape(heap, t, pc, local, call, root)
  BY Shaped
<1>2. /\ Climbing(heap, t, local, root) /\ SearchTree(t)
      /\ \A m \in t.G : m # P => Says(heap, t, m)
  BY <1>1 DEF Shape, Rising, Splitting, Stands
<1>3. Crown(t, root) /\ P \in t.G /\ t.lev[P] > 0 /\ IsInner(heap, P)
  BY <1>2 DEF Climbing, Behind
<1>4. root \in t.G /\ t.lev[root] = t.height
  BY <1>3 DEF Crown
<1>5. t.lev[root] # 0
  BY <1>2, <1>3, <1>4, Numbers
<1>6. IsInner(heap, root)
  BY <1>2, <1>3, <1>4, <1>5 DEF Says, InnerSays
<1> QED
  BY <1>6 DEF IsInner, IsLeaf

\* A step that keeps the root and its kind keeps this.
LEMMA KindKept ==
    ASSUME HeadSafe, root # NULL, root' = root, headleaf' = headleaf,
           NEW g, NEW p, NEW l, Go(g, p, l), g # Fault => (IsLeaf(heap, root) => IsLeaf(g, root))
    PROVE  HeadSafe'
  BY DEF HeadSafe, Go

\* The root that the first pair makes is a leaf.
LEMMA CallsKeepHead ==
    ASSUME AppendInv, HeadSafe, Calls, Erases = {}, DeletePairs = {}, pc' # "undefined"
    PROVE  HeadSafe'
<1>1. PICK k \in Keys :
          \/ \E d \in PayloadsOf[k] : MakeRoot(k, d) \/ CallInsert(k, d)
          \/ \E d \in Payloads : CallDeletePair(k, d)
          \/ CallErase(k) \/ CallGet(k)
          \/ \E op \in {"get", "erase", "delete_pair"} : CallOnEmptyTree(op, k)
  BY DEF Calls
<1>2. ASSUME NEW d \in PayloadsOf[k], MakeRoot(k, d) PROVE HeadSafe'
  <2> DEFINE l == FirstId
             r == [NewLeaf EXCEPT !.isrootnode = TRUE]
             h == new(heap, l, r)
             g == insertleafAt(h, l, k, d, 0)
  <2>1. UnusedIds # {}
    <3>1. Cardinality(UnusedIds) >= Reserve /\ Reserve \in Nat \ {0}
      BY <1>2, WorkloadAssumption DEF MakeRoot
    <3>2. UnusedIds = {} => Cardinality(UnusedIds) = 0
      BY FS_EmptySet, Zenon
    <3> QED
      BY <3>1, <3>2
  <2>2. r \in node /\ r.isleafnode
    BY NewNodes DEF node, leafNode, NewLeaf
  <2>3. heap \in Heap /\ l \in NodeIds
    BY <2>1, FirstUnused DEF AppendInv, RootInv, InsertInv, TypeInv, TypeOK
  <2>4. h \in Heap /\ IsLeaf(h, l)
    <3> HIDE DEF r, l
    <3> QED
      BY <2>2, <2>3, NewInHeap DEF IsLeaf
  <2>5. 0 \in LeafIndex /\ k \in KeySlot /\ d \in DataSlot
    BY Data, SlotsAssumption DEF LeafIndex
  <2>6. g \in Edits(h)
    <3> HIDE DEF l, h
    <3> QED
      BY <2>4, <2>5, InsertAtEdits
  <2>7. Return(g, "ok", EmptyData) /\ root' = l
    BY <1>2 DEF MakeRoot
  <2>8. g # Fault /\ heap' = g
    BY <2>7 DEF Return, Go
  <2> HIDE DEF g, h, l
  <2>9. IsLeaf(g, l)
    BY <2>4, <2>6, <2>8, EditsKeep
  <2> QED
    BY <2>7, <2>8, <2>9 DEF HeadSafe
<1>3. ASSUME NEW op, NEW d, Start(op, k, d) PROVE HeadSafe'
  BY <1>3 DEF Start, HeadSafe, IsLeaf, Live
<1>4. ASSUME NEW op, CallOnEmptyTree(op, k) PROVE HeadSafe'
  BY <1>4 DEF CallOnEmptyTree, HeadSafe, IsLeaf, Live
<1>5. ~CallErase(k) /\ \A d : ~CallDeletePair(k, d)
  BY DEF CallErase, CallDeletePair, MayErase
<1>6. ASSUME NEW d \in PayloadsOf[k], CallInsert(k, d) PROVE HeadSafe'
  BY <1>3, <1>6 DEF CallInsert
<1>7. CASE CallGet(k)
  BY <1>3, <1>7 DEF CallGet
<1> QED
  BY <1>1, <1>2, <1>4, <1>5, <1>6, <1>7


\* A pair goes into the root, or the root is split: its halves are other nodes.
LEMMA InsertKeepsHead ==
    ASSUME AppendInv, HeadSafe, (\E junk : InsertPair(junk)) \/ SplitFullLeaf
    PROVE  HeadSafe'
<1>1. /\ pc = "insert" /\ root' = root /\ headleaf' = headleaf /\ TypeInv /\ pc \in Ops
      /\ root # NULL /\ heap \in Heap
  <2>1. pc = "insert" /\ root' = root /\ headleaf' = headleaf
    BY DEF InsertPair, SplitFullLeaf
  <2> QED
    BY <2>1, Shaped DEF Ops
<1>2. ASSUME NEW junk, InsertPair(junk) PROVE HeadSafe'
  <2> DEFINE g == insertleafpair(heap, local.at, call.key, call.data, junk)
  <2>1. g \in Edits(heap)
    BY <1>1, AtOps, CallFields, InsertLeafPairEdits
  <2>2. Go(g, "idle", [at |-> NULL])
    BY <1>2 DEF InsertPair, Return
  <2> HIDE DEF g
  <2>3. g # Fault => (IsLeaf(heap, root) => IsLeaf(g, root))
    BY <1>1, <2>1, EditsKeep
  <2> QED
    BY <1>1, <2>2, <2>3, KindKept
<1>3. CASE SplitFullLeaf
  <2> DEFINE split == SplitLeaf(heap[local.at], call.key, call.data)
             rn    == [split.ln EXCEPT !.nextLeaf = SecondId]
             rp    == [split.lp EXCEPT !.prevLeaf = FirstId]
             h1    == new(heap, FirstId, rn)
             g     == new(h1, SecondId, rp)
  <2>1. heap[FirstId] = Free /\ heap[SecondId] = Free
    BY <1>3, Addresses DEF SplitFullLeaf
  <2>2. \E l : Go(g, "insert_in_parent", l)
    BY <1>3, Zenon DEF SplitFullLeaf
  <2>3. IsLeaf(heap, root) => root # FirstId /\ root # SecondId /\ root \in NodeIds
    BY <2>1 DEF IsLeaf, Live
  <2>4. \A m \in NodeIds : m # FirstId /\ m # SecondId => g[m] = heap[m]
    <3> HIDE DEF rn, rp
    <3> QED
      BY <1>1 DEF new, Heap
  <2> HIDE DEF g
  <2>5. IsLeaf(heap, root) => IsLeaf(g, root)
    BY <2>3, <2>4 DEF IsLeaf, Live
  <2> QED
    BY <1>1, <2>2, <2>5, KindKept
<1> QED
  BY <1>2, <1>3

\* A split that goes up leaves the root an inner node, or makes another.
LEMMA ClimbKeepsHead ==
    ASSUME AppendInv, HeadSafe,
           NewRoot \/ InsertInParent \/ SplitParent \/ SplitParentLoop \/ SplitParentEnd,
           pc' # "undefined"
    PROVE  HeadSafe'
<1>1. CASE NewRoot
  <2>1. root' = FirstId /\ headleaf' = headleaf /\ UnusedIds # {}
    BY <1>1 DEF NewRoot, CanAllocate
  <2>2. UnusedIds \in SUBSET Nat /\ headleaf \notin UnusedIds
    BY NodeIdsAssumption DEF UnusedIds
  <2>3. FirstId \in UnusedIds
    BY <2>1, <2>2, LeastIsMember DEF FirstId
  <2> QED
    BY <2>1, <2>2, <2>3 DEF HeadSafe
<1>2. CASE InsertInParent \/ SplitParent \/ SplitParentLoop \/ SplitParentEnd
  <2>1. /\ pc \in {"insert_in_parent", "split_parent"} /\ root' = root /\ headleaf' = headleaf
    BY <1>2, Zenon DEF InsertInParent, SplitParent, SplitParentLoop, SplitParentEnd
  <2>2. local.parent # NULL
    <3>1. CASE pc = "split_parent"
      <4>1. \E t : Shape(heap, t, pc, local, call, root)
        BY <3>1, Shaped
      <4> QED
        BY <3>1, <4>1 DEF Shape, Splitting
    <3>2. CASE pc = "insert_in_parent"
      <4>1. IsInner(heap, local.parent)
        BY <1>2, <3>2 DEF InsertInParent, SplitParent, SplitParentLoop, SplitParentEnd
      <4> QED
        BY <4>1, NodeIdsAssumption DEF IsInner, Live
    <3> QED
      BY <2>1, <3>1, <3>2
  <2>3. root # headleaf \/ root = NULL
    BY <2>1, <2>2, RootAbove DEF HeadSafe
  <2> QED
    BY <2>1, <2>3 DEF HeadSafe
<1> QED
  BY <1>1, <1>2

\* find, get and the refusal of a pair change neither.
LEMMA AnswersKeepHead ==
    ASSUME HeadSafe, FindChild \/ FindNextLeaf \/ FindLeaf \/ Get \/ \E junk : InsertDuplicate(junk)
    PROVE  HeadSafe'
<1>1. UNCHANGED <<heap, root, headleaf>>
  BY DEF FindChild, FindNextLeaf, FindLeaf, Get, InsertDuplicate, Return, Go
<1> QED
  BY <1>1 DEF HeadSafe, IsLeaf, Live

\* Every step keeps it.
LEMMA NextKeepsHead ==
    ASSUME AppendInv, HeadSafe, Next, Erases = {}, DeletePairs = {}, pc' # "undefined"
    PROVE  HeadSafe'
<1>1. ~Undefined /\ ~Stopped /\ InsertInv
  BY NothingUndefined DEF Stopped, AppendInv, Grown, RootInv
<1>2. CASE Calls
  BY <1>2, CallsKeepHead
<1>3. CASE Steps
  <2>1. CASE FindChild \/ FindNextLeaf \/ FindLeaf
    BY <2>1, AnswersKeepHead
  <2>2. CASE NewRoot \/ InsertInParent
    BY <2>2, ClimbKeepsHead
  <2>3. CASE SplitParent \/ SplitParentLoop \/ SplitParentEnd
    BY <2>3, ClimbKeepsHead
  <2>4. ASSUME (\E junk : InsertPair(junk)) \/ SplitFullLeaf PROVE HeadSafe'
    BY <2>4, InsertKeepsHead
  <2>5. ASSUME Get \/ \E junk : InsertDuplicate(junk) PROVE HeadSafe'
    BY <2>5, AnswersKeepHead
  <2> QED
    BY <1>1, <1>3, <2>1, <2>2, <2>3, <2>4, <2>5, NothingIsDeleted, Zenon DEF Steps
<1> QED
  BY <1>1, <1>2, <1>3 DEF Next

-----------------------------------------------------------------------------
\* A position stays inside a tree that does not change.
LEMMA InsideKept ==
    ASSUME UNCHANGED <<heap, root>>, Inside(it')
    PROVE  Inside(it)'
<1>1. TreeLeaves' = TreeLeaves
  BY DEF TreeLeaves, LeavesBelow, Live
<1> QED
  BY <1>1 DEF Inside, OnEntry, PastLast, IsLeaf, Live, iterator

\* The first entry of a leaf of the tree is a position inside it.
LEMMA FirstInside ==
    ASSUME NEW t, Still(t), NEW l \in LeavesOf(t)
    PROVE  Inside(iterator(l, 0))
<1>1. heap[l].slotsinuse \in Nat /\ heap[l].slotsinuse >= 1
  BY LeafKeys DEF LeavesOf
<1>2. 0 \in 0 .. heap[l].slotsinuse - 1
  BY <1>1
<1> QED
  BY <1>2, EntryInside

\* What a search does to the tree under an iterator: nothing.
LEMMA HeldStep ==
    ASSUME AppendInv, Erases = {}, DeletePairs = {}, Next, call'.op = "get",
           pc = "idle" \/ (pc \in {"find", "get"} /\ call.op = "get")
    PROVE  /\ UNCHANGED <<heap, root>>
           /\ pc' # "undefined" => pc' = "idle" \/ (pc' \in {"find", "get"} /\ call'.op = "get")
<1>1. ~Undefined /\ ~Stopped /\ InsertInv
  BY NothingUndefined DEF Stopped, AppendInv, Grown, RootInv
<1>2. CASE Calls
  <2>1. PICK k \in Keys :
            \/ \E d \in PayloadsOf[k] : MakeRoot(k, d) \/ CallInsert(k, d)
            \/ \E d \in Payloads : CallDeletePair(k, d)
            \/ CallErase(k) \/ CallGet(k)
            \/ \E op \in {"get", "erase", "delete_pair"} : CallOnEmptyTree(op, k)
    BY <1>2 DEF Calls
  <2>2. ~CallErase(k) /\ \A d : ~CallDeletePair(k, d)
    BY DEF CallErase, CallDeletePair, MayErase
  <2>3. \A d : ~MakeRoot(k, d) /\ ~CallInsert(k, d)
    BY DEF MakeRoot, CallInsert, Start
  <2>4. CASE CallGet(k)
    BY <2>4 DEF CallGet, Start
  <2>5. ASSUME NEW op, CallOnEmptyTree(op, k)
        PROVE  UNCHANGED <<heap, root>> /\ pc' = "idle"
    BY <2>5 DEF CallOnEmptyTree
  <2> QED
    BY <2>1, <2>2, <2>3, <2>4, <2>5
<1>3. CASE Steps
  <2>1. CASE FindChild \/ FindNextLeaf \/ FindLeaf \/ Get
    BY <2>1 DEF FindChild, FindNextLeaf, FindLeaf, Get, Return, Go
  <2>2. ~SplitFullLeaf /\ ~NewRoot /\ ~InsertInParent
    BY Zenon DEF SplitFullLeaf, NewRoot, InsertInParent
  <2>3. ~SplitParent /\ ~SplitParentLoop /\ ~SplitParentEnd
    BY Zenon DEF SplitParent, SplitParentLoop, SplitParentEnd
  <2>4. \A junk : ~InsertPair(junk) /\ ~InsertDuplicate(junk)
    BY Zenon DEF InsertPair, InsertDuplicate
  <2> QED
    BY <1>1, <1>3, <2>1, <2>2, <2>3, <2>4, NothingIsDeleted, Zenon DEF Steps
<1> QED
  BY <1>1, <1>2, <1>3 DEF Next

\* An undefined step is the last one.
LEMMA UndefinedStays ==
    ASSUME pc = "undefined", [IterNext]_itvars
    PROVE  pc' = "undefined"
<1>1. /\ ~Begin /\ ~End /\ ~Seek /\ ~Forward /\ ~Backward /\ ~Drop /\ ~StepUndefined
  BY Zenon DEF Begin, End, Seek, Forward, Backward, Drop, StepUndefined
<1>2. CASE UNCHANGED itvars
  BY <1>2 DEF itvars, vars
<1>3. CASE TreeStep
  <2>1. CASE Stopped
    BY <2>1 DEF Stopped, vars
  <2>2. CASE Undefined
    BY <2>2 DEF Undefined
  <2>3. ~Calls
    BY DEF Calls, MakeRoot, CallInsert, CallErase, CallDeletePair, CallGet, CallOnEmptyTree
  <2>4. /\ ~FindChild /\ ~FindNextLeaf /\ ~FindLeaf /\ ~Get /\ ~SplitFullLeaf /\ ~NewRoot
        /\ ~InsertInParent /\ ~SplitParent /\ ~SplitParentLoop /\ ~SplitParentEnd
    BY Zenon DEF FindChild, FindNextLeaf, FindLeaf, Get, SplitFullLeaf, NewRoot,
       InsertInParent, SplitParent, SplitParentLoop, SplitParentEnd
  <2>5. /\ ~DeletePair /\ ~DeletePairAbsent /\ ~BalanceNothing /\ ~MergeLeaf /\ ~MergeLeafEnd
        /\ ~DeleteChild /\ ~ShiftChild /\ ~ShiftLastChild /\ ~CollapseRoot /\ ~RebalanceNothing
    BY Zenon DEF DeletePair, DeletePairAbsent, BalanceNothing, MergeLeaf, MergeLeafEnd,
       DeleteChild, ShiftChild, ShiftLastChild, CollapseRoot, RebalanceNothing, Unbalanced
  <2>6. /\ ~MergeIntoNext /\ ~MergeIntoNextLoop /\ ~MergeIntoPrev /\ ~MergeIntoPrevLoop
        /\ ~MergeInnerEnd /\ ~RedistributeFromNext
    BY Zenon DEF MergeIntoNext, MergeIntoNextLoop, MergeIntoPrev, MergeIntoPrevLoop,
       MergeInnerEnd, RedistributeFromNext, Underflowing
  <2>7. ASSUME NEW junk
        PROVE  /\ ~InsertPair(junk) /\ ~InsertDuplicate(junk) /\ ~Erase(junk)
               /\ ~EraseAbsent(junk) /\ ~MergeLeafLoop(junk) /\ ~BorrowFromPrev(junk)
               /\ ~BorrowFromNext(junk)
    BY Zenon DEF InsertPair, InsertDuplicate, Erase, EraseAbsent, MergeLeafLoop,
       BorrowFromPrev, BorrowFromNext, Borrows, Unbalanced
  <2> QED
    BY <1>3, <2>1, <2>2, <2>3, <2>4, <2>5, <2>6, <2>7, Zenon DEF TreeStep, Next, Steps
<1> QED
  BY <1>1, <1>2, <1>3 DEF IterNext

-----------------------------------------------------------------------------
\* begin of a tree that was never split is its first entry, or end of an empty one.
LEMMA BeginSafe ==
    ASSUME AppendInv, IterSafe, Begin, Begins \in {"unsplit", "never"}
    PROVE  IterSafe'
<1>1. UNCHANGED vars /\ pc = "idle" /\ it' = iterator(headleaf, 0) /\ root = headleaf
  BY DEF Begin, begin, Unsplit
<1>2. CASE root = NULL
  BY <1>1, <1>2 DEF IterSafe, HeadSafe, vars, end, iterator
<1>3. CASE root # NULL
  <2>1. PICK t : Still(t)
    BY <1>1, <1>3, AtSearch
  <2>2. root \in t.G /\ IsLeaf(heap, root)
    BY <1>1, <1>3, <2>1 DEF Still, IterSafe, HeadSafe
  <2>3. root \in LeavesOf(t)
    BY <2>1, <2>2, StillNode DEF LeavesOf
  <2>4. Inside(it')
    BY <1>1, <2>1, <2>3, FirstInside
  <2>5. Inside(it)'
    BY <1>1, <2>4, InsideKept DEF vars
  <2> QED
    BY <1>1, <2>5 DEF IterSafe, HeadSafe, vars, IsLeaf, Live
<1> QED
  BY <1>2, <1>3

\* The leaf that find returns is one of the tree.
LEMMA SeekSafe ==
    ASSUME AppendInv, IterSafe, Seek
    PROVE  AppendInv' /\ IterSafe'
<1>1. /\ pc = "get" /\ it' = iterator(local.at, 0) /\ Return(heap, "ok", EmptyData)
      /\ UNCHANGED <<root, headleaf, totalkeycount, call>>
  BY DEF Seek
<1>2. /\ root # NULL /\ heap \in Heap /\ TypeInv /\ InsertInv /\ RootInv /\ Within(heap)
      /\ Rooted(heap, root)
  BY <1>1, Shaped, RootThere DEF AppendInv, RootInv
<1>3. PICK t : Still(t) /\ Shape(heap, t, pc, local, call, root)
  BY <1>1, <1>2, AtSearch
<1>4. local.at \in LeavesOf(t) /\ Resting(heap, t, root) /\ heap # Fault
  <2>1. Looking(t, pc, local, call) /\ Resting(heap, t, root)
    BY <1>1, <1>3 DEF Shape
  <2>2. local.at \in t.G /\ t.lev[local.at] = 0
    BY <1>1, <2>1 DEF Looking
  <2> QED
    BY <2>1, <2>2, RestingNode DEF LeavesOf
<1>5. heap' = heap /\ pc' = "idle"
  BY <1>1, <1>4 DEF Return, Go
<1>6. AppendInv'
  <2>1. TypeInv'
    BY <1>1, <1>2, Globals, ReturnTypes
  <2>2. Filled'
    <3>1. call'.op \in {"none", "insert", "get"}
      BY <1>1, <1>2 DEF InsertInv, Filled
    <3> QED
      BY <1>1, <1>2, <3>1, ReturnFills
  <2>3. RootSafe'
    <3>1. Go(heap, "idle", [at |-> NULL])
      BY <1>1 DEF Return
    <3> QED
      BY <1>1, <1>2, <3>1, GoKeepsRoot
  <2>4. Grown'
    <3>1. totalkeycount' = Cardinality(Pairs(heap, t)) /\ Resting(heap, t, root') /\ root' # NULL
      BY <1>1, <1>2, <1>3, <1>4 DEF Still
    <3> QED
      BY <1>1, <1>4, <3>1, ReturnGrows
  <2> QED
    BY <2>1, <2>2, <2>3, <2>4 DEF AppendInv, RootInv, InsertInv
<1>7. Inside(it')
  BY <1>1, <1>3, <1>4, FirstInside
<1>8. Inside(it)'
  BY <1>1, <1>5, <1>7, InsideKept
<1>9. HeadSafe'
  BY <1>1, <1>5 DEF IterSafe, HeadSafe, IsLeaf, Live
<1> QED
  BY <1>5, <1>6, <1>8, <1>9 DEF IterSafe

\* Neither operator leads out of the tree.
LEMMA StepSafe ==
    ASSUME AppendInv, IterSafe, Forward \/ Backward
    PROVE  IterSafe'
<1>1. UNCHANGED vars /\ pc = "idle" /\ Held /\ (it' = advance(it) \/ it' = retreat(it))
  BY DEF Forward, Backward
<1>2. it # end /\ Inside(it) /\ root # NULL
  <2>1. IsLeaf(heap, it.currnode)
    BY DEF Forward, Backward, BackDefined
  <2>2. it.currnode # NULL
    BY <2>1, NodeIdsAssumption DEF IsLeaf, Live
  <2>3. it # end
    BY <2>2 DEF end, iterator
  <2>4. Inside(it)
    BY <1>1, <2>3 DEF IterSafe
  <2> QED
    BY <2>3, <2>4 DEF Inside, TreeLeaves
<1>3. PICK t : Still(t)
  BY <1>1, <1>2, AtSearch
<1>4. Inside(it') /\ it' # end
  BY <1>1, <1>2, <1>3, Advances, Retreats
<1>5. Inside(it)'
  BY <1>1, <1>4, InsideKept DEF vars
<1>6. HeadSafe' /\ pc' = "idle"
  BY <1>1 DEF vars, IterSafe, HeadSafe, IsLeaf, Live
<1> QED
  BY <1>5, <1>6 DEF IterSafe

\* A step of the tree leaves an iterator inside it.
LEMMA TreeStepSafe ==
    ASSUME AppendInv, IterSafe, TreeStep, AppendInv', Erases = {}, DeletePairs = {}, Holds = FALSE
    PROVE  IterSafe'
<1>1. Next /\ it' = it /\ pc # "undefined" /\ pc' # "undefined"
      /\ (Held => call'.op = "get")
  BY DEF TreeStep, AppendInv, Grown
<1>2. HeadSafe'
  BY <1>1, NextKeepsHead DEF IterSafe
<1>3. CASE ~Held
  BY <1>1, <1>2, <1>3 DEF IterSafe, Held, NoIterator
<1>4. CASE Held
  <2>1. pc = "idle" \/ (pc \in {"find", "get"} /\ call.op = "get")
    BY <1>4 DEF IterSafe
  <2>2. /\ UNCHANGED <<heap, root>>
        /\ pc' = "idle" \/ (pc' \in {"find", "get"} /\ call'.op = "get")
    BY <1>1, <1>4, <2>1, HeldStep
  <2>3. it # end => Inside(it)'
    BY <1>1, <1>4, <2>2, InsideKept DEF IterSafe
  <2>4. end' = end
    BY DEF end, iterator
  <2> QED
    BY <1>1, <1>2, <2>2, <2>3, <2>4 DEF IterSafe
<1> QED
  BY <1>3, <1>4

\* Every step keeps the invariant.
LEMMA IterStays ==
    ASSUME Inserts \subseteq {"append", "fill"}, Erases = {}, DeletePairs = {}, NodeSlots >= 3,
           Begins \in {"unsplit", "never"}, Holds = FALSE, IterInv, [IterNext]_itvars
    PROVE  IterInv'
<1>1. CASE pc = "undefined"
  BY <1>1, UndefinedStays DEF IterInv
<1>2. CASE AppendInv /\ IterSafe
  <2>1. ASSUME UNCHANGED vars PROVE AppendInv'
    BY <1>2, <2>1, AppendStays
  <2>2. CASE UNCHANGED itvars
    <3>1. TreeLeaves' = TreeLeaves
      BY <2>2 DEF itvars, vars, TreeLeaves, LeavesBelow, Live
    <3>2. IterSafe'
      BY <1>2, <2>2, <3>1 DEF itvars, vars, IterSafe, HeadSafe, Held, NoIterator, Inside,
         OnEntry, PastLast, IsLeaf, Live, end, iterator
    <3>3. AppendInv'
      BY <2>1, <2>2 DEF itvars
    <3> QED
      BY <3>2, <3>3 DEF IterInv
  <2>3. CASE Begin
    BY <1>2, <2>1, <2>3, BeginSafe DEF Begin, IterInv
  <2>4. CASE End
    <3>1. IterSafe'
      BY <1>2, <2>4 DEF End, IterSafe, HeadSafe, vars, IsLeaf, Live, end, iterator
    <3> QED
      BY <2>1, <2>4, <3>1 DEF End, IterInv
  <2>5. CASE Seek
    BY <1>2, <2>5, SeekSafe DEF IterInv
  <2>6. CASE Forward \/ Backward
    BY <1>2, <2>1, <2>6, StepSafe DEF Forward, Backward, IterInv
  <2>7. CASE StepUndefined
    BY <2>7 DEF StepUndefined, IterInv
  <2>8. CASE Drop
    <3>1. IterSafe'
      BY <1>2, <2>8 DEF Drop, IterSafe, HeadSafe, vars, IsLeaf, Live, Held, NoIterator
    <3> QED
      BY <2>1, <2>8, <3>1 DEF Drop, IterInv
  <2>9. CASE TreeStep
    <3>1. AppendInv'
      BY <1>2, <2>9, AppendStays DEF TreeStep
    <3> QED
      BY <1>2, <2>9, <3>1, TreeStepSafe DEF IterInv
  <2> QED
    BY <2>2, <2>3, <2>4, <2>5, <2>6, <2>7, <2>8, <2>9 DEF IterNext
<1> QED
  BY <1>1, <1>2 DEF IterInv

\* It holds of every iterator whose caller drops it before the tree changes.
LEMMA IterInvHolds ==
    ASSUME Inserts \subseteq {"append", "fill"}, Erases = {}, DeletePairs = {}, NodeSlots >= 3,
           Begins \in {"unsplit", "never"}, Holds = FALSE
    PROVE  IterSpec => []IterInv
<1>1. IterInit => IterInv
  BY AppendStarts DEF IterInit, Init, IterInv, IterSafe, HeadSafe, Held
<1>2. IterInv /\ [IterNext]_itvars => IterInv'
  BY IterStays
<1> QED
  BY <1>1, <1>2, PTL DEF IterSpec

\* An iterator from begin of a tree that was never split, or from a leaf that find returned,
\* is on an entry of a leaf of the tree or past the last one, wherever operator++ and
\* operator-- take it, and neither reads freed memory from there: the chain that the splits
\* of an append-only tree leave behind never leads to a freed or an empty leaf.
THEOREM IteratorStaysInside ==
    ASSUME Inserts \subseteq {"append", "fill"}, Erases = {}, DeletePairs = {}, NodeSlots >= 3,
           Begins \in {"unsplit", "never"}, Holds = FALSE
    PROVE  IterSpec => []IteratorInside
<1>1. IterSpec => []IterInv
  BY IterInvHolds
<1>2. ASSUME IterInv, Idle, Held, it # end PROVE BackDefined
  <2>1. AppendInv /\ pc = "idle" /\ Inside(it) /\ root # NULL
    BY <1>2 DEF IterInv, IterSafe, Idle, Inside, TreeLeaves
  <2>2. PICK t : Still(t)
    BY <2>1, AtSearch
  <2>3. IsLeaf(heap, it.currnode) /\ it.currnode \in t.G /\ t.lev[it.currnode] = 0
    BY <2>1, <2>2, Position
  <2>4. ASSUME heap[it.currnode].prevLeaf # NULL
        PROVE  IsLeaf(heap, heap[it.currnode].prevLeaf)
    <3>1. heap[it.currnode].prevLeaf \in t.G /\ t.lev[heap[it.currnode].prevLeaf] = 0
      BY <2>2, <2>3, <2>4, ChainLinks DEF Follows
    <3> QED
      BY <2>2, <3>1, StillNode
  <2> QED
    BY <2>3, <2>4 DEF BackDefined
<1>3. IterInv => IteratorInside
  BY <1>2 DEF IterInv, IterSafe, IteratorInside, Idle, Inside
<1> QED
  BY <1>1, <1>3, PTL

\* operator++ goes to the next greater key of the whole tree, and past the last one;
\* operator-- to the next smaller key, and stays at the least: an iteration skips no key and
\* repeats none, across the leaves and parents that the splits of an append-only tree have
\* made.
THEOREM IteratorStepsInOrder ==
    ASSUME Inserts \subseteq {"append", "fill"}, Erases = {}, DeletePairs = {}, NodeSlots >= 3,
           Begins \in {"unsplit", "never"}, Holds = FALSE
    PROVE  IterSpec => StepsInOrder
<1>1. IterSpec => []IterInv
  BY IterInvHolds
<1>2. ASSUME IterInv, Forward \/ Backward
      PROVE  Inside(it) /\ \E t : Still(t)
  <2>1. AppendInv /\ IterSafe /\ pc = "idle" /\ Held /\ IsLeaf(heap, it.currnode)
    BY <1>2 DEF Forward, Backward, BackDefined, IterInv
  <2>2. it.currnode # NULL
    BY <2>1, NodeIdsAssumption DEF IsLeaf, Live
  <2>3. it # end
    BY <2>2 DEF end, iterator
  <2>4. Inside(it)
    BY <2>1, <2>3 DEF IterSafe
  <2>5. root # NULL
    BY <2>4 DEF Inside, TreeLeaves
  <2>6. \E t : Still(t)
    BY <2>1, <2>5, AtSearch
  <2> QED
    BY <2>4, <2>6
<1>3. IterInv => [ /\ Forward =>
                       IF KeysAfter(it) = {} THEN PastLast(it')
                       ELSE OnEntry(it') /\ KeyUnder(it') = Least(KeysAfter(it))
                   /\ Backward =>
                       IF KeysBefore(it) = {} THEN it' = it
                       ELSE /\ OnEntry(it') /\ KeyUnder(it') \in KeysBefore(it)
                            /\ \A k \in KeysBefore(it) : k <= KeyUnder(it')
                 ]_itvars
  <2>1. ASSUME IterInv, Forward
        PROVE  IF KeysAfter(it) = {} THEN PastLast(it')
               ELSE OnEntry(it') /\ KeyUnder(it') = Least(KeysAfter(it))
    <3>1. PICK t : Still(t)
      BY <1>2, <2>1
    <3>2. Inside(it) /\ it' = advance(it)
      BY <1>2, <2>1 DEF Forward
    <3> QED
      BY <3>1, <3>2, Advances
  <2>2. ASSUME IterInv, Backward
        PROVE  IF KeysBefore(it) = {} THEN it' = it
               ELSE /\ OnEntry(it') /\ KeyUnder(it') \in KeysBefore(it)
                    /\ \A k \in KeysBefore(it) : k <= KeyUnder(it')
    <3>1. PICK t : Still(t)
      BY <1>2, <2>2
    <3>2. Inside(it) /\ it' = retreat(it)
      BY <1>2, <2>2 DEF Backward
    <3> QED
      BY <3>1, <3>2, Retreats
  <2> QED
    BY <2>1, <2>2
<1> QED
  BY <1>1, <1>3, PTL DEF StepsInOrder
=============================================================================
