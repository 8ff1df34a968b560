-------------------------- MODULE BTreeAppendProofs -------------------------
(***************************************************************************)
(* A tree to which larger and larger keys are appended, as src/src/test.cc  *)
(* does, and which is searched in between, is a correct B+ tree: the splits *)
(* of leaves and inner nodes, of any depth, keep order, balance, chain and  *)
(* size, and no step is undefined.                                          *)
(*                                                                         *)
(* The inductive invariant AppendInv says that at each step of an insertion *)
(* there is a search tree that the heap holds: between two calls the whole  *)
(* of it, on the way up after a split all but the parent of the two halves, *)
(* and in the loop of split_parent the pairs that are copied already.       *)
(***************************************************************************)
EXTENDS SearchTreeProofs

\* The loop of split_parent: the first l.i pairs of the parent are in pNode and ppNode, the
\* first half + 1 of them in pNode, whose last key goes up at the cut.
Copied(h, t, l) ==
    LET P    == l.parent
        half == NodeSlots \div 2
        low  == IF l.i <= half + 1 THEN l.i ELSE half + 1
        j    == l.i - low
    IN  /\ h[P].slotsinuse = NodeSlots /\ l.i \in 0 .. NodeSlots
        /\ l.slot = l.i /\ l.j = j /\ ~l.added
        /\ l.pNode \in NodeIds \ t.G /\ l.ppNode \in NodeIds \ t.G /\ l.pNode # l.ppNode
        /\ {l.pNode, l.ppNode} \cap ({l.n} \cup l.leaked) = {}
        /\ IsInner(h, l.pNode) /\ ~h[l.pNode].isrootnode
        /\ h[l.pNode].numChildren = low
        /\ h[l.pNode].slotsinuse = IF l.i <= half + 1 THEN l.i ELSE half
        /\ \A x \in 0 .. low - 1 : /\ h[l.pNode].keySlots[x] = t.ks[P][x]
                                   /\ h[l.pNode].firstChild[x] = t.ch[P][x]
        /\ IsInner(h, l.ppNode) /\ ~h[l.ppNode].isrootnode
        /\ h[l.ppNode].numChildren = j /\ h[l.ppNode].slotsinuse = j
        /\ \A x \in 0 .. j - 1 : /\ h[l.ppNode].keySlots[x] = t.ks[P][x + (half + 1)]
                                 /\ h[l.ppNode].firstChild[x] = t.ch[P][x + (half + 1)]
        /\ l.i > half + 1 => l.kp = t.ks[P][half]
        /\ \A x \in 0 .. l.i - 1 :
              h[t.ch[P][x]].parent = IF x <= half THEN l.pNode ELSE l.ppNode

\* The shape of the tree at the steps of a search or an insertion.
Resting(h, t, r) == Stands(h, t, NULL, {}, NULL) /\ Crown(t, r)

Looking(t, p, l, c) ==
    /\ l.at \in t.G
    /\ p # "find" => t.lev[l.at] = 0 /\ c.op = p
    /\ c.op = "insert" => t.hi[l.at] = t.top /\ c.key >= t.top

Rising(h, t, l, r) ==
    Stands(h, t, l.parent, {l.N, l.Nprime}, l.N) /\ Climbing(h, t, l, r)

Splitting(h, t, l, r) ==
    /\ l.parent # NULL /\ Stands(h, t, l.parent, {m \in t.G : t.par[m] = l.parent}, l.N)
    /\ Climbing(h, t, l, r) /\ Copied(h, t, l)

Shape(h, t, p, l, c, r) ==
    /\ p \in {"idle", "find", "insert", "get"} => Resting(h, t, r)
    /\ p \in {"find", "insert", "get"} => Looking(t, p, l, c)
    /\ p = "insert_in_parent" => Rising(h, t, l, r)
    /\ p = "split_parent" => Splitting(h, t, l, r)

\* The pairs in the leaves of the tree.
Pairs(h, t) == {e \in t.G \X LeafIndex : t.lev[e[1]] = 0 /\ e[2] < h[e[1]].slotsinuse}

\* The inductive invariant of a tree to which larger and larger keys are appended.
Grown ==
    /\ pc # "undefined"
    /\ root = NULL => totalkeycount = 0
    /\ root # NULL => \E t : /\ Shape(heap, t, pc, local, call, root)
                             /\ totalkeycount = Cardinality(Pairs(heap, t))
AppendInv == RootInv /\ Grown

-----------------------------------------------------------------------------
\* Raising the tree to a key that the last leaf o is about to get.
LEMMA RaiseStands ==
    ASSUME NEW h, NEW t, NEW r, Resting(h, t, r), NEW k \in Int, k >= t.top,
           NEW o \in t.G, t.lev[o] = 0, t.hi[o] = t.top
    PROVE  LET v == Raise(t, k)
           IN  /\ SearchTree(v) /\ IsFiniteSet(v.G) /\ Crown(v, r) /\ v.G = t.G /\ v.par = t.par
               /\ v.lev = t.lev /\ v.lo = t.lo /\ v.hi[o] = v.top /\ v.top = k + 1 /\ v.cnt = t.cnt
               /\ v.ks = t.ks /\ v.ch = t.ch /\ v.bot = t.bot
               /\ \A m \in t.G : /\ m # o => Says(h, v, m)
                                 /\ Fit(h, v, m) /\ h[m].parent = v.par[m]
                                 /\ t.lev[m] = 0 => After(h, v, NULL, m) /\ Before(h, v, NULL, m)
<1> DEFINE v == Raise(t, k)
<1>1. /\ v.G = t.G /\ v.lev = t.lev /\ v.par = t.par /\ v.cnt = t.cnt /\ v.ks = t.ks
      /\ v.ch = t.ch /\ v.lo = t.lo /\ v.bot = t.bot /\ v.top = k + 1 /\ v.height = t.height
      /\ \A m \in NodeIds : v.hi[m] = IF t.hi[m] = t.top THEN k + 1 ELSE t.hi[m]
  BY DEF Raise
<1>2. /\ SearchTree(t) /\ IsFiniteSet(t.G)
      /\ \A m \in t.G : /\ Fit(h, t, m) /\ h[m].parent = t.par[m]
                        /\ t.lev[m] = 0 => After(h, t, NULL, m) /\ Before(h, t, NULL, m)
  BY DEF Resting, Stands
<1>3. \A m \in t.G : Says(h, t, m)
  BY <1>2, NodeIdsAssumption DEF Resting, Stands, SearchTree, Bounds
<1>4. SearchTree(v)
  BY <1>2, RaiseTree
<1> HIDE DEF v
<1>5. \A m \in t.G : /\ m \in NodeIds /\ t.lo[m] \in Int /\ t.hi[m] \in Int /\ t.top \in Int
                     /\ t.lo[m] < t.hi[m] /\ t.hi[m] <= t.top /\ t.bot \in Int /\ m # NULL
  BY <1>2, Numbers
<1>6. Crown(v, r)
  BY <1>1, <1>5 DEF Resting, Crown
<1>7. ASSUME NEW m \in t.G, m # o PROVE Says(h, v, m)
  <2>1. CASE t.lev[m] = 0
    <3>1. t.hi[m] # t.top
      BY <1>2, <1>7, <2>1, Unique
    <3>2. v.hi[m] = t.hi[m] /\ v.hi[m] # v.top
      BY <1>1, <1>5, <3>1
    <3> QED
      BY <1>1, <1>3, <2>1, <3>2 DEF Says, LeafSays
  <2>2. CASE t.lev[m] # 0
    BY <1>1, <1>3, <2>2 DEF Says, InnerSays
  <2> QED
    BY <2>1, <2>2
<1>8. ASSUME NEW a, NEW b, Follows(t, a, b) PROVE Follows(v, a, b)
  BY <1>1, <1>5, <1>8 DEF Follows
<1>9. ASSUME NEW m \in t.G, t.lev[m] = 0 PROVE After(h, v, NULL, m) /\ Before(h, v, NULL, m)
  <2>1. After(h, t, NULL, m) /\ Before(h, t, NULL, m)
    BY <1>2, <1>9
  <2>2. After(h, v, NULL, m)
    <3>1. CASE t.hi[m] = t.top /\ h[m].nextLeaf = NULL
      BY <1>1, <1>5, <3>1 DEF After
    <3>2. CASE \E b : Follows(t, m, b) /\ (h[m].nextLeaf = b \/ b = NULL)
      BY <1>8, <3>2 DEF After
    <3> QED
      BY <2>1, <3>1, <3>2 DEF After
  <2>3. Before(h, v, NULL, m)
    <3>1. CASE t.lo[m] = t.bot /\ h[m].prevLeaf = NULL
      BY <1>1, <3>1 DEF Before
    <3>2. CASE \E a : Follows(t, a, m) /\ (h[m].prevLeaf = a \/ m = NULL)
      BY <1>8, <3>2 DEF Before
    <3> QED
      BY <2>1, <3>1, <3>2 DEF Before
  <2> QED
    BY <2>2, <2>3
<1>10. \A m \in t.G : Fit(h, v, m) /\ h[m].parent = v.par[m]
  BY <1>1, <1>2 DEF Fit, HalfFull
<1>11. v.hi[o] = v.top
  BY <1>1, <1>5
<1> QED
  BY <1>1, <1>2, <1>4, <1>6, <1>7, <1>9, <1>10, <1>11 DEF v

\* g is h with k behind the s keys of leaf l.
LeafLonger(h, g, l, s, k) ==
    /\ g \in Edits(h) /\ g # Fault
    /\ g[l].slotsinuse = s + 1 /\ g[l].keySlots[s] = k
    /\ \A i \in 0 .. s - 1 : g[l].keySlots[i] = h[l].keySlots[i]
    /\ g[l].isrootnode = h[l].isrootnode /\ g[l].parent = h[l].parent
    /\ g[l].nextLeaf = h[l].nextLeaf /\ g[l].prevLeaf = h[l].prevLeaf
    /\ g[l].isleafnode = TRUE
    /\ \A m \in NodeIds \ {l} : g[m] = h[m]

\* insertleafAt behind the last pair.
LEMMA LeafAppended ==
    ASSUME NEW h \in Heap, NEW l, IsLeaf(h, l), NEW s, s = h[l].slotsinuse, s < LeafSlots,
           NEW k \in KeySlot, NEW d \in DataSlot, NEW g, g = insertleafAt(h, l, k, d, s)
    PROVE  LeafLonger(h, g, l, s, k)
<1> DEFINE a == ShiftIn(h[l].keySlots, s, s, k)
           b == [h[l].dataSlots EXCEPT ![s] = d]
           r == [h[l] EXCEPT !.keySlots = a, !.dataSlots = b, !.slotsinuse = Inc(s)]
<1>1. h[l] \in leafNode /\ h[l] \in node /\ l \in NodeIds /\ s \in Nat /\ s \in UShort
  BY LiveTypes, NodeTypes DEF node
<1>2. s \in LeafIndex /\ Inc(s) = s + 1 /\ Inc(s) \in UShort
  BY <1>1, Counting, CountTypes, SlotsAssumption DEF LeafIndex
<1>3. g = [h EXCEPT ![l] = r]
  <2> DEFINE f1 == [h[l] EXCEPT !.keySlots = a]
             f2 == [f1 EXCEPT !.dataSlots[s] = d]
             f3 == [f2 EXCEPT !.slotsinuse = Inc(@)]
             h1 == [h EXCEPT ![l] = f1]
             h2 == [h1 EXCEPT ![l] = f2]
  <2>1. h = [m \in NodeIds |-> h[m]]
    BY DEF Heap
  <2> DEFINE r0 == h[l]
  <2>2. r0 \in leafNode /\ r0.slotsinuse = s
    BY <1>1
  <2>3. f3 = r
    <3> HIDE DEF a, r0
    <3> QED
      BY <2>2 DEF leafNode, r0
  <2>4. g = [h2 EXCEPT ![l] = f3]
    <3>1. h1[l] = f1 /\ h2[l] = f2
      BY <1>1, <2>1
    <3>2. g = [h2 EXCEPT ![l].slotsinuse = Inc(@)] /\ h2 = [h1 EXCEPT ![l].dataSlots[s] = d]
      <4>1. h2 = [h1 EXCEPT ![l].dataSlots[s] = d]
        <5> HIDE DEF h1, f1
        <5> QED
          BY <3>1
      <4> DEFINE h3 == [h1 EXCEPT ![l].dataSlots[s] = d]
      <4>2. g = [h3 EXCEPT ![l].slotsinuse = Inc(@)]
        BY Zenon DEF insertleafAt
      <4> HIDE DEF h1, h2
      <4> QED
        BY <4>1, <4>2
    <3> HIDE DEF a, h2, f2
    <3> QED
      BY <3>1, <3>2
  <2> HIDE DEF f1, f2, f3, r
  <2> QED
    BY <2>1, <2>3, <2>4
<1>4. /\ r.isleafnode = TRUE /\ r.slotsinuse = s + 1 /\ r.keySlots = a
      /\ r.nextLeaf = h[l].nextLeaf /\ r.prevLeaf = h[l].prevLeaf
      /\ r.isrootnode = h[l].isrootnode /\ r.parent = h[l].parent
  BY <1>1, <1>2 DEF leafNode
<1>5. a[s] = k /\ \A i \in 0 .. s - 1 : a[i] = h[l].keySlots[i]
  <2> DEFINE f == h[l].keySlots
  <2>1. f \in [0 .. LeafSlots - 1 -> KeySlot] /\ s \in 0 .. LeafSlots - 1
    BY <1>1, <1>2, NodeTypes DEF LeafIndex
  <2> HIDE DEF f
  <2>2. ShiftIn(f, s, s, k) = [j \in 0 .. LeafSlots - 1 |-> IF j = s THEN k ELSE f[j]]
    <3>1. \A j \in 0 .. LeafSlots - 1 : ~(s < j /\ j <= s)
      BY <2>1, SlotsAssumption
    <3> QED
      BY <2>1, <3>1 DEF ShiftIn
  <2>3. \A i \in 0 .. s - 1 : i # s /\ i \in 0 .. LeafSlots - 1
    BY <2>1, SlotsAssumption
  <2> QED
    BY <2>1, <2>2, <2>3 DEF f
<1>6. g \in Edits(h) /\ \A m \in NodeIds \ {l} : g[m] = h[m]
  BY <1>2, InsertAtEdits
<1>7. g[l] = r
  <2> HIDE DEF r
  <2> QED
    BY <1>1, <1>3 DEF Heap
<1>8. r \in leafNode
  <2>1. a \in [LeafIndex -> KeySlot]
    <3> DEFINE f == h[l].keySlots
    <3>1. f \in [0 .. LeafSlots - 1 -> KeySlot] /\ s \in 0 .. LeafSlots - 1 /\ s \in Int
          /\ LeafSlots - 1 \in Int
      BY <1>1, <1>2, NodeTypes, SlotsAssumption DEF LeafIndex
    <3> HIDE DEF f
    <3> QED
      BY <3>1, ShiftInTypes DEF f, LeafIndex
  <2>2. b \in [LeafIndex -> DataSlot]
    BY <1>1, <1>2 DEF leafNode
  <2> HIDE DEF a, b
  <2> QED
    BY <1>1, <1>2, <2>1, <2>2, LeafUpdates
<1>9. g # Fault
  <2> HIDE DEF r
  <2> QED
    BY <1>1, <1>7, <1>8, FreeAssumption DEF Fault, node
<1> HIDE DEF r, a
<1> QED
  BY <1>4, <1>5, <1>6, <1>7, <1>9 DEF LeafLonger

\* The keys of the last leaf are below the end of the tree.
LEMMA LastKeys ==
    ASSUME NEW h \in Heap, NEW t, SearchTree(t), NEW o \in t.G, t.lev[o] = 0, Says(h, t, o),
           NEW k \in Keys, k >= t.top
    PROVE  /\ IsLeaf(h, o) /\ h[o].slotsinuse \in Nat /\ h[o].slotsinuse >= 1
           /\ \A i \in 0 .. h[o].slotsinuse - 1 : /\ h[o].keySlots[i] \in Keys
                                                  /\ h[o].keySlots[i] \in Int
                                                  /\ t.lo[o] <= h[o].keySlots[i]
                                                  /\ h[o].keySlots[i] < k
           /\ SlotsAbove(h[o], k) = {} /\ findKeyLoc(h[o], k) = h[o].slotsinuse
<1> DEFINE s == h[o].slotsinuse
<1>1. /\ IsLeaf(h, o) /\ s >= 1
      /\ \A i \in 0 .. s - 1 : /\ h[o].keySlots[i] \in Keys
                               /\ t.lo[o] <= h[o].keySlots[i] /\ h[o].keySlots[i] < t.hi[o]
  BY DEF Says, LeafSays
<1>2. s \in Nat /\ k \in Int /\ t.hi[o] <= t.top /\ t.hi[o] \in Int /\ t.top \in Int
  BY <1>1, LiveTypes, NodeTypes, Numbers, KeysAssumption DEF node
<1>3. ASSUME NEW i \in 0 .. s - 1
      PROVE  /\ h[o].keySlots[i] \in Int /\ h[o].keySlots[i] < k
             /\ ~(h[o].keySlots[i] > k) /\ ~(h[o].keySlots[i] >= k)
  <2> DEFINE x == h[o].keySlots[i]
  <2>1. x \in Int /\ x < t.hi[o]
    BY <1>1, KeysAssumption
  <2> HIDE DEF x
  <2>2. x < k /\ ~(x > k) /\ ~(x >= k)
    BY <1>2, <2>1
  <2> QED
    BY <2>1, <2>2 DEF x
<1> HIDE DEF s
<1>4. SlotsAbove(h[o], k) = {} /\ findKeyLoc(h[o], k) = s
  BY <1>3 DEF SlotsAbove, findKeyLoc, s
<1> QED
  BY <1>1, <1>2, <1>3, <1>4 DEF s

\* The leaf with the new pair.
LEMMA AppendedSays ==
    ASSUME NEW h \in Heap, NEW t, SearchTree(t), NEW o \in t.G, t.lev[o] = 0, Says(h, t, o),
           NEW k \in Keys, k >= t.top, NEW g, NEW v, v.lev = t.lev, v.lo = t.lo, v.top = k + 1,
           v.hi[o] = k + 1, IsLeaf(g, o), g[o].slotsinuse = h[o].slotsinuse + 1,
           g[o].keySlots[h[o].slotsinuse] = k,
           \A i \in 0 .. h[o].slotsinuse - 1 : g[o].keySlots[i] = h[o].keySlots[i]
    PROVE  Says(g, v, o)
<1> DEFINE s == h[o].slotsinuse
<1>1. /\ s \in Nat /\ s >= 1
      /\ \A i \in 0 .. s - 1 : /\ h[o].keySlots[i] \in Keys /\ h[o].keySlots[i] \in Int
                               /\ t.lo[o] <= h[o].keySlots[i] /\ h[o].keySlots[i] < k
  BY LastKeys
<1>2. \A i, j \in 0 .. s - 1 : i < j => h[o].keySlots[i] < h[o].keySlots[j]
  BY DEF Says, LeafSays
<1> HIDE DEF s
<1>3. t.lo[o] \in Int /\ t.lo[o] <= k /\ k \in Int
  BY Numbers, KeysAssumption
<1>4. \A i \in 0 .. (s + 1) - 1 : i \in 0 .. s - 1 \/ i = s
  BY <1>1
<1>5. \A i \in 0 .. s - 1 : g[o].keySlots[i] = h[o].keySlots[i]
  BY DEF s
<1>6. g[o].keySlots[s] = k /\ g[o].slotsinuse = s + 1 /\ s + 1 >= 1 /\ (s + 1) - 1 = s
  BY <1>1 DEF s
<1>7. ASSUME NEW i \in 0 .. (s + 1) - 1
      PROVE  /\ g[o].keySlots[i] \in Keys
             /\ t.lo[o] <= g[o].keySlots[i] /\ g[o].keySlots[i] < k + 1
  <2>1. CASE i = s
    BY <1>3, <1>6, <2>1
  <2>2. CASE i \in 0 .. s - 1
    BY <1>1, <1>3, <1>5, <2>2
  <2> QED
    BY <1>4, <2>1, <2>2
<1>8. ASSUME NEW i \in 0 .. (s + 1) - 1, NEW j \in 0 .. (s + 1) - 1, i < j
      PROVE  g[o].keySlots[i] < g[o].keySlots[j]
  <2>1. i \in 0 .. s - 1
    BY <1>1, <1>8
  <2>2. CASE j = s
    BY <1>1, <1>5, <1>6, <2>1, <2>2
  <2>3. CASE j \in 0 .. s - 1
    BY <1>2, <1>5, <1>8, <2>1, <2>3
  <2> QED
    BY <1>4, <2>2, <2>3
<1>9. k = (k + 1) - 1
  BY <1>3
<1>10. LeafSays(g, v, o)
  BY <1>6, <1>7, <1>8, <1>9 DEF LeafSays
<1> QED
  BY <1>10 DEF Says

\* The pairs of leaf m.
Block(m, c) == {m} \X (0 .. c - 1)

\* A leaf that is added brings its pairs to the count.
LEMMA BlockAdded ==
    ASSUME NEW R, IsFiniteSet(R), NEW m, NEW c \in Nat, R \cap Block(m, c) = {}
    PROVE  /\ IsFiniteSet(R \cup Block(m, c))
           /\ Cardinality(R \cup Block(m, c)) = Cardinality(R) + c
<1>1. IsFiniteSet({m}) /\ Cardinality({m}) = 1
  BY FS_Singleton
<1>2. IsFiniteSet(0 .. c - 1) /\ Cardinality(0 .. c - 1) = c
  <2>1. 0 \in Int /\ c - 1 \in Int
    OBVIOUS
  <2>2. IsFiniteSet(0 .. c - 1) /\ Cardinality(0 .. c - 1) = IF 0 > c - 1 THEN 0 ELSE (c - 1) - 0 + 1
    BY <2>1, FS_Interval
  <2> QED
    BY <2>2
<1>3. IsFiniteSet(Block(m, c)) /\ Cardinality(Block(m, c)) = 1 * c
  BY <1>1, <1>2, FS_Product DEF Block
<1> HIDE DEF Block
<1>4. /\ IsFiniteSet(R \cup Block(m, c))
      /\ Cardinality(R \cup Block(m, c)) =
            Cardinality(R) + Cardinality(Block(m, c)) - Cardinality(R \cap Block(m, c))
  BY <1>3, FS_Union
<1>5. Cardinality(R \cap Block(m, c)) = 0
  BY FS_EmptySet
<1>6. Cardinality(R) \in Nat
  BY FS_CardinalityType
<1> DEFINE x == Cardinality(R)
           y == Cardinality(Block(m, c))
<1>7. x \in Nat /\ y = c
  BY <1>3, <1>6
<1> HIDE DEF x, y
<1>8. x + y - 0 = x + c
  BY <1>7
<1> QED
  BY <1>4, <1>5, <1>8 DEF x, y

\* The pairs of a tree are finitely many; leaf m has a block of them.
LEMMA PairsOf ==
    ASSUME NEW h, NEW t, IsFiniteSet(t.G), NEW o \in t.G, t.lev[o] = 0,
           h[o].slotsinuse \in Nat, h[o].slotsinuse <= LeafSlots
    PROVE  LET R == {e \in Pairs(h, t) : e[1] # o}
           IN  /\ IsFiniteSet(Pairs(h, t)) /\ IsFiniteSet(R)
               /\ Pairs(h, t) = R \cup Block(o, h[o].slotsinuse)
               /\ \A c : R \cap Block(o, c) = {}
<1> DEFINE R == {e \in Pairs(h, t) : e[1] # o}
<1>1. IsFiniteSet(LeafIndex)
  <2>1. 0 \in Int /\ LeafSlots - 1 \in Int
    BY SlotsAssumption
  <2> QED
    BY <2>1, FS_Interval DEF LeafIndex
<1>2. IsFiniteSet(t.G \X LeafIndex)
  BY <1>1, FS_Product
<1>3. IsFiniteSet(Pairs(h, t))
  <2>1. Pairs(h, t) \in SUBSET (t.G \X LeafIndex)
    BY DEF Pairs
  <2> QED
    BY <1>2, <2>1, FS_Subset
<1>4. IsFiniteSet(R)
  <2>1. R \in SUBSET Pairs(h, t)
    OBVIOUS
  <2> QED
    BY <1>3, <2>1, FS_Subset
<1>5. ASSUME NEW e \in Pairs(h, t), e[1] = o PROVE e \in Block(o, h[o].slotsinuse)
  <2>1. e \in t.G \X LeafIndex /\ e[2] < h[o].slotsinuse
    BY <1>5 DEF Pairs
  <2>2. e[2] \in 0 .. h[o].slotsinuse - 1 /\ e = <<e[1], e[2]>>
    BY <2>1, SlotsAssumption DEF LeafIndex
  <2> QED
    BY <1>5, <2>2 DEF Block
<1>6. ASSUME NEW e \in Block(o, h[o].slotsinuse) PROVE e \in Pairs(h, t)
  <2>1. e = <<e[1], e[2]>> /\ e[1] = o /\ e[2] \in 0 .. h[o].slotsinuse - 1
    BY DEF Block
  <2>2. e[2] \in LeafIndex /\ e[2] < h[o].slotsinuse
    BY <2>1, SlotsAssumption DEF LeafIndex
  <2> QED
    BY <2>1, <2>2 DEF Pairs
<1>7. Pairs(h, t) = R \cup Block(o, h[o].slotsinuse)
  BY <1>5, <1>6
<1>8. \A c : R \cap Block(o, c) = {}
  BY DEF Block
<1> QED
  BY <1>3, <1>4, <1>7, <1>8

\* The same leaves with the same numbers of pairs.
LEMMA PairsKept ==
    ASSUME NEW h, NEW g, NEW t, NEW u,
           {m \in u.G : u.lev[m] = 0} = {m \in t.G : t.lev[m] = 0},
           \A m \in t.G : t.lev[m] = 0 => g[m].slotsinuse = h[m].slotsinuse
    PROVE  Pairs(g, u) = Pairs(h, t)
<1>1. ASSUME NEW e
      PROVE  e \in Pairs(g, u) <=> e \in Pairs(h, t)
  <2>1. e[1] \in u.G /\ u.lev[e[1]] = 0 <=> e[1] \in t.G /\ t.lev[e[1]] = 0
    OBVIOUS
  <2>2. e[1] \in t.G /\ t.lev[e[1]] = 0 => g[e[1]].slotsinuse = h[e[1]].slotsinuse
    OBVIOUS
  <2>3. \A G : e \in G \X LeafIndex <=> e = <<e[1], e[2]>> /\ e[1] \in G /\ e[2] \in LeafIndex
    OBVIOUS
  <2> QED
    BY <2>1, <2>2, <2>3 DEF Pairs
<1> QED
  BY <1>1

\* A pair more in leaf o.
LEMMA PairCounted ==
    ASSUME NEW h, NEW g, NEW t, NEW u, IsFiniteSet(t.G), u.G = t.G, u.lev = t.lev,
           NEW o \in t.G, t.lev[o] = 0, h[o].slotsinuse \in Nat, h[o].slotsinuse < LeafSlots,
           g[o].slotsinuse = h[o].slotsinuse + 1,
           \A m \in t.G : m # o => g[m].slotsinuse = h[m].slotsinuse
    PROVE  Cardinality(Pairs(g, u)) = Cardinality(Pairs(h, t)) + 1
<1> DEFINE R == {e \in Pairs(h, t) : e[1] # o}
           S == {e \in Pairs(g, u) : e[1] # o}
           s == h[o].slotsinuse
<1>1. s \in Nat /\ s <= LeafSlots /\ s + 1 \in Nat /\ s + 1 <= LeafSlots
  BY SlotsAssumption
<1>2. /\ IsFiniteSet(R) /\ Pairs(h, t) = R \cup Block(o, s) /\ \A c : R \cap Block(o, c) = {}
  BY <1>1, PairsOf
<1>3. Pairs(g, u) = S \cup Block(o, s + 1)
  <2>1. /\ IsFiniteSet(u.G) /\ o \in u.G /\ u.lev[o] = 0 /\ g[o].slotsinuse = s + 1
        /\ g[o].slotsinuse \in Nat /\ g[o].slotsinuse <= LeafSlots
    BY <1>1
  <2>2. Pairs(g, u) = S \cup Block(o, g[o].slotsinuse)
    BY <2>1, PairsOf
  <2> QED
    BY <2>1, <2>2
<1>4. S = R
  BY DEF Pairs
<1> HIDE DEF R, S, s
<1>5. Cardinality(Pairs(h, t)) = Cardinality(R) + s
  BY <1>1, <1>2, BlockAdded
<1>6. Cardinality(Pairs(g, u)) = Cardinality(R) + (s + 1)
  BY <1>1, <1>2, <1>3, <1>4, BlockAdded
<1>7. Cardinality(R) \in Nat
  BY <1>2, FS_CardinalityType
<1> DEFINE x == Cardinality(R)
<1>8. x \in Nat /\ Cardinality(Pairs(h, t)) = x + s /\ Cardinality(Pairs(g, u)) = x + (s + 1)
  BY <1>5, <1>6, <1>7
<1> HIDE DEF x
<1> QED
  BY <1>1, <1>8

\* The pairs of a leaf o and one more are divided between the leaves a and b.
LEMMA PairsDivided ==
    ASSUME NEW h, NEW g, NEW t, NEW u, IsFiniteSet(t.G), NEW o \in t.G, t.lev[o] = 0,
           h[o].slotsinuse \in Nat, h[o].slotsinuse <= LeafSlots,
           NEW a, NEW b, a \notin t.G, b \notin t.G, a # b,
           u.G = (t.G \ {o}) \cup {a, b}, u.lev[a] = 0, u.lev[b] = 0,
           \A m \in t.G \ {o} : u.lev[m] = t.lev[m] /\ g[m].slotsinuse = h[m].slotsinuse,
           NEW c \in Nat, NEW d \in Nat, g[a].slotsinuse = c, g[b].slotsinuse = d,
           c + d = h[o].slotsinuse + 1, c <= LeafSlots, d <= LeafSlots
    PROVE  Cardinality(Pairs(g, u)) = Cardinality(Pairs(h, t)) + 1
<1> DEFINE R == {e \in Pairs(h, t) : e[1] # o}
           S == {e \in Pairs(g, u) : e[1] # a}
           T == {e \in S : e[1] # b}
           s == h[o].slotsinuse
<1>1. /\ IsFiniteSet(R) /\ Pairs(h, t) = R \cup Block(o, s) /\ \A z : R \cap Block(o, z) = {}
  <2>1. s \in Nat /\ s <= LeafSlots
    OBVIOUS
  <2>2. IsFiniteSet(R) /\ Pairs(h, t) = R \cup Block(o, s)
    <3>1. LET Q == {e \in Pairs(h, t) : e[1] # o}
          IN  /\ IsFiniteSet(Pairs(h, t)) /\ IsFiniteSet(Q)
              /\ Pairs(h, t) = Q \cup Block(o, h[o].slotsinuse)
              /\ \A z : Q \cap Block(o, z) = {}
      BY PairsOf, Zenon
    <3> QED
      BY <3>1
  <2>3. \A z : R \cap Block(o, z) = {}
    BY DEF Block
  <2> QED
    BY <2>2, <2>3
<1>2. IsFiniteSet(u.G)
  <2>1. u.G = ((t.G \ {o}) \cup {a}) \cup {b}
    OBVIOUS
  <2>2. IsFiniteSet(t.G \ {o})
    BY FS_Subset
  <2>3. IsFiniteSet((t.G \ {o}) \cup {a})
    BY <2>2, FS_AddElement
  <2> QED
    BY <2>1, <2>3, FS_AddElement
<1>3. /\ IsFiniteSet(Pairs(g, u)) /\ IsFiniteSet(S) /\ Pairs(g, u) = S \cup Block(a, c)
      /\ \A z : S \cap Block(a, z) = {}
  <2>1. a \in u.G /\ u.lev[a] = 0 /\ g[a].slotsinuse \in Nat /\ g[a].slotsinuse <= LeafSlots
    OBVIOUS
  <2>2. /\ IsFiniteSet(Pairs(g, u)) /\ IsFiniteSet(S)
        /\ Pairs(g, u) = S \cup Block(a, g[a].slotsinuse)
        /\ \A z : S \cap Block(a, z) = {}
    BY <1>2, <2>1, PairsOf
  <2> QED
    BY <2>2
<1>4. {e \in Pairs(g, u) : e[1] # b} \cup Block(b, d) = Pairs(g, u)
  BY <1>2, PairsOf
<1>5. Block(b, d) \cap Block(a, c) = {}
  BY DEF Block
<1>6. S = T \cup Block(b, d)
  <2>1. \A e \in Block(b, d) : e[1] = b
    BY DEF Block
  <2> QED
    BY <1>4, <2>1
<1>7. T = R
  <2>1. ASSUME NEW e PROVE e \in T <=> e \in R
    <3>1. \A G : e \in G \X LeafIndex <=> e = <<e[1], e[2]>> /\ e[1] \in G /\ e[2] \in LeafIndex
      OBVIOUS
    <3>2. e[1] \in u.G /\ e[1] \notin {a, b} <=> e[1] \in t.G /\ e[1] # o
      OBVIOUS
    <3> QED
      BY <3>1, <3>2 DEF Pairs
  <2> HIDE DEF T, R
  <2> QED
    BY <2>1
<1>8. R \cap Block(b, d) = {}
  <2>1. \A e \in Block(b, d) : e[1] = b
    BY DEF Block
  <2>2. \A e \in T : e[1] # b
    OBVIOUS
  <2> HIDE DEF T, R
  <2> QED
    BY <1>7, <2>1, <2>2
<1> HIDE DEF R, S, T, s
<1>9. Cardinality(Pairs(h, t)) = Cardinality(R) + s
  <2>1. s \in Nat
    BY DEF s
  <2> QED
    BY <1>1, <2>1, BlockAdded
<1>10. Cardinality(S) = Cardinality(R) + d
  BY <1>1, <1>6, <1>7, <1>8, BlockAdded
<1>11. Cardinality(Pairs(g, u)) = Cardinality(S) + c
  BY <1>3, BlockAdded
<1>12. Cardinality(R) \in Nat
  BY <1>1, FS_CardinalityType
<1> DEFINE x == Cardinality(R)
<1>13. /\ x \in Nat /\ Cardinality(Pairs(h, t)) = x + s /\ Cardinality(Pairs(g, u)) = (x + d) + c
       /\ s \in Nat /\ c + d = s + 1
  BY <1>9, <1>10, <1>11, <1>12 DEF s
<1> HIDE DEF x
<1> QED
  BY <1>13

-----------------------------------------------------------------------------
\* Steps of the control.
LEMMA Shaped ==
    ASSUME AppendInv, pc # "idle"
    PROVE  /\ root # NULL /\ heap \in Heap /\ TypeInv /\ pc # "undefined" /\ Within(heap)
           /\ pc \in InsertSteps /\ totalkeycount \in Int
           /\ \E t : /\ Shape(heap, t, pc, local, call, root)
                     /\ totalkeycount = Cardinality(Pairs(heap, t))
  BY Globals DEF AppendInv, Grown, RootInv, RootSafe, InsertInv, Filled

\* A step that goes on with a heap that has the shape of the next program point.
LEMMA GoGrows ==
    ASSUME NEW g, NEW p, NEW l, Go(g, p, l), g # Fault, p # "undefined", root' # NULL,
           NEW t, Shape(g, t, p, l, call', root'), totalkeycount' = Cardinality(Pairs(g, t))
    PROVE  Grown'
  BY DEF Grown, Go

\* A call that returns with a tree at rest.
LEMMA ReturnGrows ==
    ASSUME NEW g, NEW code, NEW d, Return(g, code, d), g # Fault, root' # NULL,
           NEW t, Resting(g, t, root'), totalkeycount' = Cardinality(Pairs(g, t))
    PROVE  Grown'
<1>1. Go(g, "idle", [at |-> NULL])
  BY DEF Return
<1>2. Shape(g, t, "idle", [at |-> NULL], call', root')
  BY DEF Shape
<1> QED
  BY <1>1, <1>2, GoGrows

\* A node of the tree.
LEMMA RestingNode ==
    ASSUME NEW h, NEW t, NEW r, Resting(h, t, r), NEW m \in t.G
    PROVE  /\ SearchTree(t) /\ IsFiniteSet(t.G) /\ Says(h, t, m) /\ Fit(h, t, m)
           /\ h[m].parent = t.par[m]
           /\ t.lev[m] = 0 => After(h, t, NULL, m) /\ Before(h, t, NULL, m)
           /\ h # Fault
<1>1. SearchTree(t) /\ m # NULL
  BY Numbers DEF Resting, Stands
<1>2. Says(h, t, m)
  BY <1>1 DEF Resting, Stands
<1>3. h # Fault
  BY <1>2 DEF Says, LeafSays, InnerSays, IsLeaf, IsInner, Live, Fault
<1> QED
  BY <1>1, <1>2, <1>3 DEF Resting, Stands

\* The leaf that an insertion has found.
LEMMA AtInsert ==
    ASSUME AppendInv, pc = "insert", NEW t, Shape(heap, t, pc, local, call, root)
    PROVE  /\ Resting(heap, t, root) /\ SearchTree(t) /\ IsFiniteSet(t.G)
           /\ local.at \in t.G /\ t.lev[local.at] = 0 /\ t.hi[local.at] = t.top
           /\ call.key \in Keys /\ call.key >= t.top /\ call.data \in DataSlot
           /\ IsLeaf(heap, local.at) /\ Readable(heap, local.at)
           /\ heap[local.at].slotsinuse \in Nat /\ heap[local.at].slotsinuse <= LeafSlots
           /\ Says(heap, t, local.at)
<1>1. Resting(heap, t, root) /\ Looking(t, pc, local, call)
  BY DEF Shape
<1>2. local.at \in t.G /\ t.lev[local.at] = 0 /\ t.hi[local.at] = t.top /\ call.key >= t.top
  BY <1>1 DEF Looking
<1>3. TypeInv /\ pc \in Ops
  BY DEF AppendInv, RootInv, InsertInv, Ops
<1>4. /\ IsLeaf(heap, local.at) /\ Readable(heap, local.at)
      /\ heap[local.at].slotsinuse \in Nat /\ heap[local.at].slotsinuse <= LeafSlots
      /\ call \in Calling
  BY <1>3, AtOps
<1>5. call.key \in Keys /\ call.data \in DataSlot
  BY <1>4, CallFields
<1>6. SearchTree(t) /\ IsFiniteSet(t.G) /\ Says(heap, t, local.at)
  BY <1>1, <1>2, RestingNode
<1> QED
  BY <1>1, <1>2, <1>4, <1>5, <1>6

\* A pair goes into the last leaf.
LEMMA InsertPairKeepsShape ==
    ASSUME AppendInv, NEW junk, InsertPair(junk)
    PROVE  Grown'
<1> DEFINE o == local.at
           k == call.key
           d == call.data
           s == heap[o].slotsinuse
           g == insertleafpair(heap, o, k, d, junk)
<1>1. pc = "insert" /\ root' = root /\ totalkeycount' = totalkeycount + 1 /\ Return(g, "ok", EmptyData)
      /\ PairResult(heap, o, k, d, junk) = "inserted"
  BY DEF InsertPair
<1>2. root # NULL /\ heap \in Heap /\ TypeInv
  BY <1>1, Shaped
<1>3. PICK t : /\ Shape(heap, t, pc, local, call, root)
               /\ totalkeycount = Cardinality(Pairs(heap, t))
  BY <1>1, Shaped
<1>4. /\ Resting(heap, t, root) /\ SearchTree(t) /\ IsFiniteSet(t.G)
      /\ o \in t.G /\ t.lev[o] = 0 /\ t.hi[o] = t.top
      /\ k \in Keys /\ k >= t.top /\ d \in DataSlot
      /\ IsLeaf(heap, o) /\ s \in Nat /\ s <= LeafSlots /\ Says(heap, t, o)
  BY <1>1, <1>3, AtInsert
<1>5. s < LeafSlots
  <2>1. s # LeafSlots
    BY <1>1 DEF PairResult, isfull
  <2> QED
    BY <1>4, <2>1, SlotsAssumption
<1>6. g = insertleafAt(heap, o, k, d, s)
  <2>1. findKeyLoc(heap[o], k) = s
    BY <1>2, <1>4, LastKeys
  <2> QED
    BY <1>1, <2>1 DEF insertleafpair
<1>7. k \in KeySlot /\ k \in Int
  BY <1>4, KeysAssumption DEF KeySlot
<1> DEFINE v == Raise(t, k)
<1> HIDE DEF o, k, d, g, s
<1>8. /\ g \in Edits(heap) /\ g # Fault /\ g[o].slotsinuse = s + 1 /\ g[o].keySlots[s] = k
      /\ \A i \in 0 .. s - 1 : g[o].keySlots[i] = heap[o].keySlots[i]
      /\ g[o].isrootnode = heap[o].isrootnode /\ g[o].parent = heap[o].parent
      /\ g[o].nextLeaf = heap[o].nextLeaf /\ g[o].prevLeaf = heap[o].prevLeaf
      /\ \A m \in NodeIds \ {o} : g[m] = heap[m]
  <2>1. heap \in Heap /\ IsLeaf(heap, o) /\ s = heap[o].slotsinuse /\ s < LeafSlots
        /\ k \in KeySlot /\ d \in DataSlot
    BY <1>2, <1>4, <1>5, <1>7 DEF s
  <2>2. LeafLonger(heap, g, o, s, k)
    BY <1>6, <2>1, LeafAppended, Zenon
  <2> QED
    BY <2>2 DEF LeafLonger
<1>9. /\ SearchTree(v) /\ IsFiniteSet(v.G) /\ Crown(v, root) /\ v.G = t.G /\ v.par = t.par
      /\ v.lev = t.lev /\ v.lo = t.lo /\ v.hi[o] = v.top /\ v.top = k + 1 /\ v.cnt = t.cnt
      /\ \A m \in t.G : /\ m # o => Says(heap, v, m)
                        /\ Fit(heap, v, m) /\ heap[m].parent = v.par[m]
                        /\ t.lev[m] = 0 => After(heap, v, NULL, m) /\ Before(heap, v, NULL, m)
  BY <1>4, <1>7, RaiseStands
<1> HIDE DEF v
<1>10. IsLeaf(g, o) /\ \A m : IsLeaf(g, m) <=> IsLeaf(heap, m)
  BY <1>2, <1>4, <1>8, EditsKeep
<1>11. Says(g, v, o)
  BY <1>2, <1>4, <1>8, <1>9, <1>10, AppendedSays DEF s
<1>12. ASSUME NEW m \in t.G
       PROVE  /\ Says(g, v, m) /\ Fit(g, v, m) /\ g[m].parent = v.par[m]
              /\ v.lev[m] = 0 => After(g, v, NULL, m) /\ Before(g, v, NULL, m)
  <2>1. m \in NodeIds
    BY <1>4, Numbers
  <2>2. CASE m # o
    <3>1. g[m] = heap[m]
      BY <1>8, <2>1, <2>2
    <3>2. Says(g, v, m)
      <4>1. SameBody(heap[m], g[m]) /\ Agree(v, v, m)
        BY <3>1 DEF SameBody, Agree
      <4>2. v.cnt[m] \in Nat \/ v.lev[m] = 0
        BY <1>9, Numbers
      <4> QED
        BY <1>2, <1>8, <1>9, <2>1, <2>2, <4>1, <4>2, SaysKept
    <3> QED
      BY <1>9, <3>1, <3>2 DEF Fit, HalfFull, After, Before
  <2>3. CASE m = o
    <3>1. Fit(g, v, o)
      <4>1. Fit(heap, v, o) /\ LeafSlots \div 2 \in Int
        BY <1>4, <1>9, SlotsAssumption
      <4>2. s + 1 >= s
        BY <1>4 DEF s
      <4> QED
        BY <1>4, <1>8, <1>9, <4>1, <4>2 DEF Fit, HalfFull, s
    <3>2. g[o].parent = v.par[o] /\ After(g, v, NULL, o) /\ Before(g, v, NULL, o)
      BY <1>4, <1>8, <1>9 DEF After, Before
    <3> QED
      BY <1>11, <2>3, <3>1, <3>2
  <2> QED
    BY <2>2, <2>3
<1>13. Resting(g, v, root)
  BY <1>9, <1>12 DEF Resting, Stands
<1>14. Cardinality(Pairs(g, v)) = Cardinality(Pairs(heap, t)) + 1
  <2>1. \A m \in t.G : m # o => g[m].slotsinuse = heap[m].slotsinuse
    BY <1>4, <1>8, Numbers
  <2> QED
    BY <1>4, <1>5, <1>8, <1>9, <2>1, PairCounted DEF s
<1> QED
  BY <1>1, <1>2, <1>3, <1>8, <1>13, <1>14, ReturnGrows

\* A duplicate is reported and changes nothing; so is what get answers.
LEMMA AnswersKeepShape ==
    ASSUME AppendInv, (\E junk : InsertDuplicate(junk)) \/ Get
    PROVE  Grown'
<1>1. /\ pc \in {"insert", "get"} /\ root' = root /\ totalkeycount' = totalkeycount
      /\ \E code, d : Return(heap, code, d)
  BY DEF InsertDuplicate, Get
<1>2. root # NULL
  BY <1>1, Shaped
<1>3. PICK t : /\ Shape(heap, t, pc, local, call, root)
               /\ totalkeycount = Cardinality(Pairs(heap, t))
  BY <1>1, Shaped
<1>4. Resting(heap, t, root) /\ local.at \in t.G
  BY <1>1, <1>3 DEF Shape, Looking
<1>5. heap # Fault
  BY <1>4, RestingNode
<1> QED
  BY <1>1, <1>2, <1>3, <1>4, <1>5, ReturnGrows

-----------------------------------------------------------------------------
\* f[n] is what B gives along the links E from n.
Collects(f, D, E, B) == \A n \in D : f[n] = B[n] \cup UNION {f[c] : c \in E[n]}

\* What a search over links from node to node collects is well defined.
LEMMA SetRecursion ==
    ASSUME NEW D, NEW U, NEW E \in [D -> SUBSET D], NEW B \in [D -> SUBSET U]
    PROVE  \E f \in [D -> SUBSET U] : Collects(f, D, E, B)
<1> DEFINE Closed(S) == \A x \in S : E[x] \subseteq S
           f == [n \in D |-> {u \in U : \A S \in SUBSET D :
                                          n \in S /\ Closed(S) => \E x \in S : u \in B[x]}]
<1>1. f \in [D -> SUBSET U]
  OBVIOUS
<1>2. ASSUME NEW n \in D, NEW u \in f[n], u \notin B[n]
      PROVE  \E c \in E[n] : u \in f[c]
  <2> SUFFICES ASSUME \A c \in E[n] : u \notin f[c] PROVE FALSE
    OBVIOUS
  <2> DEFINE Bad == {S \in SUBSET D : Closed(S) /\ \A x \in S : u \notin B[x]}
             S == {n} \cup UNION Bad
  <2>1. u \in U /\ E[n] \subseteq D
    OBVIOUS
  <2>2. ASSUME NEW c \in E[n] PROVE c \in UNION Bad
    <3>1. c \in D /\ u \notin f[c]
      BY <2>1
    <3>2. PICK R \in SUBSET D : c \in R /\ Closed(R) /\ ~(\E x \in R : u \in B[x])
      BY <2>1, <3>1
    <3> QED
      BY <3>2
  <2>3. ASSUME NEW x \in UNION Bad PROVE x \in D /\ E[x] \subseteq UNION Bad /\ u \notin B[x]
    BY <2>3
  <2>4. S \in SUBSET D /\ n \in S /\ Closed(S) /\ ~(\E x \in S : u \in B[x])
    <3> HIDE DEF Bad, f
    <3> QED
      BY <1>2, <2>2, <2>3
  <2> QED
    BY <2>4
<1>3. ASSUME NEW n \in D PROVE B[n] \subseteq f[n]
  BY <1>3
<1>4. ASSUME NEW n \in D, NEW c \in E[n] PROVE f[c] \subseteq f[n]
  <2>1. c \in D
    OBVIOUS
  <2>2. ASSUME NEW u \in f[c], NEW S \in SUBSET D, n \in S, Closed(S) PROVE \E x \in S : u \in B[x]
    BY <2>1, <2>2
  <2> QED
    BY <2>1, <2>2
<1> HIDE DEF f
<1>5. ASSUME NEW n \in D PROVE f[n] = B[n] \cup UNION {f[c] : c \in E[n]}
  BY <1>2, <1>3, <1>4, <1>5
<1> QED
  BY <1>1, <1>5 DEF Collects

\* The children that a heap shows are pointers.
LEMMA ShownChildren ==
    ASSUME NEW h \in Heap, Within(h), NEW n, IsInner(h, n), NEW i \in 0 .. h[n].numChildren - 1
    PROVE  h[n].firstChild[i] \in Pointer
<1>1. h[n] \in innerNode /\ n \in NodeIds /\ Room(h[n]) /\ ~h[n].isleafnode
  BY LiveTypes DEF Within, IsInner, Live
<1>2. h[n].numChildren <= NodeSlots + 1 /\ h[n].numChildren \in Int
  BY <1>1 DEF Room, innerNode
<1>3. i \in ChildIndex
  BY <1>2, SlotsAssumption DEF ChildIndex
<1> QED
  BY <1>1, <1>3 DEF innerNode

\* A union over an array.
LEMMA MappedTwice ==
    ASSUME NEW f, NEW g, NEW I
    PROVE  UNION {f[c] : c \in {g[i] : i \in I}} = UNION {f[g[i]] : i \in I}
<1>1. {f[c] : c \in {g[i] : i \in I}} = {f[g[i]] : i \in I}
  OBVIOUS
<1> QED
  BY <1>1

\* The recursion of LeavesBelow.
LEMMA LeavesBelowUnfolds ==
    ASSUME heap \in Heap, Within(heap)
    PROVE  \A n \in Pointer : LeavesBelow[n] =
              IF ~Live(heap, n) THEN {}
              ELSE IF heap[n].isleafnode THEN {n}
              ELSE UNION {LeavesBelow[heap[n].firstChild[i]] : i \in 0 .. heap[n].numChildren - 1}
<1> DEFINE E == [n \in Pointer |-> IF IsInner(heap, n)
                   THEN {heap[n].firstChild[i] : i \in 0 .. heap[n].numChildren - 1} ELSE {}]
           B == [n \in Pointer |-> IF IsLeaf(heap, n) THEN {n} ELSE {}]
           Body(f) == [n \in Pointer |->
              IF ~Live(heap, n) THEN {}
              ELSE IF heap[n].isleafnode THEN {n}
              ELSE UNION {f[heap[n].firstChild[i]] : i \in 0 .. heap[n].numChildren - 1}]
<1>1. E \in [Pointer -> SUBSET Pointer]
  BY ShownChildren
<1>2. B \in [Pointer -> SUBSET Pointer]
  OBVIOUS
<1>3. PICK f \in [Pointer -> SUBSET Pointer] :
         \A n \in Pointer : f[n] = B[n] \cup UNION {f[c] : c \in E[n]}
  <2> HIDE DEF E, B
  <2>1. \E f \in [Pointer -> SUBSET Pointer] : Collects(f, Pointer, E, B)
    BY <1>1, <1>2, SetRecursion
  <2> QED
    BY <2>1 DEF Collects
<1>4. ASSUME NEW n \in Pointer PROVE f[n] = Body(f)[n]
  <2>1. CASE ~Live(heap, n)
    BY <1>3, <2>1 DEF IsLeaf, IsInner
  <2>2. CASE IsLeaf(heap, n)
    <3>1. B[n] = {n} /\ E[n] = {}
      BY <2>2 DEF IsLeaf, IsInner
    <3> HIDE DEF B, E
    <3> QED
      BY <1>3, <2>2, <3>1 DEF IsLeaf
  <2>3. CASE IsInner(heap, n)
    <3>1. B[n] = {} /\ E[n] = {heap[n].firstChild[i] : i \in 0 .. heap[n].numChildren - 1}
      BY <2>3 DEF IsLeaf, IsInner
    <3>2. UNION {f[c] : c \in E[n]} =
             UNION {f[heap[n].firstChild[i]] : i \in 0 .. heap[n].numChildren - 1}
      BY <3>1, MappedTwice
    <3> HIDE DEF B, E
    <3> QED
      BY <1>3, <2>3, <3>1, <3>2 DEF IsInner
  <2> QED
    BY <2>1, <2>2, <2>3 DEF IsLeaf, IsInner
<1>5. f = Body(f)
  <2>1. f = [n \in Pointer |-> f[n]] 
    BY <1>3
  <2> QED
    BY <1>4, <2>1
<1>6. LeavesBelow = CHOOSE g : g = Body(g)
  BY DEF LeavesBelow
<1>7. LeavesBelow = Body(LeavesBelow)
  <2> HIDE DEF Body
  <2> QED
    BY <1>5, <1>6
<1>8. \A n \in Pointer : LeavesBelow[n] = Body(LeavesBelow)[n]
  <2> HIDE DEF Body
  <2> QED
    BY <1>7
<1> QED
  BY <1>8

\* The recursion of NodesBelow.
LEMMA NodesBelowUnfolds ==
    ASSUME heap \in Heap, Within(heap)
    PROVE  \A n \in Pointer : NodesBelow[n] =
              {n} \cup IF IsInner(heap, n) THEN UNION {NodesBelow[c] : c \in Children(n)} ELSE {}
<1> DEFINE E == [n \in Pointer |-> IF IsInner(heap, n) THEN Children(n) ELSE {}]
           B == [n \in Pointer |-> {n}]
           Body(f) == [n \in Pointer |->
              {n} \cup IF IsInner(heap, n) THEN UNION {f[c] : c \in Children(n)} ELSE {}]
<1>1. E \in [Pointer -> SUBSET Pointer]
  BY ShownChildren DEF Children
<1>2. B \in [Pointer -> SUBSET Pointer]
  OBVIOUS
<1>3. PICK f \in [Pointer -> SUBSET Pointer] :
         \A n \in Pointer : f[n] = B[n] \cup UNION {f[c] : c \in E[n]}
  <2> HIDE DEF E, B
  <2>1. \E f \in [Pointer -> SUBSET Pointer] : Collects(f, Pointer, E, B)
    BY <1>1, <1>2, SetRecursion
  <2> QED
    BY <2>1 DEF Collects
<1>4. ASSUME NEW n \in Pointer PROVE f[n] = Body(f)[n]
  <2>1. B[n] = {n} /\ E[n] = IF IsInner(heap, n) THEN Children(n) ELSE {}
    OBVIOUS
  <2>2. UNION {f[c] : c \in E[n]} =
           IF IsInner(heap, n) THEN UNION {f[c] : c \in Children(n)} ELSE {}
    <3> HIDE DEF B, E
    <3> QED
      BY <2>1
  <2> HIDE DEF B, E
  <2> QED
    BY <1>3, <2>1, <2>2
<1>5. f = Body(f)
  <2>1. f = [n \in Pointer |-> f[n]]
    BY <1>3
  <2> QED
    BY <1>4, <2>1
<1>6. NodesBelow = CHOOSE g : g = Body(g)
  BY DEF NodesBelow
<1>7. NodesBelow = Body(NodesBelow)
  <2> HIDE DEF Body
  <2> QED
    BY <1>5, <1>6
<1>8. \A n \in Pointer : NodesBelow[n] = Body(NodesBelow)[n]
  <2> HIDE DEF Body
  <2> QED
    BY <1>7
<1> QED
  BY <1>8

\* The recursion of FirstPath.
LEMMA FirstPathUnfolds ==
    ASSUME heap \in Heap
    PROVE  \A n \in Pointer : FirstPath[n] =
              {n} \cup IF IsInner(heap, n) THEN FirstPath[heap[n].firstChild[0]] ELSE {}
<1> DEFINE E == [n \in Pointer |-> IF IsInner(heap, n) THEN {heap[n].firstChild[0]} ELSE {}]
           B == [n \in Pointer |-> {n}]
           Body(f) == [n \in Pointer |->
              {n} \cup IF IsInner(heap, n) THEN f[heap[n].firstChild[0]] ELSE {}]
<1>1. E \in [Pointer -> SUBSET Pointer]
  <2>1. ASSUME NEW n, IsInner(heap, n) PROVE heap[n].firstChild[0] \in Pointer
    <3>1. heap[n] \in innerNode /\ 0 \in ChildIndex
      BY <2>1, LiveTypes, SlotsAssumption DEF ChildIndex
    <3> QED
      BY <3>1 DEF innerNode
  <2> QED
    BY <2>1
<1>2. B \in [Pointer -> SUBSET Pointer]
  OBVIOUS
<1>3. PICK f \in [Pointer -> SUBSET Pointer] :
         \A n \in Pointer : f[n] = B[n] \cup UNION {f[c] : c \in E[n]}
  <2> HIDE DEF E, B
  <2>1. \E f \in [Pointer -> SUBSET Pointer] : Collects(f, Pointer, E, B)
    BY <1>1, <1>2, SetRecursion
  <2> QED
    BY <2>1 DEF Collects
<1>4. ASSUME NEW n \in Pointer PROVE f[n] = Body(f)[n]
  <2>1. B[n] = {n} /\ E[n] = IF IsInner(heap, n) THEN {heap[n].firstChild[0]} ELSE {}
    OBVIOUS
  <2>2. UNION {f[c] : c \in E[n]} = IF IsInner(heap, n) THEN f[heap[n].firstChild[0]] ELSE {}
    <3> HIDE DEF B, E
    <3> QED
      BY <2>1
  <2> HIDE DEF B, E
  <2> QED
    BY <1>3, <2>1, <2>2
<1>5. f = Body(f)
  <2>1. f = [n \in Pointer |-> f[n]]
    BY <1>3
  <2> QED
    BY <1>4, <2>1
<1>6. FirstPath = CHOOSE g : g = Body(g)
  BY DEF FirstPath
<1>7. FirstPath = Body(FirstPath)
  <2> HIDE DEF Body
  <2> QED
    BY <1>5, <1>6
<1>8. \A n \in Pointer : FirstPath[n] = Body(FirstPath)[n]
  <2> HIDE DEF Body
  <2> QED
    BY <1>7
<1> QED
  BY <1>8

\* The recursion of WellLinked.
WellHere(n) ==
    /\ IsInner(heap, n)
    /\ heap[n].numChildren = heap[n].slotsinuse + 1
    /\ heap[n].slotsinuse <= NodeSlots
    /\ \A c \in Children(n) : Live(heap, c) /\ heap[c].parent = n /\ ~heap[c].isrootnode

\* WellLinked is well defined.
LEMMA WellLinkedUnfolds ==
    \A n \in NodeIds :
       WellLinked[n] <=> IsLeaf(heap, n) \/ (WellHere(n) /\ \A c \in Children(n) : WellLinked[c])
<1> DEFINE E == [n \in NodeIds |-> IF WellHere(n) THEN Children(n) ELSE {}]
           B == [n \in NodeIds |-> IF IsLeaf(heap, n) \/ WellHere(n) THEN {} ELSE {n}]
           Cond(f, n) ==
             \/ IsLeaf(heap, n)
             \/ /\ IsInner(heap, n)
                /\ heap[n].numChildren = heap[n].slotsinuse + 1
                /\ heap[n].slotsinuse <= NodeSlots
                /\ \A c \in Children(n) :
                      Live(heap, c) /\ heap[c].parent = n /\ ~heap[c].isrootnode /\ f[c]
           Body(f) == [n \in NodeIds |-> Cond(f, n)]
<1>1. E \in [NodeIds -> SUBSET NodeIds]
  BY DEF WellHere, Live
<1>2. B \in [NodeIds -> SUBSET NodeIds]
  OBVIOUS
<1>3. PICK f \in [NodeIds -> SUBSET NodeIds] :
         \A n \in NodeIds : f[n] = B[n] \cup UNION {f[c] : c \in E[n]}
  <2> HIDE DEF E, B
  <2>1. \E f \in [NodeIds -> SUBSET NodeIds] : Collects(f, NodeIds, E, B)
    BY <1>1, <1>2, SetRecursion
  <2> QED
    BY <2>1 DEF Collects
<1> DEFINE l == [n \in NodeIds |-> f[n] = {}]
<1>4. ASSUME NEW g, NEW n
      PROVE  Cond(g, n) <=> IsLeaf(heap, n) \/ (WellHere(n) /\ \A c \in Children(n) : g[c])
  BY Zenon DEF WellHere
<1>5. ASSUME NEW n \in NodeIds PROVE f[n] = {} <=> Cond(l, n)
  <2>1. B[n] = (IF IsLeaf(heap, n) \/ WellHere(n) THEN {} ELSE {n})
        /\ E[n] = IF WellHere(n) THEN Children(n) ELSE {}
    OBVIOUS
  <2>2. WellHere(n) => ~IsLeaf(heap, n) /\ Children(n) \subseteq NodeIds
    BY DEF WellHere, IsLeaf, IsInner, Live
  <2>3. \A c \in NodeIds : l[c] <=> f[c] = {}
    OBVIOUS
  <2>4. IsLeaf(heap, n) => f[n] = {}
    <3> HIDE DEF B, E
    <3> QED
      BY <1>3, <2>1, <2>2
  <2>5. WellHere(n) => (f[n] = {} <=> \A c \in Children(n) : f[c] = {})
    <3> HIDE DEF B, E
    <3> QED
      BY <1>3, <2>1, <2>2
  <2>6. ~IsLeaf(heap, n) /\ ~WellHere(n) => f[n] # {}
    <3> HIDE DEF B, E
    <3> QED
      BY <1>3, <2>1
  <2>7. WellHere(n) => ((\A c \in Children(n) : l[c]) <=> \A c \in Children(n) : f[c] = {})
    <3> HIDE DEF l
    <3> QED
      BY <2>2, <2>3, Zenon
  <2>8. Cond(l, n) <=> IsLeaf(heap, n) \/ (WellHere(n) /\ \A c \in Children(n) : l[c])
    BY <1>4
  <2> HIDE DEF l, Cond
  <2> QED
    BY <2>4, <2>5, <2>6, <2>7, <2>8, Zenon
<1>6. l = Body(l)
  <2>1. \A n \in NodeIds : Cond(l, n) \in BOOLEAN
    BY Zenon
  <2>2. \A n \in NodeIds : (f[n] = {}) = Cond(l, n)
    <3> HIDE DEF Cond, l
    <3> QED
      BY <1>5, <2>1
  <2>3. l = [n \in NodeIds |-> Cond(l, n)]
    <3> DEFINE lhs(n) == (f[n] = {})
               rhs(n) == Cond(l, n)
    <3>1. \A n \in NodeIds : lhs(n) = rhs(n)
      BY <2>2
    <3> HIDE DEF lhs, rhs
    <3>2. [n \in NodeIds |-> lhs(n)] = [n \in NodeIds |-> rhs(n)]
      BY <3>1
    <3> QED
      BY <3>2 DEF lhs, rhs
  <2> QED
    BY <2>3
<1>7. WellLinked = CHOOSE g : g = Body(g)
  BY DEF WellLinked
<1>8. WellLinked = Body(WellLinked)
  <2> HIDE DEF Body, l
  <2> QED
    BY <1>6, <1>7
<1>9. ASSUME NEW n \in NodeIds PROVE WellLinked[n] = Cond(WellLinked, n)
  <2>1. WellLinked[n] = Body(WellLinked)[n]
    <3> HIDE DEF Body
    <3> QED
      BY <1>8
  <2> HIDE DEF Cond
  <2> QED
    BY <2>1
<1> HIDE DEF Cond
<1> QED
  BY <1>4, <1>9, Zenon

-----------------------------------------------------------------------------
\* What holds of leaves, and of an inner node if of its children, holds of all nodes.
LEMMA ByLevel ==
    ASSUME NEW t, SearchTree(t), NEW S,
           \A m \in t.G : t.lev[m] = 0 => m \in S,
           \A m \in t.G : t.lev[m] > 0 /\ (\A i \in 0 .. t.cnt[m] : t.ch[m][i] \in S) => m \in S
    PROVE  t.G \subseteq S
<1> DEFINE Bad == {n \in Nat : \E m \in t.G \ S : t.lev[m] = n}
<1> SUFFICES ASSUME NEW a \in t.G \ S PROVE FALSE
  OBVIOUS
<1>1. Bad \in SUBSET Nat /\ Bad # {}
  BY Numbers
<1>2. PICK n \in Bad : \A z \in Bad : n <= z
  BY <1>1, LeastThere
<1>3. PICK m \in t.G \ S : t.lev[m] = n
  BY <1>2
<1>4. n \in Nat /\ n > 0
  BY <1>2, <1>3
<1>5. ASSUME NEW i \in 0 .. t.cnt[m] PROVE t.ch[m][i] \in S
  <2>1. IsChild(t, m, i)
    BY <1>3, <1>4 DEF SearchTree, Inner
  <2>2. t.ch[m][i] \in t.G /\ t.lev[t.ch[m][i]] + 1 = n /\ t.lev[t.ch[m][i]] \in Nat
    BY <1>3, <2>1, Numbers DEF IsChild
  <2>3. t.lev[t.ch[m][i]] \notin Bad
    BY <1>2, <1>4, <2>2
  <2> QED
    BY <2>2, <2>3
<1> QED
  BY <1>3, <1>4, <1>5

\* The spans of the children lie in that of their parent,
LEMMA ChildSpans ==
    ASSUME NEW t, SearchTree(t), NEW m \in t.G, t.lev[m] > 0
    PROVE  /\ t.cnt[m] \in Nat /\ t.cnt[m] >= 1
           /\ \A i \in 0 .. t.cnt[m] :
                 /\ IsChild(t, m, i) /\ t.ch[m][i] \in t.G
                 /\ t.lo[m] <= t.lo[t.ch[m][i]] /\ t.hi[t.ch[m][i]] <= t.hi[m]
<1> DEFINE e == t.cnt[m]
           c(i) == t.ch[m][i]
<1>1. e \in Nat /\ e >= 1 /\ \A i \in 0 .. e : IsChild(t, m, i)
  BY DEF SearchTree, Inner
<1>2. ASSUME NEW i \in 0 .. e
      PROVE  /\ c(i) \in t.G /\ t.lo[c(i)] \in Int /\ t.hi[c(i)] \in Int /\ t.lo[c(i)] < t.hi[c(i)]
             /\ t.lo[c(i)] = IF i = 0 THEN t.lo[m] ELSE t.ks[m][i - 1]
             /\ t.hi[c(i)] = IF i = e THEN t.hi[m] ELSE t.ks[m][i]
  BY <1>1, Numbers DEF IsChild
<1>3. t.lo[m] \in Int /\ t.hi[m] \in Int
  BY Numbers
<1>4. ASSUME NEW i \in 0 .. e, i > 0
      PROVE  i - 1 \in 0 .. e /\ t.hi[c(i - 1)] = t.lo[c(i)]
  <2>1. i - 1 \in 0 .. e /\ i - 1 # e /\ i # 0
    BY <1>1, <1>4
  <2> QED
    BY <1>2, <2>1
<1> HIDE DEF e, c
<1>5. ASSUME NEW j \in 0 .. e, t.lo[c(j)] < t.lo[m] PROVE FALSE
  <2> DEFINE Bad == {i \in 0 .. e : t.lo[c(i)] < t.lo[m]}
  <2>1. Bad \in SUBSET Nat /\ Bad # {}
    BY <1>5
  <2>2. PICK i \in Bad : \A z \in Bad : i <= z
    BY <2>1, LeastThere
  <2>3. i \in 0 .. e /\ t.lo[c(i)] < t.lo[m]
    BY <2>2
  <2>4. CASE i = 0
    BY <1>2, <1>3, <2>3, <2>4
  <2>5. CASE i > 0
    <3>1. i - 1 \in 0 .. e /\ t.hi[c(i - 1)] = t.lo[c(i)]
      BY <1>4, <2>3, <2>5
    <3>2. t.lo[c(i - 1)] < t.lo[m]
      BY <1>2, <1>3, <2>3, <3>1
    <3>3. i - 1 \in Bad
      BY <3>1, <3>2
    <3> QED
      BY <2>2, <2>3, <3>3
  <2> QED
    BY <2>3, <2>4, <2>5
<1>6. ASSUME NEW j \in 0 .. e, t.hi[c(j)] > t.hi[m] PROVE FALSE
  <2> DEFINE Bad == {i \in 0 .. e : t.hi[c(e - i)] > t.hi[m]}
  <2>1. e - j \in 0 .. e /\ e - (e - j) = j
    BY <1>1
  <2>2. Bad \in SUBSET Nat /\ Bad # {}
    BY <1>6, <2>1
  <2>3. PICK i \in Bad : \A z \in Bad : i <= z
    BY <2>2, LeastThere
  <2>4. i \in 0 .. e /\ t.hi[c(e - i)] > t.hi[m] /\ e - i \in 0 .. e
    BY <1>1, <2>3
  <2>5. CASE i = 0
    <3>1. e - i = e
      BY <1>1, <2>5
    <3>2. t.hi[c(e)] = t.hi[m]
      BY <1>1, <1>2
    <3> QED
      BY <1>3, <2>4, <3>1, <3>2
  <2>6. CASE i > 0
    <3>1. (e - i) + 1 \in 0 .. e /\ (e - i) + 1 > 0 /\ ((e - i) + 1) - 1 = e - i
          /\ e - (i - 1) = (e - i) + 1 /\ i - 1 \in 0 .. e
      BY <1>1, <2>4, <2>6
    <3>2. t.hi[c(e - i)] = t.lo[c((e - i) + 1)]
      BY <1>4, <3>1
    <3>3. t.hi[c((e - i) + 1)] > t.hi[m]
      BY <1>2, <1>3, <2>4, <3>1, <3>2
    <3>4. i - 1 \in Bad
      BY <3>1, <3>3
    <3> QED
      BY <2>3, <2>4, <3>4
  <2> QED
    BY <2>4, <2>5, <2>6
<1>7. \A i \in 0 .. e : t.lo[m] <= t.lo[c(i)] /\ t.hi[c(i)] <= t.hi[m]
  BY <1>2, <1>3, <1>5, <1>6
<1> QED
  BY <1>1, <1>2, <1>7 DEF e, c

\* and cover it.
LEMMA ChildOf ==
    ASSUME NEW t, SearchTree(t), NEW m \in t.G, t.lev[m] > 0, NEW x \in Int,
           t.lo[m] <= x, x < t.hi[m]
    PROVE  \E i \in 0 .. t.cnt[m] : t.lo[t.ch[m][i]] <= x /\ x < t.hi[t.ch[m][i]]
<1> DEFINE e == t.cnt[m]
           Good == {i \in 0 .. e : i = e \/ x < t.ks[m][i]}
<1>1. e \in Nat /\ \A i \in 0 .. e : IsChild(t, m, i)
  BY ChildSpans
<1>2. Good \in SUBSET Nat /\ e \in Good
  BY <1>1
<1>3. PICK i \in Good : \A z \in Good : i <= z
  BY <1>2, LeastThere
<1>4. \A j \in 0 .. e - 1 : t.ks[m][j] \in Int
  BY KeysAssumption DEF SearchTree, Inner
<1>5. i \in 0 .. e /\ (i = e \/ x < t.ks[m][i])
  BY <1>3
<1>6. i = 0 \/ (i - 1 \in 0 .. e - 1 /\ t.ks[m][i - 1] <= x)
  <2> SUFFICES ASSUME i # 0 PROVE i - 1 \in 0 .. e - 1 /\ t.ks[m][i - 1] <= x
    OBVIOUS
  <2>1. i - 1 \in 0 .. e - 1 /\ i - 1 \in 0 .. e /\ i - 1 # e /\ ~(i <= i - 1)
    BY <1>1, <1>5
  <2>2. i - 1 \notin Good
    BY <1>3, <2>1
  <2>3. ~(x < t.ks[m][i - 1])
    BY <2>1, <2>2
  <2> QED
    BY <1>4, <2>1, <2>3
<1>7. /\ t.lo[t.ch[m][i]] = IF i = 0 THEN t.lo[m] ELSE t.ks[m][i - 1]
      /\ t.hi[t.ch[m][i]] = IF i = e THEN t.hi[m] ELSE t.ks[m][i]
  BY <1>1, <1>5 DEF IsChild
<1> HIDE DEF Good
<1> QED
  BY <1>5, <1>6, <1>7

\* The leaves of a tree; those below node m.
LeavesOf(t) == {l \in t.G : t.lev[l] = 0}
Under(t, m) == {l \in t.G : t.lev[l] = 0 /\ t.lo[m] <= t.lo[l] /\ t.lo[l] < t.hi[m]}

\* The leaves below a leaf, an inner node and the root.
LEMMA UnderNodes ==
    ASSUME NEW t, SearchTree(t), NEW m \in t.G
    PROVE  /\ t.lev[m] = 0 => Under(t, m) = {m}
           /\ t.lev[m] > 0 => Under(t, m) = UNION {Under(t, t.ch[m][i]) : i \in 0 .. t.cnt[m]}
           /\ t.lo[m] = t.bot /\ t.hi[m] = t.top => Under(t, m) = LeavesOf(t)
<1>1. ASSUME t.lev[m] = 0 PROVE Under(t, m) = {m}
  <2>1. m \in Under(t, m)
    BY <1>1, Numbers DEF Under
  <2>2. ASSUME NEW l \in Under(t, m) PROVE l = m
    <3>1. l \in t.G /\ t.lev[l] = 0 /\ t.lo[m] <= t.lo[l] /\ t.lo[l] < t.hi[m]
      BY <2>2 DEF Under
    <3>2. l # m => t.hi[m] <= t.lo[l] \/ t.hi[l] <= t.lo[m]
      BY <1>1, <3>1 DEF SearchTree, Apart
    <3>3. /\ t.lo[l] \in Int /\ t.hi[l] \in Int /\ t.lo[l] < t.hi[l]
          /\ t.lo[m] \in Int /\ t.hi[m] \in Int
      BY <3>1, Numbers
    <3> QED
      BY <3>1, <3>2, <3>3
  <2> QED
    BY <2>1, <2>2
<1>2. ASSUME t.lev[m] > 0
      PROVE  Under(t, m) = UNION {Under(t, t.ch[m][i]) : i \in 0 .. t.cnt[m]}
  <2>1. ASSUME NEW l \in Under(t, m) PROVE \E i \in 0 .. t.cnt[m] : l \in Under(t, t.ch[m][i])
    <3>1. l \in t.G /\ t.lev[l] = 0 /\ t.lo[m] <= t.lo[l] /\ t.lo[l] < t.hi[m] /\ t.lo[l] \in Int
      BY <2>1, Numbers DEF Under
    <3> QED
      BY <1>2, <3>1, ChildOf DEF Under
  <2>2. ASSUME NEW i \in 0 .. t.cnt[m], NEW l \in Under(t, t.ch[m][i]) PROVE l \in Under(t, m)
    <3> DEFINE c == t.ch[m][i]
    <3>1. c \in t.G /\ t.lo[m] <= t.lo[c] /\ t.hi[c] <= t.hi[m]
      BY <1>2, ChildSpans
    <3>2. l \in t.G /\ t.lev[l] = 0 /\ t.lo[c] <= t.lo[l] /\ t.lo[l] < t.hi[c]
      BY <2>2 DEF Under
    <3> HIDE DEF c
    <3>3. /\ t.lo[l] \in Int /\ t.lo[c] \in Int /\ t.hi[c] \in Int
          /\ t.lo[m] \in Int /\ t.hi[m] \in Int
      BY <3>1, <3>2, Numbers
    <3>4. t.lo[m] <= t.lo[l] /\ t.lo[l] < t.hi[m]
      BY <3>1, <3>2, <3>3
    <3> QED
      BY <3>2, <3>4 DEF Under
  <2> QED
    BY <2>1, <2>2
<1>3. ASSUME t.lo[m] = t.bot, t.hi[m] = t.top PROVE Under(t, m) = LeavesOf(t)
  <2>1. \A l \in t.G : t.bot <= t.lo[l] /\ t.lo[l] < t.top
    <3> TAKE l \in t.G
    <3>1. /\ t.lo[l] \in Int /\ t.hi[l] \in Int /\ t.top \in Int
          /\ t.bot <= t.lo[l] /\ t.lo[l] < t.hi[l] /\ t.hi[l] <= t.top
      BY Numbers
    <3> QED
      BY <3>1
  <2> QED
    BY <1>3, <2>1 DEF Under, LeavesOf
<1> QED
  BY <1>1, <1>2, <1>3

\* There is a last leaf.
LEMMA LastLeaf ==
    ASSUME NEW t, SearchTree(t), NEW r, Crown(t, r)
    PROVE  \E o \in t.G : t.lev[o] = 0 /\ t.hi[o] = t.top
<1> DEFINE S == {m \in t.G : t.hi[m] = t.top => \E o \in t.G : t.lev[o] = 0 /\ t.hi[o] = t.top}
<1>1. \A m \in t.G : t.lev[m] = 0 => m \in S
  OBVIOUS
<1>2. ASSUME NEW m \in t.G, t.lev[m] > 0, \A i \in 0 .. t.cnt[m] : t.ch[m][i] \in S PROVE m \in S
  <2>1. t.cnt[m] \in 0 .. t.cnt[m] /\ IsChild(t, m, t.cnt[m])
    BY <1>2, ChildSpans
  <2>2. t.hi[t.ch[m][t.cnt[m]]] = t.hi[m]
    BY <2>1 DEF IsChild
  <2> QED
    BY <1>2, <2>1, <2>2
<1>3. t.G \subseteq S
  <2> HIDE DEF S
  <2> QED
    BY <1>1, <1>2, ByLevel
<1> QED
  BY <1>3 DEF Crown

\* What a search of the heap collects.
LEMMA LeavesBelowAre ==
    ASSUME heap \in Heap, Within(heap), NEW t, NEW r, Resting(heap, t, r), NEW m \in t.G
    PROVE  LeavesBelow[m] = Under(t, m)
<1> DEFINE S == {n \in t.G : LeavesBelow[n] = Under(t, n)}
<1>1. SearchTree(t) /\ \A n \in t.G : Says(heap, t, n) /\ n \in Pointer
  BY RestingNode, Numbers DEF Pointer
<1>2. \A n \in Pointer : LeavesBelow[n] =
              IF ~Live(heap, n) THEN {}
              ELSE IF heap[n].isleafnode THEN {n}
              ELSE UNION {LeavesBelow[heap[n].firstChild[i]] : i \in 0 .. heap[n].numChildren - 1}
  BY LeavesBelowUnfolds
<1>3. ASSUME NEW n \in t.G, t.lev[n] = 0 PROVE n \in S
  <2>1. IsLeaf(heap, n)
    BY <1>1, <1>3 DEF Says, LeafSays
  <2>2. LeavesBelow[n] = {n}
    BY <1>1, <1>2, <2>1 DEF IsLeaf
  <2> QED
    BY <1>1, <1>3, <2>2, UnderNodes
<1>4. ASSUME NEW n \in t.G, t.lev[n] > 0, \A i \in 0 .. t.cnt[n] : t.ch[n][i] \in S PROVE n \in S
  <2>1. InnerSays(heap, t, n)
    BY <1>1, <1>4 DEF Says
  <2>2. /\ IsInner(heap, n) /\ t.cnt[n] \in Nat /\ heap[n].numChildren - 1 = t.cnt[n]
        /\ \A i \in 0 .. t.cnt[n] : heap[n].firstChild[i] = t.ch[n][i]
    BY <1>1, <1>4, <2>1, ChildSpans DEF InnerSays
  <2>3. LeavesBelow[n] = UNION {LeavesBelow[heap[n].firstChild[i]] : i \in 0 .. t.cnt[n]}
    BY <1>1, <1>2, <2>2 DEF IsInner
  <2>4. \A i \in 0 .. t.cnt[n] : LeavesBelow[heap[n].firstChild[i]] = Under(t, t.ch[n][i])
    BY <1>4, <2>2
  <2>5. {LeavesBelow[heap[n].firstChild[i]] : i \in 0 .. t.cnt[n]} =
           {Under(t, t.ch[n][i]) : i \in 0 .. t.cnt[n]}
    BY <2>4
  <2>6. Under(t, n) = UNION {Under(t, t.ch[n][i]) : i \in 0 .. t.cnt[n]}
    BY <1>1, <1>4, UnderNodes
  <2> QED
    BY <2>3, <2>5, <2>6
<1>5. t.G \subseteq S
  <2> HIDE DEF S
  <2> QED
    BY <1>1, <1>3, <1>4, ByLevel
<1> QED
  BY <1>5

\* The leaves and the pairs of a tree at rest.
LEMMA TreeAtRest ==
    ASSUME heap \in Heap, Within(heap), root # NULL, NEW t, Resting(heap, t, root)
    PROVE  TreeLeaves = LeavesOf(t) /\ Entries = Pairs(heap, t)
<1>1. root \in t.G /\ SearchTree(t) /\ t.lo[root] = t.bot /\ t.hi[root] = t.top
  BY DEF Resting, Crown, Stands
<1>2. TreeLeaves = LeavesOf(t)
  <2>1. LeavesBelow[root] = LeavesOf(t)
    BY <1>1, LeavesBelowAre, UnderNodes
  <2> QED
    BY <2>1 DEF TreeLeaves
<1>3. ASSUME NEW e
      PROVE  e \in Entries <=> e \in Pairs(heap, t)
  <2>1. \A G : e \in G \X LeafIndex <=> e = <<e[1], e[2]>> /\ e[1] \in G /\ e[2] \in LeafIndex
    OBVIOUS
  <2> QED
    BY <1>2, <2>1 DEF Entries, Pairs, LeavesOf
<1> QED
  BY <1>2, <1>3

\* A key above every key of the tree is beyond the tree.
LEMMA BeyondTree ==
    ASSUME heap \in Heap, Within(heap), root # NULL, NEW t, Resting(heap, t, root), NEW k \in Keys,
           \A x \in HeldKeys : k > x
    PROVE  k >= t.top
<1>1. SearchTree(t) /\ Crown(t, root) /\ Entries = Pairs(heap, t)
  BY TreeAtRest DEF Resting, Stands
<1>2. PICK o \in t.G : t.lev[o] = 0 /\ t.hi[o] = t.top
  BY <1>1, LastLeaf
<1>3. LeafSays(heap, t, o) /\ o \in NodeIds
  BY <1>1, <1>2, RestingNode, Numbers DEF Says
<1> DEFINE s == heap[o].slotsinuse
<1>4. s \in Nat /\ s >= 1 /\ s <= LeafSlots
  <2>1. IsLeaf(heap, o) /\ s >= 1
    BY <1>3 DEF LeafSays
  <2>2. heap[o] \in node /\ s \in Nat
    BY <2>1, LiveTypes, NodeTypes DEF node, IsLeaf
  <2> QED
    BY <2>1, <2>2 DEF Within, Room, IsLeaf, Live
<1>5. s - 1 \in 0 .. s - 1 /\ s - 1 \in LeafIndex /\ s - 1 < s
  BY <1>4, SlotsAssumption DEF LeafIndex
<1>6. heap[o].keySlots[s - 1] = t.top - 1 /\ heap[o].keySlots[s - 1] \in Keys
  BY <1>2, <1>3, <1>5 DEF LeafSays
<1>7. <<o, s - 1>> \in Entries
  BY <1>1, <1>2, <1>5 DEF Pairs
<1>8. t.top - 1 \in HeldKeys
  <2>1. heap[o].keySlots[s - 1] # Junk
    BY <1>6, JunkAssumption
  <2>2. <<o, s - 1>>[1] = o /\ <<o, s - 1>>[2] = s - 1
    OBVIOUS
  <2> HIDE DEF s
  <2> QED
    BY <1>6, <1>7, <2>1, <2>2 DEF HeldKeys
<1>9. k > t.top - 1 /\ k \in Int /\ t.top \in Int
  BY <1>1, <1>2, <1>8, Numbers, KeysAssumption
<1> QED
  BY <1>9

-----------------------------------------------------------------------------
\* The tree of one leaf n with the key k.
FirstTree(n, k) ==
    [G |-> {n}, lev |-> [m \in NodeIds |-> 0], par |-> [m \in NodeIds |-> NULL],
     ix |-> [m \in NodeIds |-> 0], cnt |-> [m \in NodeIds |-> 0],
     ks |-> [m \in NodeIds |-> [i \in Nat |-> k]], ch |-> [m \in NodeIds |-> [i \in Nat |-> n]],
     lo |-> [m \in NodeIds |-> k], hi |-> [m \in NodeIds |-> k + 1],
     height |-> 0, bot |-> k, top |-> k + 1]

\* The leaf that insert makes of the first pair is a tree.
LEMMA FirstTreeRests ==
    ASSUME NEW g, NEW n \in NodeIds, NEW k \in Keys, IsLeaf(g, n), g[n].slotsinuse = 1,
           g[n].keySlots[0] = k, g[n].parent = NULL, g[n].nextLeaf = NULL, g[n].prevLeaf = NULL
    PROVE  /\ Resting(g, FirstTree(n, k), n)
           /\ Cardinality(Pairs(g, FirstTree(n, k))) = 1
<1> DEFINE t == FirstTree(n, k)
<1>1. /\ t.G = {n} /\ t.lev[n] = 0 /\ t.par[n] = NULL /\ t.lo[n] = k /\ t.hi[n] = k + 1
      /\ t.height = 0 /\ t.bot = k /\ t.top = k + 1 /\ k \in Int /\ k < k + 1 /\ k <= k
      /\ (k + 1) - 1 = k
  BY KeysAssumption DEF FirstTree
<1> HIDE DEF t
<1>2. SearchTree(t)
  <2>1. Bounds(t)
    BY <1>1 DEF Bounds
  <2>2. Inner(t) /\ Hung(t) /\ Apart(t)
    BY <1>1 DEF Inner, Hung, Apart
  <2> QED
    BY <2>1, <2>2 DEF SearchTree
<1>3. IsFiniteSet(t.G)
  BY <1>1, FS_Singleton
<1>4. Says(g, t, n)
  <2>1. \A i \in 0 .. 1 - 1 : i = 0
    OBVIOUS
  <2>2. LeafSays(g, t, n)
    BY <1>1, <2>1 DEF LeafSays
  <2> QED
    BY <1>1, <2>2 DEF Says
<1>5. Crown(t, n)
  BY <1>1 DEF Crown
<1>6. Stands(g, t, NULL, {}, NULL)
  BY <1>1, <1>2, <1>3, <1>4 DEF Stands, Fit, After, Before
<1>7. Pairs(g, t) = {<<n, 0>>}
  <2>1. 0 \in LeafIndex
    BY SlotsAssumption DEF LeafIndex
  <2>2. \A i \in LeafIndex : i < 1 <=> i = 0
    BY DEF LeafIndex
  <2>3. ASSUME NEW e \in Pairs(g, t) PROVE e = <<n, 0>>
    <3>1. e \in t.G \X LeafIndex /\ e[2] < 1 /\ e[1] \in {n}
      BY <1>1, <2>3 DEF Pairs
    <3> QED
      BY <2>2, <3>1
  <2>4. <<n, 0>> \in Pairs(g, t)
    BY <1>1, <2>1 DEF Pairs
  <2> QED
    BY <2>3, <2>4
<1> QED
  BY <1>5, <1>6, <1>7, FS_Singleton DEF Resting, t

\* The first pair makes a root.
LEMMA MakeRootKeepsShape ==
    ASSUME AppendInv, NEW k \in Keys, NEW d \in PayloadsOf[k], MakeRoot(k, d)
    PROVE  Grown'
<1> DEFINE l == FirstId
           r == [NewLeaf EXCEPT !.isrootnode = TRUE]
           h == new(heap, l, r)
           g == insertleafAt(h, l, k, d, 0)
<1>1. root = NULL /\ root' = l /\ totalkeycount' = totalkeycount + 1 /\ Return(g, "ok", EmptyData)
  BY DEF MakeRoot
<1>2. UnusedIds # {}
  <2>1. Cardinality(UnusedIds) >= Reserve /\ Reserve \in Nat \ {0}
    BY WorkloadAssumption DEF MakeRoot
  <2>2. UnusedIds = {} => Cardinality(UnusedIds) = 0
    BY FS_EmptySet, Zenon
  <2> QED
    BY <2>1, <2>2
<1>3. heap \in Heap /\ l \in NodeIds /\ l # NULL
  BY <1>2, FirstUnused, NodeIdsAssumption DEF AppendInv, RootInv, InsertInv, TypeInv, TypeOK
<1>4. r \in leafNode /\ r \in node /\ r.isleafnode /\ r.slotsinuse = 0 /\ r.parent = NULL
      /\ r.nextLeaf = NULL /\ r.prevLeaf = NULL
  BY NewNodes DEF node, leafNode, NewLeaf
<1>5. h \in Heap /\ IsLeaf(h, l) /\ h[l] = r
  <2> HIDE DEF r, l
  <2> QED
    BY <1>3, <1>4, NewInHeap DEF IsLeaf
<1>6. k \in KeySlot /\ d \in DataSlot /\ 0 < LeafSlots
  BY Data, SlotsAssumption
<1> HIDE DEF l, r, h
<1>7. LeafLonger(h, g, l, 0, k)
  <2>1. h[l].slotsinuse = 0
    BY <1>4, <1>5
  <2> HIDE DEF g
  <2> QED
    BY <1>5, <1>6, <2>1, LeafAppended DEF g
<1> HIDE DEF g
<1>8. /\ IsLeaf(g, l) /\ g[l].slotsinuse = 1 /\ g[l].keySlots[0] = k /\ g[l].parent = NULL
      /\ g[l].nextLeaf = NULL /\ g[l].prevLeaf = NULL /\ g # Fault
  <2>1. IsLeaf(g, l)
    BY <1>5, <1>7, EditsKeep DEF LeafLonger
  <2> QED
    BY <1>4, <1>5, <1>7, <2>1 DEF LeafLonger
<1>9. Resting(g, FirstTree(l, k), l) /\ Cardinality(Pairs(g, FirstTree(l, k))) = 1
  BY <1>3, <1>8, FirstTreeRests
<1>10. totalkeycount = 0
  BY <1>1 DEF AppendInv, Grown
<1> QED
  BY <1>1, <1>3, <1>8, <1>9, <1>10, ReturnGrows

\* A call on a tree.
LEMMA StartKeepsShape ==
    ASSUME AppendInv, pc = "idle", root # NULL, NEW op \in {"insert", "get"}, NEW k \in Keys, NEW d,
           Start(op, k, d), op = "insert" => \A x \in HeldKeys : k > x
    PROVE  Grown'
<1>1. PICK t : Shape(heap, t, pc, local, call, root) /\ totalkeycount = Cardinality(Pairs(heap, t))
  BY DEF AppendInv, Grown
<1>2. Resting(heap, t, root) /\ heap \in Heap /\ Within(heap)
  BY <1>1, Globals DEF Shape, AppendInv, RootInv, InsertInv, Filled
<1>3. /\ pc' = "find" /\ local' = [at |-> root] /\ call' = [op |-> op, key |-> k, data |-> d]
      /\ heap' = heap /\ root' = root /\ totalkeycount' = totalkeycount
  BY DEF Start
<1>4. root \in t.G /\ t.hi[root] = t.top
  BY <1>2 DEF Resting, Crown
<1>5. op = "insert" => k >= t.top
  BY <1>2, BeyondTree
<1>6. Looking(t, "find", [at |-> root], [op |-> op, key |-> k, data |-> d])
  BY <1>4, <1>5 DEF Looking
<1>7. Shape(heap, t, "find", [at |-> root], [op |-> op, key |-> k, data |-> d], root)
  BY <1>2, <1>6 DEF Shape
<1> QED
  BY <1>1, <1>3, <1>7 DEF Grown

\* The caller appends and searches.
LEMMA CallsKeepShape ==
    ASSUME AppendInv, Inserts \subseteq {"append", "fill"}, Erases = {}, DeletePairs = {}, Calls
    PROVE  Grown'
<1>1. PICK k \in Keys :
          \/ \E d \in PayloadsOf[k] : MakeRoot(k, d) \/ CallInsert(k, d)
          \/ \E d \in Payloads : CallDeletePair(k, d)
          \/ CallErase(k) \/ CallGet(k)
          \/ \E op \in {"get", "erase", "delete_pair"} : CallOnEmptyTree(op, k)
  BY DEF Calls
<1>2. ~CallErase(k) /\ \A d : ~CallDeletePair(k, d)
  BY DEF CallErase, CallDeletePair, MayErase
<1>3. ASSUME NEW d \in PayloadsOf[k], MakeRoot(k, d) PROVE Grown'
  BY <1>3, MakeRootKeepsShape
<1>4. ASSUME NEW d \in PayloadsOf[k], CallInsert(k, d) PROVE Grown'
  <2>1. pc = "idle" /\ root # NULL /\ Start("insert", k, d) /\ MayInsert(k, d)
    BY <1>4 DEF CallInsert
  <2>2. \A x \in HeldKeys : k > x
    BY <2>1 DEF MayInsert
  <2> QED
    BY <2>1, <2>2, StartKeepsShape
<1>5. CASE CallGet(k)
  BY <1>5, StartKeepsShape DEF CallGet
<1>6. ASSUME NEW op, CallOnEmptyTree(op, k) PROVE Grown'
  <2>1. pc = "idle" /\ root = NULL /\ UNCHANGED <<heap, root, totalkeycount, pc>>
    BY <1>6 DEF CallOnEmptyTree
  <2> QED
    BY <2>1 DEF AppendInv, Grown
<1> QED
  BY <1>1, <1>2, <1>3, <1>4, <1>5, <1>6

-----------------------------------------------------------------------------
\* A node of the tree a search has come to.
LEMMA AtFind ==
    ASSUME AppendInv, pc = "find", NEW t, Shape(heap, t, pc, local, call, root)
    PROVE  /\ Resting(heap, t, root) /\ SearchTree(t) /\ local.at \in t.G /\ local.at \in NodeIds
           /\ Looking(t, "find", local, call) /\ call \in Calling
           /\ Says(heap, t, local.at) /\ Readable(heap, local.at)
<1>1. Resting(heap, t, root) /\ Looking(t, "find", local, call)
  BY DEF Shape
<1>2. local.at \in t.G
  BY <1>1 DEF Looking
<1>3. SearchTree(t) /\ Says(heap, t, local.at) /\ local.at \in NodeIds
  BY <1>1, <1>2, RestingNode, Numbers
<1>4. call \in Calling
  <2>1. "find" \in DOMAIN Locals
    BY LocalsFields
  <2> QED
    BY <2>1, TypesAt DEF AppendInv, RootInv, InsertInv
<1>5. Within(heap)
  BY DEF AppendInv, RootInv, InsertInv, Filled
<1> DEFINE n == local.at
<1>6. Readable(heap, n)
  <2>1. CASE t.lev[n] = 0
    <3>1. /\ IsLeaf(heap, n)
          /\ \A i \in 0 .. heap[n].slotsinuse - 1 : heap[n].keySlots[i] \in Keys
      BY <1>3, <2>1 DEF Says, LeafSays
    <3> HIDE DEF n
    <3> QED
      BY <1>5, <3>1, JunkAssumption DEF Readable, IsLeaf, Live, Within, Room
  <2>2. CASE t.lev[n] # 0
    <3>1. InnerSays(heap, t, n) /\ t.lev[n] > 0
      BY <1>2, <1>3, <2>2, Numbers DEF Says
    <3>2. \A i \in 0 .. t.cnt[n] - 1 : t.ks[n][i] \in Keys
      BY <1>2, <1>3, <3>1 DEF SearchTree, Inner
    <3> HIDE DEF n
    <3> QED
      BY <1>5, <3>1, <3>2, JunkAssumption
         DEF Readable, IsInner, Live, Within, Room, InnerSays
  <2> QED
    BY <2>1, <2>2
<1> QED
  BY <1>1, <1>2, <1>3, <1>4, <1>6

\* A level of find: into the child that a search comes to.
LEMMA FindChildKeepsShape ==
    ASSUME AppendInv, FindChild
    PROVE  Grown'
<1> DEFINE o == local.at
           n == heap[o]
           k == call.key
           above == SlotsAbove(n, k)
           to == IF above = {} THEN getChild(n, n.slotsinuse)
                 ELSE IF n.numChildren <= n.slotsinuse THEN local.at
                 ELSE IF getChild(n, Least(above)) # NULL THEN getChild(n, Least(above))
                 ELSE getChild(n, n.numChildren - 1)
<1>1. /\ pc = "find" /\ IsInner(heap, o) /\ local' = [at |-> to]
      /\ UNCHANGED <<heap, root, totalkeycount, pc, call>>
  BY DEF FindChild
<1>2. root # NULL
  BY <1>1, Shaped
<1>3. PICK t : Shape(heap, t, pc, local, call, root) /\ totalkeycount = Cardinality(Pairs(heap, t))
  BY <1>1, Shaped
<1>4. /\ Resting(heap, t, root) /\ SearchTree(t) /\ o \in t.G /\ o \in NodeIds
      /\ Looking(t, "find", local, call) /\ call \in Calling /\ Says(heap, t, o)
  BY <1>1, <1>3, AtFind
<1>5. k \in Keys /\ k \in Int
  BY <1>4, CallFields, KeysAssumption
<1> DEFINE e == t.cnt[o]
<1>6. InnerSays(heap, t, o) /\ t.lev[o] > 0
  <2>1. t.lev[o] # 0
    BY <1>1, <1>4 DEF Says, LeafSays, IsLeaf, IsInner
  <2> QED
    BY <1>4, <2>1, Numbers DEF Says
<1>7. /\ e \in Nat /\ e >= 1 /\ n.slotsinuse = e /\ n.numChildren = e + 1
      /\ \A i \in 0 .. e - 1 : n.keySlots[i] = t.ks[o][i]
      /\ \A i \in 0 .. e : /\ n.firstChild[i] = t.ch[o][i] /\ t.ch[o][i] \in t.G
                           /\ t.ch[o][i] # NULL /\ IsChild(t, o, i)
  BY <1>4, <1>6, ChildSpans, Numbers DEF InnerSays
<1> HIDE DEF o, n, k, e
<1>8. \E i \in 0 .. e : /\ to = t.ch[o][i]
                        /\ above = {} => i = e
  <2>1. CASE above = {}
    BY <1>7, <2>1 DEF getChild
  <2>2. CASE above # {}
    <3>1. above \in SUBSET Nat /\ above \subseteq 0 .. e - 1
      BY <1>7 DEF SlotsAbove
    <3>2. Least(above) \in 0 .. e - 1
      BY <2>2, <3>1, LeastIsMember
    <3> DEFINE j == Least(above)
    <3>3. j \in 0 .. e /\ ~(j < 0) /\ ~(j > e) /\ ~(e + 1 <= e)
      BY <1>7, <3>2
    <3> HIDE DEF j
    <3>4. getChild(n, j) = t.ch[o][j] /\ getChild(n, j) # NULL
      BY <1>7, <3>3 DEF getChild
    <3>5. to = t.ch[o][j]
      <4> HIDE DEF above
      <4> QED
        BY <1>7, <2>2, <3>3, <3>4 DEF j
    <3> QED
      BY <2>2, <3>3, <3>5
  <2> QED
    BY <2>1, <2>2
<1>9. call.op = "insert" => above = {} /\ t.hi[o] = t.top /\ k >= t.top
  <2> SUFFICES ASSUME call.op = "insert" PROVE above = {} /\ t.hi[o] = t.top /\ k >= t.top
    OBVIOUS
  <2>1. t.hi[o] = t.top /\ k >= t.top
    BY <1>4 DEF Looking, o, k
  <2>2. ASSUME NEW i \in 0 .. e - 1 PROVE ~(n.keySlots[i] > k)
    <3>1. i \in 0 .. e /\ i # e
      BY <1>7
    <3>2. /\ t.ch[o][i] \in t.G /\ t.hi[t.ch[o][i]] = t.ks[o][i]
      BY <1>7, <3>1 DEF IsChild, e
    <3>3. t.ks[o][i] \in Int /\ t.ks[o][i] <= t.top /\ t.top \in Int
      BY <1>4, <3>2, Numbers
    <3> QED
      BY <1>5, <1>7, <2>1, <3>3
  <2> QED
    BY <1>7, <2>1, <2>2 DEF SlotsAbove
<1> HIDE DEF to, above
<1>10. Looking(t, "find", [at |-> to], call)
  <2>1. PICK i \in 0 .. e : to = t.ch[o][i] /\ (above = {} => i = e)
    BY <1>8
  <2>2. to \in t.G
    BY <1>7, <2>1
  <2>3. call.op = "insert" => t.hi[to] = t.top /\ k >= t.top
    <3> SUFFICES ASSUME call.op = "insert" PROVE t.hi[to] = t.top /\ k >= t.top
      OBVIOUS
    <3>1. i = e /\ i \in 0 .. e
      BY <1>9, <2>1
    <3>2. t.hi[t.ch[o][i]] = t.hi[o]
      BY <1>7, <3>1 DEF IsChild, e
    <3> QED
      BY <1>9, <2>1, <3>2
  <2> QED
    BY <2>2, <2>3 DEF Looking, k
<1>11. Shape(heap, t, "find", [at |-> to], call, root)
  BY <1>4, <1>10 DEF Shape
<1> QED
  BY <1>1, <1>2, <1>3, <1>11 DEF Grown

\* On to the next leaf; an insertion is in the last one already.
LEMMA FindNextLeafKeepsShape ==
    ASSUME AppendInv, FindNextLeaf
    PROVE  Grown'
<1> DEFINE o == local.at
           to == heap[o].nextLeaf
<1>1. /\ pc = "find" /\ IsLeaf(heap, o) /\ local' = [at |-> to] /\ to # NULL
      /\ UNCHANGED <<heap, root, totalkeycount, pc, call>>
  BY DEF FindNextLeaf, StopsAt
<1>2. root # NULL
  BY <1>1, Shaped
<1>3. PICK t : Shape(heap, t, pc, local, call, root) /\ totalkeycount = Cardinality(Pairs(heap, t))
  BY <1>1, Shaped
<1>4. /\ Resting(heap, t, root) /\ SearchTree(t) /\ o \in t.G
      /\ Looking(t, "find", local, call) /\ Says(heap, t, o)
  BY <1>1, <1>3, AtFind
<1>5. t.lev[o] = 0
  BY <1>1, <1>4 DEF Says, InnerSays, IsLeaf, IsInner
<1>6. After(heap, t, NULL, o)
  BY <1>4, <1>5, RestingNode
<1>7. PICK b : Follows(t, o, b) /\ (heap[o].nextLeaf = b \/ b = NULL)
  BY <1>1, <1>6 DEF After
<1>8. b \in t.G /\ t.lo[b] = t.hi[o] /\ b = to /\ t.lo[b] < t.top
  <2>1. b \in t.G /\ t.lo[b] = t.hi[o]
    BY <1>7 DEF Follows
  <2>2. /\ b # NULL /\ t.lo[b] \in Int /\ t.hi[b] \in Int /\ t.top \in Int
        /\ t.lo[b] < t.hi[b] /\ t.hi[b] <= t.top
    BY <1>4, <2>1, Numbers
  <2> QED
    BY <1>7, <2>1, <2>2
<1>9. call.op # "insert"
  <2> SUFFICES ASSUME call.op = "insert" PROVE FALSE
    OBVIOUS
  <2>1. t.hi[o] = t.top
    BY <1>4 DEF Looking
  <2>2. t.top \in Int
    BY <1>4, Numbers
  <2> QED
    BY <1>8, <2>1, <2>2
<1> HIDE DEF to
<1>10. Looking(t, "find", [at |-> to], call)
  BY <1>8, <1>9 DEF Looking
<1>11. Shape(heap, t, "find", [at |-> to], call, root)
  BY <1>4, <1>10 DEF Shape
<1> QED
  BY <1>1, <1>2, <1>3, <1>11 DEF Grown

\* The search ends at a leaf.
LEMMA FindLeafKeepsShape ==
    ASSUME AppendInv, FindLeaf
    PROVE  Grown'
<1> DEFINE o == local.at
<1>1. /\ pc = "find" /\ IsLeaf(heap, o) /\ pc' = call.op
      /\ UNCHANGED <<heap, root, totalkeycount, local, call>>
  BY DEF FindLeaf
<1>2. root # NULL
  BY <1>1, Shaped
<1>3. PICK t : Shape(heap, t, pc, local, call, root) /\ totalkeycount = Cardinality(Pairs(heap, t))
  BY <1>1, Shaped
<1>4. /\ Resting(heap, t, root) /\ SearchTree(t) /\ o \in t.G
      /\ Looking(t, "find", local, call) /\ Says(heap, t, o) /\ call \in Calling
  BY <1>1, <1>3, AtFind
<1>5. t.lev[o] = 0
  BY <1>1, <1>4 DEF Says, InnerSays, IsLeaf, IsInner
<1>6. call.op \in {"insert", "get"}
  <2>1. call.op \in Ops /\ call.op \in {"none", "insert", "get"}
    BY <1>4, CallFields DEF AppendInv, RootInv, InsertInv, Filled
  <2> QED
    BY <2>1 DEF Ops
<1>7. Looking(t, call.op, local, call)
  BY <1>4, <1>5 DEF Looking
<1>8. Shape(heap, t, call.op, local, call, root)
  BY <1>4, <1>6, <1>7 DEF Shape
<1> QED
  BY <1>1, <1>2, <1>3, <1>6, <1>8 DEF Grown

-----------------------------------------------------------------------------
\* In g the pairs of the full leaf o of h and the key k are divided between the leaves
\* a and b at the key kk.
LeafDivided(h, g, o, a, b, k, kk) ==
    LET n == h[o].slotsinuse
        half == n \div 2
    IN  /\ g \in Heap /\ g # Fault /\ IsLeaf(g, a) /\ IsLeaf(g, b)
        /\ half \in Nat /\ 1 <= half /\ half < n /\ n = LeafSlots /\ n \in Nat
        /\ g[a].slotsinuse = half /\ ~g[a].isrootnode
        /\ g[a].nextLeaf = b /\ g[a].prevLeaf = NULL
        /\ g[b].slotsinuse = n + 1 - half /\ ~g[b].isrootnode
        /\ g[b].nextLeaf = NULL /\ g[b].prevLeaf = a
        /\ \A i \in 0 .. half - 1 : g[a].keySlots[i] = h[o].keySlots[i]
        /\ \A i \in 0 .. n - half :
              g[b].keySlots[i] = IF half + i < n THEN h[o].keySlots[half + i] ELSE k
        /\ kk = h[o].keySlots[half]
        /\ \A m \in NodeIds \ {a, b} : g[m] = h[m]

\* The two leaves of a split.
LEMMA LeafDivides ==
    ASSUME NEW h \in Heap, NEW o, IsLeaf(h, o), isfull(h[o]), NEW k \in Keys, NEW d \in DataSlot,
           \A i \in 0 .. h[o].slotsinuse - 1 : h[o].keySlots[i] \in Keys /\ h[o].keySlots[i] < k,
           NEW a \in NodeIds, NEW b \in NodeIds, a # b, a # o, b # o
    PROVE  LET s == SplitLeaf(h[o], k, d)
           IN  LeafDivided(h, new(new(h, a, [s.ln EXCEPT !.nextLeaf = b]),
                                  b, [s.lp EXCEPT !.prevLeaf = a]), o, a, b, k, s.lp.keySlots[0])
<1> DEFINE s == SplitLeaf(h[o], k, d)
           n == h[o].slotsinuse
           half == n \div 2
           x == [s.ln EXCEPT !.nextLeaf = b]
           y == [s.lp EXCEPT !.prevLeaf = a]
           g == new(new(h, a, x), b, y)
<1>1. h[o] \in leafNode /\ k \in KeySlot
  BY LiveTypes DEF KeySlot
<1>2. s.ln \in leafNode /\ s.lp \in leafNode
  BY <1>1, SplitLeafTypes
<1>3. /\ half \in Nat /\ 1 <= half /\ half < n /\ n = LeafSlots /\ n \in Nat
      /\ s.ln.isleafnode = TRUE /\ s.ln.isrootnode = FALSE /\ s.ln.slotsinuse = half
      /\ s.ln.parent = NULL /\ s.ln.nextLeaf = NULL /\ s.ln.prevLeaf = NULL
      /\ s.lp.isleafnode = TRUE /\ s.lp.isrootnode = FALSE
      /\ s.lp.slotsinuse = n + 1 - half
      /\ s.lp.parent = NULL /\ s.lp.nextLeaf = NULL /\ s.lp.prevLeaf = NULL
      /\ \A i \in 0 .. half - 1 : s.ln.keySlots[i] = h[o].keySlots[i]
      /\ \A i \in 0 .. n - half :
            s.lp.keySlots[i] = IF half + i < n THEN h[o].keySlots[half + i] ELSE k
  <2>1. SplitAppends(h[o], s, k)
    BY <1>1, SplitLeafAppends
  <2> HIDE DEF s
  <2> QED
    BY <2>1 DEF SplitAppends
<1> HIDE DEF s
<1>4. x \in leafNode /\ y \in leafNode
  <2>1. a \in Pointer /\ b \in Pointer
    BY DEF Pointer
  <2> QED
    BY <1>2, <2>1, LeafUpdates DEF leafNode
<1>5. /\ x.isleafnode /\ ~x.isrootnode /\ x.slotsinuse = half /\ x.nextLeaf = b
      /\ x.prevLeaf = NULL /\ x.keySlots = s.ln.keySlots
      /\ y.isleafnode /\ ~y.isrootnode /\ y.slotsinuse = n + 1 - half /\ y.nextLeaf = NULL
      /\ y.prevLeaf = a /\ y.keySlots = s.lp.keySlots
  BY <1>2, <1>3 DEF leafNode
<1> HIDE DEF x, y
<1>6. /\ new(h, a, x) \in Heap /\ new(h, a, x)[a] = x
      /\ \A m \in NodeIds \ {a} : new(h, a, x)[m] = h[m]
  BY <1>4, NewInHeap DEF node
<1>7. /\ g \in Heap /\ g[b] = y /\ Live(g, b) /\ \A m \in NodeIds \ {b} : g[m] = new(h, a, x)[m]
  <2> DEFINE f == new(h, a, x)
  <2>1. f \in Heap /\ y \in node
    BY <1>4, <1>6 DEF node
  <2> HIDE DEF f
  <2> QED
    BY <2>1, NewInHeap DEF f
<1> HIDE DEF g
<1>8. g[a] = x /\ Live(g, a) /\ \A m \in NodeIds \ {a, b} : g[m] = h[m]
  <2>1. x # Free
    BY <1>4, FreeAssumption DEF node
  <2> QED
    BY <1>6, <1>7, <2>1 DEF Live
<1>9. IsLeaf(g, a) /\ IsLeaf(g, b) /\ g # Fault
  BY <1>5, <1>7, <1>8 DEF IsLeaf, Live, Fault
<1>10. s.lp.keySlots[0] = h[o].keySlots[half]
  <2>1. 0 \in 0 .. n - half /\ half + 0 < n /\ half + 0 = half
    BY <1>3
  <2> HIDE DEF half, n
  <2> QED
    BY <1>3, <2>1
<1>11. LeafDivided(h, g, o, a, b, k, s.lp.keySlots[0])
  BY <1>3, <1>5, <1>7, <1>8, <1>9, <1>10 DEF LeafDivided
<1> QED
  BY <1>11 DEF g, x, y, s

\* The last leaf is replaced by its halves in the tree.
LEMMA LeafReplaced ==
    ASSUME NEW h \in Heap, NEW t, NEW r, Resting(h, t, r), NEW o \in t.G, t.lev[o] = 0,
           t.hi[o] = t.top, NEW k \in Keys, k >= t.top,
           NEW a \in NodeIds \ t.G, NEW b \in NodeIds \ t.G, a # b,
           NEW kk, NEW g, LeafDivided(h, g, o, a, b, k, kk),
           NEW l, l.parent = h[o].parent, l.N = a, l.Nprime = b, l.k = kk, l.n = o, l.leaked = {}
    PROVE  \E u : /\ Rising(g, u, l, r)
                  /\ Cardinality(Pairs(g, u)) = Cardinality(Pairs(h, t)) + 1
<1> DEFINE n == h[o].slotsinuse
           half == n \div 2
           v == Raise(t, k)
           u == Replace(v, o, a, b, kk, 0)
           key(i) == h[o].keySlots[i]
<1>1. /\ SearchTree(t) /\ IsFiniteSet(t.G) /\ Says(h, t, o) /\ h[o].parent = t.par[o]
      /\ o \in NodeIds /\ k \in Int
  BY RestingNode, Numbers, KeysAssumption
<1>2. /\ g \in Heap /\ g # Fault /\ IsLeaf(g, a) /\ IsLeaf(g, b)
      /\ half \in Nat /\ 1 <= half /\ half < n /\ n = LeafSlots /\ n \in Nat
      /\ g[a].slotsinuse = half /\ ~g[a].isrootnode
      /\ g[a].nextLeaf = b /\ g[a].prevLeaf = NULL
      /\ g[b].slotsinuse = n + 1 - half /\ ~g[b].isrootnode
      /\ g[b].nextLeaf = NULL /\ g[b].prevLeaf = a
      /\ \A i \in 0 .. half - 1 : g[a].keySlots[i] = key(i)
      /\ \A i \in 0 .. n - half :
            g[b].keySlots[i] = IF half + i < n THEN key(half + i) ELSE k
      /\ kk = key(half)
      /\ \A m \in NodeIds \ {a, b} : g[m] = h[m]
  BY DEF LeafDivided
<1>3. half = LeafSlots \div 2
  BY <1>2
<1>4. /\ \A i \in 0 .. n - 1 : /\ key(i) \in Keys /\ key(i) \in Int
                               /\ t.lo[o] <= key(i) /\ key(i) < k
      /\ \A i, j \in 0 .. n - 1 : i < j => key(i) < key(j)
  BY <1>1, LastKeys DEF Says, LeafSays
<1>5. /\ SearchTree(v) /\ IsFiniteSet(v.G) /\ Crown(v, r) /\ v.G = t.G /\ v.par = t.par
      /\ v.lev = t.lev /\ v.lo = t.lo /\ v.hi[o] = v.top /\ v.top = k + 1
      /\ \A m \in t.G : /\ m # o => Says(h, v, m)
                        /\ Fit(h, v, m) /\ h[m].parent = v.par[m]
                        /\ t.lev[m] = 0 => After(h, v, NULL, m) /\ Before(h, v, NULL, m)
  BY <1>1, RaiseStands
<1>6. t.lo[o] \in Int /\ kk \in Keys /\ kk \in Int /\ t.lo[o] < kk /\ kk < k
  <2>1. 0 \in 0 .. n - 1 /\ half \in 0 .. n - 1 /\ 0 < half
    BY <1>2
  <2>2. key(0) \in Int /\ t.lo[o] <= key(0) /\ key(0) < key(half) /\ key(half) \in Int
        /\ key(half) \in Keys /\ key(half) < k
    BY <1>4, <2>1
  <2>3. t.lo[o] \in Int
    BY <1>1, Numbers
  <2> HIDE DEF key
  <2> QED
    BY <1>2, <2>2, <2>3
<1> HIDE DEF v
<1>7. /\ u.G = (t.G \ {o}) \cup {a, b} /\ u.top = k + 1
      /\ u.lev[a] = 0 /\ u.lev[b] = 0
      /\ \A m \in NodeIds : m \notin {a, b} => u.lev[m] = t.lev[m]
      /\ u.lo[a] = t.lo[o] /\ u.hi[a] = kk /\ u.lo[b] = kk /\ u.hi[b] = k + 1
  BY <1>5, ReplaceFields
<1> HIDE DEF u, key, half, n
<1>8. Says(g, u, a)
  <2>1. \A i \in 0 .. half - 1 : i \in 0 .. n - 1 /\ i < half
    BY <1>2
  <2>2. half \in 0 .. n - 1
    BY <1>2
  <2>3. \A i \in 0 .. half - 1 : g[a].keySlots[i] \in Keys /\ t.lo[o] <= g[a].keySlots[i]
                                 /\ g[a].keySlots[i] < kk
    BY <1>2, <1>4, <2>1, <2>2
  <2>4. \A i, j \in 0 .. half - 1 : i < j => g[a].keySlots[i] < g[a].keySlots[j]
    BY <1>2, <1>4, <2>1
  <2>5. kk # k + 1
    BY <1>1, <1>6
  <2>6. LeafSays(g, u, a)
    BY <1>2, <1>7, <2>3, <2>4, <2>5 DEF LeafSays
  <2> QED
    BY <1>7, <2>6 DEF Says
<1>9. Says(g, u, b)
  <2> DEFINE s == n + 1 - half
  <2>1. s - 1 = n - half /\ s >= 1 /\ s - 1 \in 0 .. s - 1 /\ half + (s - 1) = n
        /\ ~(half + (s - 1) < n)
    BY <1>2
  <2>2. \A i \in 0 .. s - 1 : /\ i \in 0 .. n - half /\ half + i \in Int /\ half <= half + i
                              /\ half + i < n => half + i \in 0 .. n - 1
    BY <1>2, <2>1
  <2>3. half \in 0 .. n - 1
    BY <1>2
  <2>4. ASSUME NEW i \in 0 .. s - 1
        PROVE  g[b].keySlots[i] \in Keys /\ kk <= g[b].keySlots[i] /\ g[b].keySlots[i] < k + 1
    <3>1. CASE half + i < n
      <4>1. g[b].keySlots[i] = key(half + i) /\ half + i \in 0 .. n - 1
        BY <1>2, <2>2, <3>1
      <4>2. key(half + i) \in Keys /\ key(half + i) \in Int /\ key(half + i) < k
        BY <1>4, <4>1
      <4>3. half + i = half \/ half < half + i
        BY <1>2, <2>2
      <4>4. key(half) <= key(half + i)
        <5>1. CASE half + i = half
          BY <1>2, <1>6, <5>1
        <5>2. CASE half < half + i
          <6>1. key(half) < key(half + i)
            BY <1>4, <2>3, <4>1, <5>2
          <6> QED
            BY <1>2, <1>6, <4>2, <6>1
        <5> QED
          BY <4>3, <5>1, <5>2
      <4> QED
        BY <1>1, <1>2, <4>1, <4>2, <4>4
    <3>2. CASE ~(half + i < n)
      <4>1. g[b].keySlots[i] = k
        BY <1>2, <2>2, <3>2
      <4> QED
        BY <1>1, <1>6, <4>1
    <3> QED
      BY <3>1, <3>2
  <2>5. ASSUME NEW i \in 0 .. s - 1, NEW j \in 0 .. s - 1, i < j
        PROVE  g[b].keySlots[i] < g[b].keySlots[j]
    <3>1. half + i < half + j /\ half + i < n
      BY <1>2, <2>1, <2>5
    <3>2. g[b].keySlots[i] = key(half + i) /\ half + i \in 0 .. n - 1
      BY <1>2, <2>2, <3>1
    <3>3. CASE half + j < n
      <4>1. g[b].keySlots[j] = key(half + j) /\ half + j \in 0 .. n - 1
        BY <1>2, <2>2, <3>3
      <4> QED
        BY <1>4, <3>1, <3>2, <4>1
    <3>4. CASE ~(half + j < n)
      <4>1. g[b].keySlots[j] = k
        BY <1>2, <2>2, <3>4
      <4> QED
        BY <1>4, <3>2, <4>1
    <3> QED
      BY <3>3, <3>4
  <2>6. g[b].keySlots[s - 1] = k
    BY <1>2, <2>1, <2>2
  <2>7. g[b].slotsinuse = s /\ (k + 1) - 1 = k
    BY <1>1, <1>2
  <2> HIDE DEF s
  <2>8. LeafSays(g, u, b)
    BY <1>2, <1>7, <2>1, <2>4, <2>5, <2>6, <2>7 DEF LeafSays
  <2> QED
    BY <1>7, <2>8 DEF Says
<1>10. HalfFull(g, u, a) /\ HalfFull(g, u, b)
  <2>1. n + 1 - half >= half /\ half >= half
    BY <1>2 DEF half
  <2> QED
    BY <1>2, <1>3, <1>7, <2>1 DEF HalfFull
<1>11. ASSUME NEW m \in t.G
       PROVE  /\ m \in NodeIds /\ m # a /\ m # b /\ g[m] = h[m] /\ t.par[m] # o
  <2>1. m \in NodeIds
    BY <1>1, Numbers
  <2>2. t.par[m] # o
    <3>1. t.par[m] = o => o # NULL /\ t.lev[o] > 0
      BY <1>1, Numbers DEF SearchTree, Hung
    <3> QED
      BY <3>1
  <2> QED
    BY <1>2, <2>1, <2>2
<1>12. ASSUME NEW m \in t.G \ {o}
       PROVE  /\ Says(g, v, m) /\ Fit(g, v, m)
              /\ g[m].parent = IF v.par[m] # o THEN v.par[m] ELSE IF v.ix[m] <= 0 THEN a ELSE b
  <2>1. Says(h, v, m) /\ Fit(h, v, m) /\ h[m].parent = v.par[m] /\ v.par[m] # o
    BY <1>5, <1>11
  <2>2. Says(g, v, m)
    <3>1. SameBody(h[m], g[m]) /\ Agree(v, v, m) /\ g[m] = h[m]
      BY <1>11 DEF SameBody, Agree
    <3> QED
      BY <2>1, <3>1 DEF Says, LeafSays, InnerSays, IsLeaf, IsInner, Live
  <2>3. Fit(g, v, m)
    BY <1>11, <2>1 DEF Fit, HalfFull
  <2> QED
    BY <1>11, <2>1, <2>2, <2>3
<1>13. \A m \in v.G : v.lev[m] = 0 => After(g, v, NULL, m) /\ Before(g, v, NULL, m)
  BY <1>5, <1>11 DEF After, Before
<1>14. Stands(g, u, v.par[o], {a, b}, a)
  <2>1. kk < v.hi[o] /\ v.lo[o] < kk /\ 0 \in Nat /\ ~(v.lev[o] > 0) /\ v.lev[o] = 0
    BY <1>1, <1>5, <1>6
  <2>2. /\ o \in v.G /\ v.hi[o] = v.top /\ a \in NodeIds \ v.G /\ b \in NodeIds \ v.G /\ a # b
        /\ u = Replace(v, o, a, b, kk, 0) /\ g \in Heap /\ kk \in Keys
        /\ SearchTree(v) /\ IsFiniteSet(v.G)
    BY <1>2, <1>5, <1>6 DEF u
  <2>3. /\ \A m \in v.G \ {o} :
              /\ Says(g, v, m) /\ Fit(g, v, m)
              /\ g[m].parent = IF v.par[m] # o THEN v.par[m] ELSE IF v.ix[m] <= 0 THEN a ELSE b
    BY <1>5, <1>12
  <2>4. v.lev[o] > 0 => 0 >= 1 /\ 0 + 2 <= v.cnt[o] /\ kk = v.ks[o][0]
    BY <2>1
  <2>5. v.lev[o] = 0 => /\ g[a].nextLeaf = b /\ g[a].prevLeaf = NULL
                        /\ g[b].nextLeaf = NULL /\ g[b].prevLeaf = a
    BY <1>2
  <2>6. Halved(g, v, o, a, b, kk, 0, u)
    BY <1>8, <1>9, <1>10, <1>13, <2>1, <2>2, <2>3, <2>4, <2>5 DEF Halved
  <2> QED
    BY <2>6, HalvesStand
<1>15. SearchTree(u)
  BY <1>14 DEF Stands
<1>16. Climbing(g, u, l, r)
  <2>1. kk < v.hi[o] /\ v.lo[o] < kk /\ 0 \in Nat /\ v.lev[o] = 0
    BY <1>1, <1>5, <1>6
  <2>2. l.parent = v.par[o]
    BY <1>1, <1>5
  <2>3. v.par[o] # NULL => Says(g, v, v.par[o])
    <3>1. v.par[o] # NULL => v.par[o] \in t.G /\ v.par[o] # o
      BY <1>1, <1>5, <1>11, Numbers
    <3> QED
      BY <1>12, <3>1
  <2>4. Live(g, o) /\ (IsLeaf(g, o) <=> v.lev[o] = 0)
    <3>1. IsLeaf(h, o)
      BY <1>1 DEF Says, LeafSays
    <3> QED
      BY <1>11, <2>1, <3>1 DEF IsLeaf, Live
  <2>5. ({o} \cup {}) \cap v.G \subseteq {o} /\ o \in {o} \cup {} /\ a \notin {o} \cup {}
        /\ b \notin {o} \cup {}
    OBVIOUS
  <2>6. o \in v.G /\ v.hi[o] = v.top /\ a \in NodeIds \ v.G /\ b \in NodeIds \ v.G
    BY <1>5
  <2>7. u = Replace(v, o, a, b, kk, 0)
    BY DEF u
  <2>8. /\ ({l.n} \cup l.leaked) \cap v.G \subseteq {o} /\ o \in {l.n} \cup l.leaked
        /\ a \notin {l.n} \cup l.leaked /\ b \notin {l.n} \cup l.leaked
    BY <2>5, <1>11
  <2>9. g \in Heap /\ SearchTree(v) /\ Crown(v, r) /\ kk \in Keys
    BY <1>2, <1>5, <1>6
  <2>10. l.N = a /\ l.Nprime = b /\ l.k = kk
    OBVIOUS
  <2>11. l.n = o
    OBVIOUS
  <2> DEFINE c == l.n
             K == l.leaked
  <2>12. Live(g, c) /\ l.n = c /\ l.leaked = K
    BY <2>4, <2>11
  <2>13. /\ ({c} \cup K) \cap v.G \subseteq {o} /\ o \in {c} \cup K
         /\ a \notin {c} \cup K /\ b \notin {c} \cup K
    BY <2>8
  <2> HIDE DEF c, K
  <2> QED
    BY <1>10, <1>15, <2>1, <2>2, <2>3, <2>4, <2>6, <2>7, <2>9, <2>10, <2>12, <2>13, ReplaceClimbs
<1>17. Rising(g, u, l, r)
  BY <1>1, <1>5, <1>14, <1>16 DEF Rising
<1>18. Cardinality(Pairs(g, u)) = Cardinality(Pairs(h, t)) + 1
  <2> DEFINE c == half
             d == n + 1 - half
  <2>1. /\ c \in Nat /\ d \in Nat /\ c + d = h[o].slotsinuse + 1 /\ c <= LeafSlots
        /\ d <= LeafSlots /\ h[o].slotsinuse \in Nat /\ h[o].slotsinuse <= LeafSlots
        /\ g[a].slotsinuse = c /\ g[b].slotsinuse = d
    BY <1>2 DEF n
  <2>2. \A m \in t.G \ {o} : u.lev[m] = t.lev[m] /\ g[m].slotsinuse = h[m].slotsinuse
    BY <1>7, <1>11
  <2>3. IsFiniteSet(t.G) /\ u.G = (t.G \ {o}) \cup {a, b} /\ u.lev[a] = 0 /\ u.lev[b] = 0
        /\ a \notin t.G /\ b \notin t.G
    BY <1>1, <1>7
  <2> HIDE DEF c, d
  <2> QED
    BY <2>1, <2>2, <2>3, PairsDivided
<1> QED
  BY <1>17, <1>18

\* A full leaf is split.
LEMMA SplitFullLeafKeepsShape ==
    ASSUME AppendInv, SplitFullLeaf
    PROVE  Grown'
<1> DEFINE o == local.at
           a == FirstId
           b == SecondId
           s == SplitLeaf(heap[o], call.key, call.data)
           g == new(new(heap, a, [s.ln EXCEPT !.nextLeaf = b]), b, [s.lp EXCEPT !.prevLeaf = a])
           l == [parent |-> heap[o].parent, N |-> a, k |-> s.lp.keySlots[0], Nprime |-> b,
                 n |-> o, leaked |-> {}]
<1>1. /\ pc = "insert" /\ isfull(heap[o]) /\ CanAllocate /\ Go(g, "insert_in_parent", l)
      /\ totalkeycount' = totalkeycount + 1 /\ UNCHANGED <<root, call>>
  BY DEF SplitFullLeaf
<1>2. root # NULL /\ heap \in Heap
  BY <1>1, Shaped
<1>3. PICK t : Shape(heap, t, pc, local, call, root) /\ totalkeycount = Cardinality(Pairs(heap, t))
  BY <1>1, Shaped
<1>4. /\ Resting(heap, t, root) /\ SearchTree(t) /\ o \in t.G /\ t.lev[o] = 0 /\ t.hi[o] = t.top
      /\ call.key \in Keys /\ call.key >= t.top /\ call.data \in DataSlot
      /\ IsLeaf(heap, o) /\ Says(heap, t, o)
  BY <1>1, <1>3, AtInsert
<1>5. \A i \in 0 .. heap[o].slotsinuse - 1 :
         heap[o].keySlots[i] \in Keys /\ heap[o].keySlots[i] < call.key
  BY <1>2, <1>4, LastKeys
<1>6. /\ a \in NodeIds /\ b \in NodeIds /\ a # b /\ heap[a] = Free /\ heap[b] = Free
  BY <1>1, Addresses
<1>7. \A m \in t.G : heap[m] # Free
  BY <1>4, RestingNode DEF Says, LeafSays, InnerSays, IsLeaf, IsInner, Live
<1>8. a \notin t.G /\ b \notin t.G /\ a # o /\ b # o
  BY <1>4, <1>6, <1>7
<1> HIDE DEF a, b, o
<1>9. LeafDivided(heap, g, o, a, b, call.key, s.lp.keySlots[0])
  BY <1>1, <1>2, <1>4, <1>5, <1>6, <1>8, LeafDivides, Zenon
<1>10. /\ l.parent = heap[o].parent /\ l.N = a /\ l.Nprime = b /\ l.k = s.lp.keySlots[0]
       /\ l.n = o /\ l.leaked = {}
  OBVIOUS
<1> HIDE DEF g, s, l
<1>11. PICK u : /\ Rising(g, u, l, root)
                /\ Cardinality(Pairs(g, u)) = Cardinality(Pairs(heap, t)) + 1
  BY <1>2, <1>4, <1>6, <1>8, <1>9, <1>10, LeafReplaced
<1>12. Shape(g, u, "insert_in_parent", l, call', root')
  BY <1>1, <1>11 DEF Shape
<1>13. g # Fault
  BY <1>9 DEF LeafDivided
<1> QED
  BY <1>1, <1>2, <1>3, <1>11, <1>12, <1>13, GoGrows

-----------------------------------------------------------------------------
\* The keys of a last node: the last is the largest.
LEMMA LastKeyAbove ==
    ASSUME NEW t, SearchTree(t), NEW P \in t.G, t.lev[P] > 0, t.hi[P] = t.top,
           NEW s \in Nat, t.cnt[P] = s + 1, NEW i \in 0 .. s - 1
    PROVE  t.ks[P][i] < t.ks[P][s]
<1> DEFINE a == t.ch[P][i + 1]
           b == t.ch[P][s + 1]
<1>1. /\ i + 1 \in 0 .. s + 1 /\ i + 1 # 0 /\ (i + 1) - 1 = i /\ s + 1 \in 0 .. s + 1 /\ s + 1 # 0
      /\ (s + 1) - 1 = s /\ i + 1 # s + 1
  OBVIOUS
<1>2. IsChild(t, P, i + 1) /\ IsChild(t, P, s + 1)
  BY <1>1, ChildSpans
<1>3. /\ a \in t.G /\ b \in t.G /\ t.lev[a] + 1 = t.lev[P] /\ t.lev[b] + 1 = t.lev[P]
      /\ t.ix[a] = i + 1 /\ t.ix[b] = s + 1
      /\ t.lo[a] = t.ks[P][i] /\ t.lo[b] = t.ks[P][s] /\ t.hi[b] = t.top
  BY <1>1, <1>2 DEF IsChild
<1> HIDE DEF a, b
<1>4. /\ t.lev[a] \in Nat /\ t.lev[b] \in Nat /\ t.lo[a] \in Int /\ t.lo[b] \in Int
      /\ t.hi[a] \in Int /\ t.hi[b] \in Int /\ t.top \in Int
      /\ t.lo[a] < t.hi[a] /\ t.hi[a] <= t.top
  BY <1>3, Numbers
<1>5. t.lev[a] = t.lev[b] /\ a # b
  BY <1>1, <1>3, <1>4
<1>6. t.hi[a] <= t.lo[b] \/ t.hi[b] <= t.lo[a]
  BY <1>3, <1>5 DEF SearchTree, Apart
<1> QED
  BY <1>3, <1>4, <1>6

\* Children beside each other.
LEMMA Siblings ==
    ASSUME NEW t, SearchTree(t), NEW P \in t.G, t.lev[P] > 0, NEW i \in 0 .. t.cnt[P] - 1
    PROVE  LET a == t.ch[P][i]
               b == t.ch[P][i + 1]
           IN  /\ a \in t.G /\ b \in t.G /\ a # b /\ t.lev[a] = t.lev[b] /\ t.hi[a] = t.lo[b]
               /\ t.lev[a] + 1 = t.lev[P]
               /\ t.lev[a] = 0 => Follows(t, a, b)
<1> DEFINE a == t.ch[P][i]
           b == t.ch[P][i + 1]
           e == t.cnt[P]
<1>1. e \in Nat
  BY ChildSpans
<1>2. /\ i \in 0 .. e /\ i + 1 \in 0 .. e /\ i + 1 # 0 /\ (i + 1) - 1 = i /\ i # e /\ i # i + 1
  <2> HIDE DEF e
  <2>1. i \in 0 .. e - 1
    BY DEF e
  <2> QED
    BY <1>1, <2>1
<1>3. IsChild(t, P, i) /\ IsChild(t, P, i + 1)
  BY <1>2, ChildSpans
<1>4. /\ a \in t.G /\ b \in t.G /\ t.lev[a] + 1 = t.lev[P] /\ t.lev[b] + 1 = t.lev[P]
      /\ t.ix[a] = i /\ t.ix[b] = i + 1 /\ t.hi[a] = t.ks[P][i] /\ t.lo[b] = t.ks[P][i]
  BY <1>2, <1>3 DEF IsChild
<1> HIDE DEF a, b
<1>5. t.lev[a] \in Nat /\ t.lev[b] \in Nat
  BY <1>4, Numbers
<1>6. t.lev[a] = t.lev[b] /\ a # b
  BY <1>2, <1>4, <1>5
<1>7. t.lev[a] = 0 => Follows(t, a, b)
  BY <1>4, <1>6 DEF Follows
<1> QED
  BY <1>4, <1>6, <1>7 DEF a, b

\* A leaf has one follower and follows one leaf.
LEMMA OneFollower ==
    ASSUME NEW t, SearchTree(t), NEW a, NEW b, NEW c
    PROVE  /\ Follows(t, a, b) /\ Follows(t, a, c) => b = c
           /\ Follows(t, a, c) /\ Follows(t, b, c) => a = b
           /\ Follows(t, a, c) => t.lo[c] # t.bot /\ t.hi[a] # t.top /\ a # c
<1>1. ASSUME Follows(t, a, c) PROVE t.lo[c] # t.bot /\ t.hi[a] # t.top /\ a # c
  <2>1. a \in t.G /\ c \in t.G /\ t.lo[c] = t.hi[a]
    BY <1>1 DEF Follows
  <2> QED
    BY <2>1, Numbers
<1>2. Follows(t, a, b) /\ Follows(t, a, c) => b = c
  BY Unique DEF Follows
<1>3. Follows(t, a, c) /\ Follows(t, b, c) => a = b
  BY Unique DEF Follows
<1> QED
  BY <1>1, <1>2, <1>3

-----------------------------------------------------------------------------
\* A heap with the same nodes holds the same tree.
LEMMA StandsSame ==
    ASSUME NEW h, NEW g, NEW t, NEW W, NEW F, NEW X, Stands(h, t, W, F, X),
           \A m \in t.G : g[m] = h[m]
    PROVE  Stands(g, t, W, F, X)
<1> SUFFICES ASSUME NEW m \in t.G
             PROVE  /\ m # W => Says(g, t, m)
                    /\ Fit(g, t, m)
                    /\ m \notin F => g[m].parent = t.par[m]
                    /\ t.lev[m] = 0 => After(g, t, X, m) /\ Before(g, t, X, m)
  BY DEF Stands
<1>1. /\ m # W => Says(h, t, m)
      /\ Fit(h, t, m)
      /\ m \notin F => h[m].parent = t.par[m]
      /\ t.lev[m] = 0 => After(h, t, X, m) /\ Before(h, t, X, m)
  BY DEF Stands
<1>2. g[m] = h[m]
  OBVIOUS
<1>3. m # W => Says(g, t, m)
  BY <1>1, <1>2 DEF Says, LeafSays, InnerSays, IsLeaf, IsInner, Live
<1>4. Fit(g, t, m)
  BY <1>1, <1>2 DEF Fit, HalfFull
<1>5. t.lev[m] = 0 => After(g, t, X, m) /\ Before(g, t, X, m)
  BY <1>1, <1>2 DEF After, Before
<1> QED
  BY <1>1, <1>2, <1>3, <1>4, <1>5

\* A heap in which the nodes have the same bodies holds the same tree, if its links and
\* parents are right.
LEMMA StandsKept ==
    ASSUME NEW h \in Heap, NEW g \in Edits(h), g # Fault,
           NEW t, NEW W, NEW F, NEW X, Stands(h, t, W, F, X),
           \A m \in t.G : SameBody(h[m], g[m]),
           \A m \in t.G : m \notin F => g[m].parent = h[m].parent,
           \A m \in t.G : t.lev[m] = 0 =>
               /\ \/ g[m].nextLeaf = h[m].nextLeaf
                  \/ Follows(t, m, g[m].nextLeaf)
                  \/ Follows(t, m, X)
               /\ \/ g[m].prevLeaf = h[m].prevLeaf
                  \/ Follows(t, g[m].prevLeaf, m)
                  \/ m = X /\ \E a : Follows(t, a, X)
    PROVE  Stands(g, t, W, F, X)
<1> SUFFICES ASSUME NEW m \in t.G
             PROVE  /\ m # W => Says(g, t, m)
                    /\ Fit(g, t, m)
                    /\ m \notin F => g[m].parent = t.par[m]
                    /\ t.lev[m] = 0 => After(g, t, X, m) /\ Before(g, t, X, m)
  BY DEF Stands
<1>1. /\ m # W => Says(h, t, m)
      /\ Fit(h, t, m)
      /\ m \notin F => h[m].parent = t.par[m]
      /\ t.lev[m] = 0 => After(h, t, X, m) /\ Before(h, t, X, m)
      /\ SearchTree(t)
  BY DEF Stands
<1>2. SameBody(h[m], g[m]) /\ Agree(t, t, m) /\ m \in NodeIds
      /\ (t.cnt[m] \in Nat \/ t.lev[m] = 0)
  BY <1>1, Numbers DEF Agree
<1>3. m # W => Says(g, t, m)
  BY <1>1, <1>2, SaysKept
<1>4. Fit(g, t, m)
  BY <1>1, <1>2, HalfFullKept DEF Fit
<1>5. ASSUME t.lev[m] = 0 PROVE After(g, t, X, m)
  BY <1>1, <1>5 DEF After
<1>6. ASSUME t.lev[m] = 0 PROVE Before(g, t, X, m)
  BY <1>1, <1>6 DEF Before
<1> QED
  BY <1>1, <1>3, <1>4, <1>5, <1>6

\* What remains to be done after a split is the same.
LEMMA ClimbKept ==
    ASSUME NEW h, NEW g, NEW t, SearchTree(t), NEW l, NEW r, Climbing(h, t, l, r),
           SameBody(h[l.N], g[l.N]), SameBody(h[l.Nprime], g[l.Nprime]),
           l.parent # NULL => SameBody(h[l.parent], g[l.parent]),
           \A m : /\ Live(h, m) => Live(g, m)
                  /\ Live(h, m) => (IsLeaf(g, m) <=> IsLeaf(h, m)),
           NEW e, e.parent = l.parent, e.N = l.N, e.Nprime = l.Nprime, e.k = l.k, e.n = l.n,
           e.leaked = l.leaked
    PROVE  Climbing(g, t, e, r)
<1>1. HalfFull(g, t, l.N) /\ HalfFull(g, t, l.Nprime)
  BY HalfFullKept DEF Climbing, Agree
<1>2. ASSUME l.parent # NULL PROVE Behind(g, t, e)
  <2> DEFINE P == l.parent
             s == h[P].slotsinuse
             O == h[P].firstChild[s]
  <2>1. /\ P \in t.G /\ t.lev[P] > 0 /\ t.hi[P] = t.top
        /\ IsInner(h, P) /\ s >= 1 /\ h[P].numChildren = s + 1 /\ t.cnt[P] = s + 1
        /\ \A i \in 0 .. s - 1 : h[P].keySlots[i] = t.ks[P][i] /\ h[P].firstChild[i] = t.ch[P][i]
        /\ t.ks[P][s] = l.k /\ t.ch[P][s] = l.N /\ t.ch[P][s + 1] = l.Nprime
        /\ O \in {l.n} \cup l.leaked /\ Live(h, O) /\ (IsLeaf(h, O) <=> t.lev[P] = 1)
    BY <1>2 DEF Climbing, Behind
  <2>2. /\ g[P].slotsinuse = s /\ g[P].keySlots = h[P].keySlots
        /\ g[P].firstChild = h[P].firstChild /\ g[P].numChildren = h[P].numChildren
        /\ IsInner(g, P)
    <3>1. ~h[P].isleafnode /\ SameBody(h[P], g[P]) /\ Live(h, P)
      BY <1>2, <2>1 DEF IsInner
    <3> QED
      BY <3>1 DEF SameBody, IsInner
  <2> HIDE DEF P, s
  <2>3. Live(g, O) /\ (IsLeaf(g, O) <=> t.lev[P] = 1) /\ O = g[P].firstChild[s]
    BY <2>1, <2>2
  <2>4. e.parent = P
    BY DEF P
  <2> QED
    BY <2>1, <2>2, <2>3, <2>4 DEF Behind
<1>3. Live(g, l.n)
  BY DEF Climbing
<1> QED
  BY <1>1, <1>2, <1>3 DEF Climbing

-----------------------------------------------------------------------------
\* The links of the leaves once both halves c and e are in their parent, p before them.
LEMMA LinksPlaced ==
    ASSUME NEW h \in Heap, NEW g, NEW d, NEW k, NEW c, NEW e, TripleLast(h, g, d, k, c, e),
           NEW t, SearchTree(t), c \in t.G, e \in t.G, NEW p \in t.G,
           t.lev[c] = 0 => Follows(t, p, c) /\ Follows(t, c, e),
           h[d].slotsinuse >= 1, h[d].firstChild[h[d].slotsinuse - 1] = p,
           IsLeaf(h, c) <=> t.lev[c] = 0,
           NEW m \in t.G, t.lev[m] = 0, IsLeaf(h, m), After(h, t, c, m), Before(h, t, c, m)
    PROVE  After(g, t, NULL, m) /\ Before(g, t, NULL, m)
<1>1. /\ g[m].nextLeaf = IF ~(t.lev[c] = 0) THEN h[m].nextLeaf
                         ELSE IF m = c THEN e ELSE IF m = p THEN c ELSE h[m].nextLeaf
      /\ g[m].prevLeaf = IF ~(t.lev[c] = 0) THEN h[m].prevLeaf
                         ELSE IF m = e THEN c ELSE IF m = c THEN p ELSE h[m].prevLeaf
  <2>1. m \in NodeIds
    BY LiveTypes
  <2>2. /\ g[m].nextLeaf = IF ~IsLeaf(h, c) THEN h[m].nextLeaf
                           ELSE IF m = c THEN e
                           ELSE IF h[d].slotsinuse >= 1 /\ m = h[d].firstChild[h[d].slotsinuse - 1]
                                THEN c ELSE h[m].nextLeaf
        /\ g[m].prevLeaf = IF ~IsLeaf(h, c) THEN h[m].prevLeaf
                           ELSE IF m = e THEN c
                           ELSE IF h[d].slotsinuse >= 1 /\ m = c
                                THEN h[d].firstChild[h[d].slotsinuse - 1] ELSE h[m].prevLeaf
    BY <2>1 DEF TripleLast
  <2> QED
    BY <2>2
<1>2. After(g, t, NULL, m)
  <2>1. CASE t.hi[m] = t.top /\ h[m].nextLeaf = NULL
    <3>1. CASE t.lev[c] = 0 /\ m \in {c, p}
      BY <1>1, <2>1, <3>1, OneFollower
    <3>2. CASE ~(t.lev[c] = 0 /\ m \in {c, p})
      BY <1>1, <2>1, <3>2 DEF After
    <3> QED
      BY <3>1, <3>2
  <2>2. ASSUME NEW b, Follows(t, m, b), h[m].nextLeaf = b \/ b = c PROVE After(g, t, NULL, m)
    <3>1. CASE t.lev[c] # 0
      <4>1. b # c
        BY <2>2, <3>1 DEF Follows
      <4> QED
        BY <1>1, <2>2, <3>1, <4>1 DEF After
    <3>2. CASE t.lev[c] = 0 /\ m = c
      BY <1>1, <3>2 DEF After
    <3>3. CASE t.lev[c] = 0 /\ m # c /\ m = p
      BY <1>1, <3>3 DEF After
    <3>4. CASE t.lev[c] = 0 /\ m # c /\ m # p
      <4>1. b # c
        BY <2>2, <3>4, OneFollower
      <4> QED
        BY <1>1, <2>2, <3>4, <4>1 DEF After
    <3> QED
      BY <3>1, <3>2, <3>3, <3>4
  <2> QED
    BY <2>1, <2>2 DEF After
<1>3. Before(g, t, NULL, m)
  <2>1. CASE t.lev[c] # 0
    <3>1. ASSUME NEW b, Follows(t, b, m) PROVE m # c
      BY <2>1, <3>1 DEF Follows
    <3> QED
      BY <1>1, <2>1, <3>1 DEF Before
  <2>2. CASE t.lev[c] = 0 /\ m = e
    BY <1>1, <2>2 DEF Before
  <2>3. CASE t.lev[c] = 0 /\ m # e /\ m = c
    BY <1>1, <2>3 DEF Before
  <2>4. CASE t.lev[c] = 0 /\ m # e /\ m # c
    BY <1>1, <2>4 DEF Before
  <2> QED
    BY <2>1, <2>2, <2>3, <2>4
<1> QED
  BY <1>2, <1>3

\* Both halves N and M of a node are put where they belong: the last of d, which is their
\* parent P in the tree, or the new node that will take its place.
Settled(h, g, t, P, d, N, M) ==
    \A m \in t.G : /\ m # P => Says(g, t, m)
                   /\ Fit(g, t, m)
                   /\ g[m].parent = IF m \in {N, M} THEN d ELSE h[m].parent
                   /\ t.lev[m] = 0 => After(g, t, NULL, m) /\ Before(g, t, NULL, m)

\* Placing the halves links them with their neighbours (insertInnerNodeChildAt).
LEMMA HalvesPlaced ==
    ASSUME NEW h \in Heap, NEW t, NEW P, NEW F, NEW N, Stands(h, t, P, F, N), P \in t.G,
           t.lev[P] > 0, IsInner(h, P), NEW s \in Nat, s >= 1, t.cnt[P] = s + 1,
           N = t.ch[P][s], NEW M, M = t.ch[P][s + 1],
           NEW d, d = P \/ d \notin t.G, NEW k, NEW g, TripleLast(h, g, d, k, N, M),
           h[d].slotsinuse >= 1, h[d].firstChild[h[d].slotsinuse - 1] = t.ch[P][s - 1]
    PROVE  Settled(h, g, t, P, d, N, M)
<1> SUFFICES ASSUME NEW m \in t.G
             PROVE  /\ m # P => Says(g, t, m)
                    /\ Fit(g, t, m)
                    /\ g[m].parent = IF m \in {N, M} THEN d ELSE h[m].parent
                    /\ t.lev[m] = 0 => After(g, t, NULL, m) /\ Before(g, t, NULL, m)
  BY DEF Settled
<1>1. /\ SearchTree(t)
      /\ m # P => Says(h, t, m)
      /\ Fit(h, t, m)
      /\ t.lev[m] = 0 => After(h, t, N, m) /\ Before(h, t, N, m)
  BY DEF Stands
<1>2. SearchTree(t) /\ \A n \in t.G : n # P => Says(h, t, n)
  BY DEF Stands
<1>3. /\ m \in NodeIds /\ (t.cnt[m] \in Nat \/ t.lev[m] = 0)
      /\ Live(h, m)
  BY <1>1, <1>2, Numbers DEF Says, LeafSays, InnerSays, IsLeaf, IsInner
<1>4. g \in Edits(h) /\ g # Fault /\ g[m].parent = IF m \in {N, M} THEN d ELSE h[m].parent
  BY <1>3 DEF TripleLast
<1>5. m # d => SameBody(h[m], g[m]) /\ Agree(t, t, m)
  BY <1>3 DEF TripleLast, Agree
<1>6. m # P => Says(g, t, m)
  <2>1. m # P => SameBody(h[m], g[m]) /\ Agree(t, t, m) /\ Says(h, t, m)
    BY <1>1, <1>5
  <2> QED
    BY <1>3, <1>4, <2>1, SaysKept
<1>7. Fit(g, t, m)
  <2>1. CASE m # d
    BY <1>1, <1>5, <2>1, HalfFullKept DEF Fit
  <2>2. CASE m = d
    <3>1. m = P /\ g[m].isrootnode = h[m].isrootnode /\ t.lev[m] # 0
      BY <2>2, <1>2, Numbers DEF TripleLast
    <3> QED
      BY <1>1, <3>1 DEF Fit, HalfFull
  <2> QED
    BY <2>1, <2>2
<1>8. ASSUME t.lev[m] = 0 PROVE After(g, t, NULL, m) /\ Before(g, t, NULL, m)
  <2> DEFINE p == t.ch[P][s - 1]
  <2>1. s - 1 \in 0 .. t.cnt[P] - 1 /\ s \in 0 .. t.cnt[P] - 1 /\ (s - 1) + 1 = s
    OBVIOUS
  <2>2. /\ p \in t.G /\ N \in t.G /\ M \in t.G /\ t.lev[p] = t.lev[N] /\ t.lev[N] = t.lev[M]
        /\ t.lev[p] = 0 => Follows(t, p, N)
        /\ t.lev[N] = 0 => Follows(t, N, M)
        /\ t.lev[N] + 1 = t.lev[P]
    <3>1. /\ p \in t.G /\ N \in t.G /\ t.lev[p] = t.lev[N]
          /\ t.lev[p] = 0 => Follows(t, p, N)
      BY <1>2, <2>1, Siblings
    <3>2. /\ M \in t.G /\ t.lev[N] = t.lev[M]
          /\ t.lev[N] = 0 => Follows(t, N, M)
          /\ t.lev[N] + 1 = t.lev[P]
      BY <1>2, <2>1, Siblings
    <3> QED
      BY <3>1, <3>2
  <2> HIDE DEF p
  <2>3. N # P /\ m # P
    BY <1>2, <1>8, <2>2, Numbers
  <2>4. IsLeaf(h, N) <=> t.lev[N] = 0
    <3>1. Says(h, t, N)
      BY <1>2, <2>2, <2>3
    <3> QED
      BY <3>1 DEF Says, LeafSays, InnerSays, IsLeaf, IsInner
  <2>5. IsLeaf(h, m) /\ After(h, t, N, m) /\ Before(h, t, N, m)
    BY <1>1, <1>8, <2>3 DEF Says, LeafSays
  <2>6. h[d].firstChild[h[d].slotsinuse - 1] = p
    BY DEF p
  <2> QED
    BY <1>2, <1>8, <2>2, <2>4, <2>5, <2>6, LinksPlaced
<1> QED
  BY <1>4, <1>6, <1>7, <1>8

\* A heap that differs in the counts of the node W only.
LEMMA StandsBut ==
    ASSUME NEW h, NEW g, NEW t, NEW W \in t.G, NEW F, NEW X, Stands(h, t, W, F, X), t.lev[W] > 0,
           \A m \in t.G : m # W => g[m] = h[m],
           g[W].isrootnode = h[W].isrootnode, g[W].parent = h[W].parent
    PROVE  Stands(g, t, W, F, X)
<1> SUFFICES ASSUME NEW m \in t.G
             PROVE  /\ m # W => Says(g, t, m)
                    /\ Fit(g, t, m)
                    /\ m \notin F => g[m].parent = t.par[m]
                    /\ t.lev[m] = 0 => After(g, t, X, m) /\ Before(g, t, X, m)
  BY DEF Stands
<1>1. /\ m # W => Says(h, t, m)
      /\ Fit(h, t, m)
      /\ m \notin F => h[m].parent = t.par[m]
      /\ t.lev[m] = 0 => After(h, t, X, m) /\ Before(h, t, X, m)
  BY DEF Stands
<1>2. CASE m = W
  <2>1. ~(t.lev[m] = 0)
    BY <1>2
  <2> QED
    BY <1>1, <1>2, <2>1 DEF Fit, HalfFull
<1>3. CASE m # W
  <2>1. g[m] = h[m]
    BY <1>3
  <2>2. Says(g, t, m)
    BY <1>1, <1>3, <2>1 DEF Says, LeafSays, InnerSays, IsLeaf, IsInner, Live
  <2>3. Fit(g, t, m)
    BY <1>1, <2>1 DEF Fit, HalfFull
  <2>4. t.lev[m] = 0 => After(g, t, X, m) /\ Before(g, t, X, m)
    BY <1>1, <2>1 DEF After, Before
  <2> QED
    BY <1>1, <2>1, <2>2, <2>3, <2>4
<1> QED
  BY <1>2, <1>3

\* The end of an insertion frees nothing of the tree.
LEMMA EndsKeepTree ==
    ASSUME NEW h \in Heap, InsertEnds(h), Live(h, local.n), NEW S \in SUBSET NodeIds,
           ({local.n} \cup local.leaked) \cap S = {}
    PROVE  \E g : Return(g, "ok", EmptyData) /\ \A m \in S : g[m] = h[m]
<1> DEFINE h1     == freeNode(h, local.n)
           unseen == local.leaked \ PointedTo(h1, NodeIds \ local.leaked)
           g      == [n \in NodeIds |-> IF n \in unseen THEN Free ELSE h1[n]]
<1>1. \A m \in S : m \in NodeIds /\ m # local.n /\ m \notin unseen
  OBVIOUS
<1>2. h1 = [h EXCEPT ![local.n] = Free]
  BY DEF freeNode
<1>3. \A m \in S : h1[m] = h[m]
  BY <1>1, <1>2 DEF Heap
<1>4. Return(g, "ok", EmptyData)
  BY DEF InsertEnds
<1> HIDE DEF h1, unseen
<1>5. \A m \in S : g[m] = h[m]
  BY <1>1, <1>3
<1> QED
  BY <1>4, <1>5

-----------------------------------------------------------------------------
\* A split node whose parent is known.
LEMMA AtClimb ==
    ASSUME AppendInv, pc = "insert_in_parent"
    PROVE  /\ root # NULL /\ heap \in Heap /\ TypeInv /\ Within(heap)
           /\ local.k \in KeySlot /\ local.k \in Keys /\ local.k \in Int
           /\ \A m \in {local.N, local.Nprime, local.n} \cup local.leaked : Live(heap, m)
           /\ \E t : /\ Rising(heap, t, local, root) /\ SearchTree(t)
                     /\ totalkeycount = Cardinality(Pairs(heap, t))
<1>1. /\ root # NULL /\ heap \in Heap /\ TypeInv /\ Within(heap)
      /\ \E t : /\ Shape(heap, t, pc, local, call, root)
                /\ totalkeycount = Cardinality(Pairs(heap, t))
  BY Shaped
<1>2. local.k \in KeySlot
  BY <1>1, AtInsertInParent
<1>3. PICK t : /\ Rising(heap, t, local, root)
               /\ totalkeycount = Cardinality(Pairs(heap, t))
  BY <1>1 DEF Shape
<1>4. SearchTree(t) /\ local.k \in Keys
  BY <1>3 DEF Rising, Stands, Climbing
<1>5. \A m \in {local.N, local.Nprime, local.n} \cup local.leaked : Live(heap, m)
  BY RootThere DEF AppendInv, RootInv, RootSafe, RootApart
<1> QED
  BY <1>1, <1>2, <1>3, <1>4, <1>5, KeysAssumption

\* What the parent holds while the halves of its last child wait.
LEMMA BehindNumbers ==
    ASSUME NEW h \in Heap, NEW t, SearchTree(t), NEW l, Behind(h, t, l)
    PROVE  LET P == l.parent
               s == h[P].slotsinuse
           IN  /\ P \in t.G /\ P \in NodeIds /\ t.lev[P] > 0 /\ t.lev[P] # 0 /\ t.hi[P] = t.top
               /\ IsInner(h, P) /\ h[P] \in innerNode /\ s \in Nat /\ s >= 1
               /\ h[P].numChildren = s + 1 /\ t.cnt[P] = s + 1
               /\ \A i \in 0 .. s - 1 : h[P].keySlots[i] = t.ks[P][i]
                                        /\ h[P].firstChild[i] = t.ch[P][i]
               /\ \A i \in 0 .. s - 1 : t.ks[P][i] \in Keys /\ t.ks[P][i] < l.k
               /\ t.ks[P][s] = l.k /\ t.ch[P][s] = l.N /\ t.ch[P][s + 1] = l.Nprime
               /\ SlotsAbove(h[P], l.k) = {}
               /\ s \in 0 .. t.cnt[P] - 1 /\ s - 1 \in 0 .. s - 1 /\ s - 1 \in 0 .. t.cnt[P] - 1
               /\ (s - 1) + 1 = s
               /\ LET O == h[P].firstChild[s]
                  IN  O \in {l.n} \cup l.leaked /\ Live(h, O) /\ (IsLeaf(h, O) <=> t.lev[P] = 1)
<1> DEFINE P == l.parent
           s == h[P].slotsinuse
<1>1. /\ P \in t.G /\ t.lev[P] > 0 /\ t.hi[P] = t.top
      /\ IsInner(h, P) /\ s >= 1 /\ h[P].numChildren = s + 1 /\ t.cnt[P] = s + 1
      /\ \A i \in 0 .. s - 1 : h[P].keySlots[i] = t.ks[P][i] /\ h[P].firstChild[i] = t.ch[P][i]
      /\ t.ks[P][s] = l.k /\ t.ch[P][s] = l.N /\ t.ch[P][s + 1] = l.Nprime
  BY DEF Behind
<1>2. P \in NodeIds /\ h[P] \in innerNode /\ s \in Nat
  <2>1. P \in NodeIds /\ h[P] \in innerNode
    BY <1>1, LiveTypes
  <2> HIDE DEF P
  <2> QED
    BY <2>1, NodeTypes DEF node, P
<1>8. LET O == h[P].firstChild[s]
      IN  O \in {l.n} \cup l.leaked /\ Live(h, O) /\ (IsLeaf(h, O) <=> t.lev[P] = 1)
  BY DEF Behind
<1> HIDE DEF P, s
<1>3. \A i \in 0 .. s - 1 : t.ks[P][i] \in Keys /\ t.ks[P][i] < l.k
  <2>1. \A i \in 0 .. s - 1 : t.ks[P][i] < t.ks[P][s]
    BY <1>1, <1>2, LastKeyAbove
  <2>2. \A i \in 0 .. s - 1 : i \in 0 .. t.cnt[P] - 1
    BY <1>1, <1>2
  <2> QED
    BY <1>1, <2>1, <2>2 DEF SearchTree, Inner
<1>4. SlotsAbove(h[P], l.k) = {}
  <2>1. l.k \in Int
    <3>1. s \in 0 .. t.cnt[P] - 1
      BY <1>1, <1>2
    <3> QED
      BY <1>1, <3>1, KeysAssumption DEF SearchTree, Inner
  <2>2. \A i \in 0 .. s - 1 : ~(h[P].keySlots[i] > l.k)
    <3>1. \A i \in 0 .. s - 1 : h[P].keySlots[i] = t.ks[P][i]
      BY <1>1
    <3>2. \A i \in 0 .. s - 1 : t.ks[P][i] \in Int /\ t.ks[P][i] < l.k
      BY <1>3, KeysAssumption
    <3> QED
      BY <2>1, <3>1, <3>2
  <2> QED
    BY <2>2 DEF SlotsAbove, s
<1>5. t.lev[P] # 0
  BY <1>1, Numbers
<1>6. s \in 0 .. t.cnt[P] - 1 /\ s - 1 \in 0 .. s - 1 /\ s - 1 \in 0 .. t.cnt[P] - 1
      /\ (s - 1) + 1 = s
  BY <1>1, <1>2
<1> QED
  BY <1>1, <1>2, <1>3, <1>4, <1>5, <1>6, <1>8 DEF P, s

\* The children of a last node.
LEMMA TopChildren ==
    ASSUME NEW t, SearchTree(t), NEW P \in t.G, t.lev[P] > 0, NEW s \in Nat, s >= 1,
           t.cnt[P] = s + 1
    PROVE  LET p == t.ch[P][s - 1]
               N == t.ch[P][s]
               M == t.ch[P][s + 1]
           IN  /\ p \in t.G /\ N \in t.G /\ M \in t.G /\ p # N /\ N # M /\ p # M
               /\ p # P /\ N # P /\ M # P
               /\ t.par[p] = P /\ t.par[N] = P /\ t.par[M] = P
               /\ t.lev[N] + 1 = t.lev[P] /\ t.lev[p] = t.lev[N] /\ t.lev[M] = t.lev[N]
<1> DEFINE p == t.ch[P][s - 1]
           N == t.ch[P][s]
           M == t.ch[P][s + 1]
<1>1. s - 1 \in 0 .. t.cnt[P] /\ s \in 0 .. t.cnt[P] /\ s + 1 \in 0 .. t.cnt[P]
  OBVIOUS
<1>2. IsChild(t, P, s - 1) /\ IsChild(t, P, s) /\ IsChild(t, P, s + 1)
  BY <1>1, ChildSpans
<1>3. /\ p \in t.G /\ N \in t.G /\ M \in t.G
      /\ t.par[p] = P /\ t.par[N] = P /\ t.par[M] = P
      /\ t.ix[p] = s - 1 /\ t.ix[N] = s /\ t.ix[M] = s + 1
      /\ t.lev[N] + 1 = t.lev[P] /\ t.lev[p] + 1 = t.lev[P] /\ t.lev[M] + 1 = t.lev[P]
  BY <1>2 DEF IsChild
<1> HIDE DEF p, N, M
<1>4. /\ t.lev[p] \in Nat /\ t.lev[N] \in Nat /\ t.lev[M] \in Nat /\ t.lev[P] \in Nat
  BY <1>3, Numbers
<1>5. p # N /\ N # M /\ p # M
  BY <1>3
<1>6. p # P /\ N # P /\ M # P
  BY <1>3, <1>4
<1>7. t.lev[p] = t.lev[N] /\ t.lev[M] = t.lev[N]
  BY <1>3, <1>4
<1> QED
  BY <1>3, <1>5, <1>6, <1>7 DEF p, N, M

\* insert_in_parent in a parent with room.
LEMMA InsertInParentKeepsShape ==
    ASSUME AppendInv, InsertInParent
    PROVE  Grown'
<1> DEFINE P == local.parent
           N == local.N
           M == local.Nprime
           k == local.k
           s == heap[P].slotsinuse
           loc == PairLocation(heap[P], k)
           h0 == AddToChildren(heap, P, -1)
           h1 == insertinnernodepair(h0, P, k, N)
           h2 == IF loc >= 1 THEN insertInnerNodeChildAt(h1, P, M, loc + 1) ELSE h1
           g  == PlaceNewPair(h0, P, k, N, M, s)
<1>1. /\ pc = "insert_in_parent" /\ IsInner(heap, P) /\ heap[P].numChildren < NodeSlots + 1
      /\ s < NodeSlots /\ InsertEnds(h2) /\ UNCHANGED <<root, totalkeycount, call>>
  BY DEF InsertInParent
<1>2. PICK t : /\ root # NULL /\ heap \in Heap /\ k \in KeySlot
               /\ Rising(heap, t, local, root) /\ SearchTree(t)
               /\ totalkeycount = Cardinality(Pairs(heap, t))
  BY <1>1, AtClimb
<1>3. Climbing(heap, t, local, root) /\ Stands(heap, t, P, {N, M}, N)
  BY <1>2 DEF Rising
<1>4. Crown(t, root) /\ Behind(heap, t, local) /\ Live(heap, local.n)
      /\ ({local.n} \cup local.leaked) \cap t.G = {}
  <2>1. P # NULL
    BY <1>1, NodeIdsAssumption DEF IsInner, Live
  <2> QED
    BY <1>3, <2>1 DEF Climbing
<1>5. /\ P \in t.G /\ P \in NodeIds /\ t.lev[P] > 0 /\ t.lev[P] # 0
      /\ s \in Nat /\ s >= 1 /\ heap[P].numChildren = s + 1 /\ t.cnt[P] = s + 1
      /\ \A i \in 0 .. s - 1 : heap[P].keySlots[i] = t.ks[P][i] /\ heap[P].firstChild[i] = t.ch[P][i]
      /\ t.ks[P][s] = k /\ t.ch[P][s] = N /\ t.ch[P][s + 1] = M
      /\ SlotsAbove(heap[P], k) = {} /\ s - 1 \in 0 .. s - 1
  BY <1>2, <1>4, BehindNumbers
<1>6. loc = s
  BY <1>5 DEF PairLocation
<1> HIDE DEF loc
<1>7. /\ h0 \in Edits(heap) /\ h0 # Fault /\ h0[P].numChildren = s
      /\ h0[P].slotsinuse = s /\ h0[P].keySlots = heap[P].keySlots
      /\ h0[P].firstChild = heap[P].firstChild /\ h0[P].isrootnode = heap[P].isrootnode
      /\ h0[P].parent = heap[P].parent /\ \A m \in NodeIds \ {P} : h0[m] = heap[m]
  BY <1>1, <1>2, <1>5, ChildDropped
<1> HIDE DEF h0
<1>8. h2 = g
  <2>1. PairLocation(h0[P], k) = s
    BY <1>5, <1>7 DEF PairLocation, SlotsAbove
  <2> QED
    BY <1>5, <1>6, <2>1 DEF insertinnernodepair, PlaceNewPair
<1> HIDE DEF h1, h2, g
<1>9. /\ h0 \in Heap /\ \A m : (Live(h0, m) <=> Live(heap, m)) /\ (IsLeaf(h0, m) <=> IsLeaf(heap, m))
      /\ IsInner(h0, P)
  BY <1>1, <1>2, <1>7, EditsKeep DEF Edits
<1>10. Stands(h0, t, P, {N, M}, N)
  <2>1. \A m \in t.G : m # P => h0[m] = heap[m]
    BY <1>2, <1>7, Numbers
  <2>2. /\ P \in t.G /\ Stands(heap, t, P, {N, M}, N) /\ t.lev[P] > 0
        /\ h0[P].isrootnode = heap[P].isrootnode /\ h0[P].parent = heap[P].parent
    BY <1>3, <1>5, <1>7
  <2> HIDE DEF P, N, M
  <2> QED
    BY <2>1, <2>2, StandsBut
<1>11. LET p == t.ch[P][s - 1]
       IN  /\ p \in t.G /\ N \in t.G /\ M \in t.G /\ p # N /\ N # M /\ p # M
           /\ p # P /\ N # P /\ M # P /\ t.par[N] = P /\ t.par[M] = P
           /\ t.lev[N] + 1 = t.lev[P] /\ t.lev[p] = t.lev[N] /\ t.lev[M] = t.lev[N]
  <2> HIDE DEF s, P, N, M, k
  <2>1. N = t.ch[P][s] /\ M = t.ch[P][s + 1]
    BY <1>5
  <2>2. LET p == t.ch[P][s - 1]
            a == t.ch[P][s]
            b == t.ch[P][s + 1]
        IN  /\ p \in t.G /\ a \in t.G /\ b \in t.G /\ p # a /\ a # b /\ p # b
            /\ p # P /\ a # P /\ b # P
            /\ t.par[p] = P /\ t.par[a] = P /\ t.par[b] = P
            /\ t.lev[a] + 1 = t.lev[P] /\ t.lev[p] = t.lev[a] /\ t.lev[b] = t.lev[a]
    BY <1>2, <1>5, TopChildren
  <2> QED
    BY <2>1, <2>2
<1>12. \A m \in t.G : m # P => /\ Live(h0, m)
                               /\ IsLeaf(h0, m) <=> t.lev[m] = 0
  <2>1. \A m \in t.G : m # P => Says(h0, t, m)
    BY <1>10 DEF Stands
  <2> QED
    BY <2>1 DEF Says, LeafSays, InnerSays, IsLeaf, IsInner
<1>13. TripleLast(h0, g, P, k, N, M)
  <2>1. /\ Live(h0, N) /\ Live(h0, M) /\ N # P /\ M # P /\ N # M
        /\ IsLeaf(h0, N) <=> IsLeaf(h0, M)
    BY <1>11, <1>12
  <2>2. IsLeaf(h0, N) => IsLeaf(h0, h0[P].firstChild[s - 1]) /\ h0[P].firstChild[s - 1] \notin {N, M}
    BY <1>5, <1>7, <1>11, <1>12
  <2> HIDE DEF s, P, N, M, k
  <2> QED
    BY <1>1, <1>2, <1>5, <1>7, <1>9, <2>1, <2>2, NewPairPlaced DEF g
<1>14. Settled(h0, g, t, P, P, N, M)
  <2> DEFINE F == {N, M}
  <2>1. h0[P].slotsinuse >= 1 /\ h0[P].firstChild[h0[P].slotsinuse - 1] = t.ch[P][s - 1]
    BY <1>5, <1>7
  <2>2. Stands(h0, t, P, F, N)
    BY <1>10
  <2> HIDE DEF s, P, N, M, k, F
  <2>3. N = t.ch[P][s] /\ M = t.ch[P][s + 1] /\ P = P
    BY <1>5
  <2> QED
    BY <1>5, <1>9, <1>13, <2>1, <2>2, <2>3, HalvesPlaced
<1>15. Says(g, t, P)
  <2>1. /\ g \in Edits(h0) /\ g # Fault
        /\ g[P].slotsinuse = s + 1 /\ g[P].numChildren = s + 2
        /\ \A i \in 0 .. s - 1 : /\ g[P].keySlots[i] = heap[P].keySlots[i]
                                 /\ g[P].firstChild[i] = heap[P].firstChild[i]
        /\ g[P].keySlots[s] = k /\ g[P].firstChild[s] = N /\ g[P].firstChild[s + 1] = M
    <3>1. h0[P].slotsinuse = s /\ h0[P].keySlots = heap[P].keySlots
          /\ h0[P].firstChild = heap[P].firstChild
      BY <1>7
    <3> HIDE DEF s, P, N, M, k
    <3>2. /\ g \in Edits(h0) /\ g # Fault
          /\ g[P].slotsinuse = s + 1 /\ g[P].numChildren = s + 2
          /\ \A i \in 0 .. s - 1 : /\ g[P].keySlots[i] = h0[P].keySlots[i]
                                   /\ g[P].firstChild[i] = h0[P].firstChild[i]
          /\ g[P].keySlots[s] = k /\ g[P].firstChild[s] = N /\ g[P].firstChild[s + 1] = M
      BY <1>13, <3>1 DEF TripleLast
    <3> QED
      BY <3>1, <3>2
  <2>2. IsInner(g, P)
    BY <1>9, <2>1, EditsKeep
  <2> HIDE DEF s, P, N, M, k
  <2>3. ASSUME NEW i \in 0 .. t.cnt[P] - 1 PROVE g[P].keySlots[i] = t.ks[P][i]
    <3>1. i \in 0 .. s - 1 \/ i = s
      BY <1>5
    <3> QED
      BY <1>5, <2>1, <3>1
  <2>4. ASSUME NEW i \in 0 .. t.cnt[P] PROVE g[P].firstChild[i] = t.ch[P][i]
    <3>1. i \in 0 .. s - 1 \/ i = s \/ i = s + 1
      BY <1>5
    <3> QED
      BY <1>5, <2>1, <3>1
  <2>5. g[P].slotsinuse = t.cnt[P] /\ g[P].numChildren = t.cnt[P] + 1
    BY <1>5, <2>1
  <2> QED
    BY <1>5, <2>2, <2>3, <2>4, <2>5 DEF Says, InnerSays
<1>16. ASSUME NEW m \in t.G PROVE g[m].parent = t.par[m]
  <2>1. h0[m].parent = heap[m].parent
    BY <1>2, <1>7, Numbers
  <2>2. m \notin {N, M} => heap[m].parent = t.par[m]
    BY <1>3 DEF Stands
  <2> HIDE DEF P, N, M
  <2> QED
    BY <1>11, <1>14, <2>1, <2>2 DEF Settled
<1>17. Stands(g, t, NULL, {}, NULL)
  BY <1>3, <1>14, <1>15, <1>16 DEF Stands, Settled
<1>18. g \in Heap /\ Live(g, local.n)
  <2>1. g \in Edits(h0) /\ g # Fault
    BY <1>13 DEF TripleLast
  <2> QED
    BY <1>4, <1>9, <2>1, EditsKeep DEF Edits
<1>19. PICK f : Return(f, "ok", EmptyData) /\ \A m \in t.G : f[m] = g[m]
  <2>1. t.G \in SUBSET NodeIds /\ InsertEnds(g)
    BY <1>1, <1>2, <1>8, Numbers
  <2> QED
    BY <1>4, <1>18, <2>1, EndsKeepTree
<1>20. Resting(f, t, root')
  BY <1>1, <1>4, <1>17, <1>19, StandsSame DEF Resting
<1>21. Pairs(f, t) = Pairs(heap, t)
  <2>1. ASSUME NEW m \in t.G, t.lev[m] = 0 PROVE f[m].slotsinuse = heap[m].slotsinuse
    <3>1. m # P /\ m \in NodeIds
      BY <1>2, <1>5, <2>1, Numbers
    <3>2. Live(h0, m) /\ h0[m] = heap[m]
      BY <1>7, <1>12, <3>1
    <3>3. SameBody(h0[m], g[m])
      BY <1>13, <3>1, <3>2 DEF TripleLast
    <3> QED
      BY <1>19, <3>2, <3>3 DEF SameBody
  <2> QED
    BY <2>1, PairsKept
<1>22. root \in t.G /\ f # Fault
  <2>1. root \in t.G
    BY <1>4 DEF Crown
  <2> QED
    BY <1>1, <1>20, <2>1, RestingNode
<1> QED
  BY <1>1, <1>2, <1>19, <1>20, <1>21, <1>22, ReturnGrows

-----------------------------------------------------------------------------
\* A new root over the halves of the old one.
LEMMA JoinStands ==
    ASSUME NEW h, NEW t, NEW l, NEW old, Rising(h, t, l, old), l.parent = NULL,
           NEW r \in NodeIds \ t.G, NEW h1 \in Heap, IsInner(h1, r), h1[r].slotsinuse = 0,
           h1[r].numChildren = 0, h1[r].parent = NULL, \A m \in NodeIds \ {r} : h1[m] = h[m],
           NEW g, TripleLast(h1, g, r, l.k, l.N, l.Nprime)
    PROVE  /\ Resting(g, Join(t, r, l.N, l.Nprime, l.k), r)
           /\ Pairs(g, Join(t, r, l.N, l.Nprime, l.k)) = Pairs(h, t)
<1> DEFINE N == l.N
           M == l.Nprime
           k == l.k
           u == Join(t, r, N, M, k)
<1>1. /\ SearchTree(t) /\ IsFiniteSet(t.G) /\ Stands(h, t, NULL, {N, M}, N)
      /\ Halves(t, N, M, k) /\ \A m \in t.G : t.par[m] = NULL => m \in {N, M}
  BY DEF Rising, Stands, Climbing
<1>2. N \in t.G /\ M \in t.G /\ N # M /\ k \in Keys /\ HalfFull(h, t, N) /\ HalfFull(h, t, M)
  BY DEF Rising, Climbing
<1>3. /\ u.G = t.G \cup {r} /\ u.bot = t.bot /\ u.top = t.top /\ u.height = t.height + 1
      /\ \A m \in NodeIds :
            /\ u.lev[m] = IF m = r THEN t.height + 1 ELSE t.lev[m]
            /\ u.par[m] = IF m = r THEN NULL ELSE IF m \in {N, M} THEN r ELSE t.par[m]
            /\ u.cnt[m] = IF m = r THEN 1 ELSE t.cnt[m]
            /\ m # r => u.ks[m] = t.ks[m] /\ u.ch[m] = t.ch[m]
            /\ u.lo[m] = IF m = r THEN t.bot ELSE t.lo[m]
            /\ u.hi[m] = IF m = r THEN t.top ELSE t.hi[m]
      /\ u.ks[r][0] = k /\ u.ch[r][0] = N /\ u.ch[r][1] = M
  BY DEF Join
<1>4. SearchTree(u)
  BY <1>1, <1>2, JoinTree
<1> HIDE DEF u, N, M, k
<1>5. /\ g \in Edits(h1) /\ g # Fault
      /\ g[r].slotsinuse = 1 /\ g[r].numChildren = 2
      /\ g[r].keySlots[0] = k /\ g[r].firstChild[0] = N /\ g[r].firstChild[1] = M
      /\ g[r].parent = NULL
      /\ \A m \in NodeIds \ {r} : Live(h1, m) => SameBody(h1[m], g[m])
      /\ \A m \in NodeIds : Live(h1, m) => g[m].parent = IF m \in {N, M} THEN r ELSE h1[m].parent
      /\ \A m \in NodeIds : IsLeaf(h1, m) =>
            /\ g[m].nextLeaf = IF ~IsLeaf(h1, N) THEN h1[m].nextLeaf
                               ELSE IF m = N THEN M ELSE h1[m].nextLeaf
            /\ g[m].prevLeaf = IF ~IsLeaf(h1, N) THEN h1[m].prevLeaf
                               ELSE IF m = M THEN N ELSE h1[m].prevLeaf
  BY DEF TripleLast, N, M, k
<1>6. /\ t.lev[N] = t.height /\ t.lev[M] = t.height /\ t.lo[N] = t.bot /\ t.hi[N] = k
      /\ t.lo[M] = k /\ t.hi[M] = t.top /\ t.height \in Nat
  BY <1>1, <1>2, Numbers DEF Halves
<1>7. ASSUME NEW m \in t.G
      PROVE  /\ m \in NodeIds /\ m # r /\ h1[m] = h[m] /\ Says(h1, t, m) /\ Says(h, t, m)
             /\ Live(h1, m)
             /\ t.lev[m] = 0 => IsLeaf(h1, m)
             /\ t.lev[m] # 0 => ~IsLeaf(h1, m)
             /\ u.lev[m] = t.lev[m] /\ u.lo[m] = t.lo[m] /\ u.hi[m] = t.hi[m]
             /\ Agree(t, u, m)
             /\ (t.cnt[m] \in Nat \/ t.lev[m] = 0)
  <2>1. m \in NodeIds /\ m # r /\ h1[m] = h[m] /\ (t.cnt[m] \in Nat \/ t.lev[m] = 0) /\ m # NULL
    BY <1>1, Numbers
  <2>2. Says(h, t, m)
    BY <1>1, <2>1 DEF Stands
  <2>3. Says(h1, t, m)
    BY <2>1, <2>2 DEF Says, LeafSays, InnerSays, IsLeaf, IsInner, Live
  <2>4. /\ Live(h1, m)
        /\ t.lev[m] = 0 => IsLeaf(h1, m)
        /\ t.lev[m] # 0 => ~IsLeaf(h1, m)
    BY <2>3 DEF Says, LeafSays, InnerSays, IsLeaf, IsInner
  <2>5. Agree(t, u, m) /\ u.lev[m] = t.lev[m] /\ u.lo[m] = t.lo[m] /\ u.hi[m] = t.hi[m]
    BY <1>3, <2>1 DEF Agree
  <2> QED
    BY <2>1, <2>2, <2>3, <2>4, <2>5
<1>8. ASSUME NEW m \in t.G PROVE Says(g, u, m) /\ SameBody(h[m], g[m])
  <2>1. SameBody(h1[m], g[m])
    BY <1>5, <1>7
  <2> QED
    BY <1>5, <1>7, <2>1, SaysKept
<1>9. IsInner(g, r) /\ u.lev[r] # 0 /\ u.cnt[r] = 1
  BY <1>3, <1>5, <1>6, EditsKeep
<1>10. Says(g, u, r)
  <2>1. \A i \in 0 .. 0 : g[r].keySlots[i] = u.ks[r][i]
    BY <1>3, <1>5
  <2>2. ASSUME NEW i \in 0 .. 1 PROVE g[r].firstChild[i] = u.ch[r][i]
    <3>1. i = 0 \/ i = 1
      OBVIOUS
    <3> QED
      BY <1>3, <1>5, <3>1
  <2> QED
    BY <1>5, <1>9, <2>1, <2>2 DEF Says, InnerSays
<1>11. ASSUME NEW m \in t.G PROVE Fit(g, u, m)
  <2>1. HalfFull(h, t, m)
    <3>1. CASE m \in {N, M}
      BY <1>2, <3>1 DEF N, M
    <3>2. CASE m \notin {N, M}
      <4>1. Fit(h, t, m) /\ t.par[m] # NULL
        BY <1>1, <3>2 DEF Stands
      <4> QED
        BY <4>1 DEF Fit
    <3> QED
      BY <3>1, <3>2
  <2> QED
    BY <1>7, <1>8, <2>1, HalfFullKept DEF Fit
<1>12. Fit(g, u, r) /\ g[r].parent = u.par[r]
  BY <1>3, <1>5 DEF Fit
<1>13. ASSUME NEW m \in t.G PROVE g[m].parent = u.par[m]
  <2>1. m \notin {N, M} => h[m].parent = t.par[m]
    BY <1>1 DEF Stands
  <2> QED
    BY <1>3, <1>5, <1>7, <2>1
<1>14. /\ \A a, b : Follows(t, a, b) => Follows(u, a, b)
       /\ \A a : ~Follows(t, a, N)
       /\ t.height = 0 => Follows(t, N, M)
  <2>1. \A a, b : Follows(t, a, b) => Follows(u, a, b)
    BY <1>3, <1>7 DEF Follows
  <2>2. \A a : ~Follows(t, a, N)
    BY <1>1, <1>6, OneFollower
  <2>3. t.height = 0 => Follows(t, N, M)
    BY <1>2, <1>6 DEF Follows, N, M
  <2> QED
    BY <2>1, <2>2, <2>3
<1>15. ASSUME NEW m \in t.G, t.lev[m] = 0 PROVE After(g, u, NULL, m) /\ Before(g, u, NULL, m)
  <2>1. After(h, t, N, m) /\ Before(h, t, N, m)
    BY <1>1, <1>15 DEF Stands
  <2>2. /\ g[m].nextLeaf = IF ~IsLeaf(h1, N) THEN h[m].nextLeaf
                           ELSE IF m = N THEN M ELSE h[m].nextLeaf
        /\ g[m].prevLeaf = IF ~IsLeaf(h1, N) THEN h[m].prevLeaf
                           ELSE IF m = M THEN N ELSE h[m].prevLeaf
    BY <1>5, <1>7, <1>15
  <2>3. IsLeaf(h1, N) => t.height = 0
    BY <1>2, <1>6, <1>7 DEF N
  <2>4. u.lo[m] = t.lo[m] /\ u.hi[m] = t.hi[m] /\ u.top = t.top /\ u.bot = t.bot
    BY <1>3, <1>7
  <2>5. After(g, u, NULL, m)
    <3>1. CASE IsLeaf(h1, N) /\ m = N
      BY <1>14, <2>2, <2>3, <3>1 DEF After
    <3>2. CASE ~(IsLeaf(h1, N) /\ m = N)
      <4>1. g[m].nextLeaf = h[m].nextLeaf
        BY <2>2, <3>2
      <4> QED
        BY <1>14, <2>1, <2>4, <4>1 DEF After
    <3> QED
      BY <3>1, <3>2
  <2>6. Before(g, u, NULL, m)
    <3>1. CASE IsLeaf(h1, N) /\ m = M
      BY <1>14, <2>2, <2>3, <3>1 DEF Before
    <3>2. CASE ~(IsLeaf(h1, N) /\ m = M)
      <4>1. g[m].prevLeaf = h[m].prevLeaf
        BY <2>2, <3>2
      <4> QED
        BY <1>14, <2>1, <2>4, <4>1 DEF Before
    <3> QED
      BY <3>1, <3>2
  <2> QED
    BY <2>5, <2>6
<1>16. IsFiniteSet(u.G)
  BY <1>1, <1>3, FS_AddElement
<1>17. Stands(g, u, NULL, {}, NULL)
  <2>1. \A m \in u.G : m = r \/ m \in t.G
    BY <1>3
  <2>2. \A m \in u.G : Says(g, u, m) /\ Fit(g, u, m) /\ g[m].parent = u.par[m]
    BY <1>8, <1>10, <1>11, <1>12, <1>13, <2>1
  <2>3. \A m \in u.G : u.lev[m] = 0 => After(g, u, NULL, m) /\ Before(g, u, NULL, m)
    BY <1>7, <1>9, <1>15, <2>1
  <2> QED
    BY <1>4, <1>16, <2>2, <2>3 DEF Stands
<1>18. Crown(u, r)
  <2>1. /\ r \in u.G /\ u.lo[r] = u.bot /\ u.hi[r] = u.top /\ u.lev[r] = u.height
        /\ u.par[r] = NULL
    BY <1>3
  <2>2. ASSUME NEW m \in t.G PROVE u.par[m] # NULL
    <3>1. r # NULL
      BY NodeIdsAssumption
    <3> QED
      BY <1>1, <1>3, <1>7, <3>1
  <2> QED
    BY <1>3, <1>7, <2>1, <2>2 DEF Crown
<1>19. Pairs(g, u) = Pairs(h, t)
  <2>1. {m \in u.G : u.lev[m] = 0} = {m \in t.G : t.lev[m] = 0}
    BY <1>3, <1>7, <1>9
  <2>2. \A m \in t.G : t.lev[m] = 0 => g[m].slotsinuse = h[m].slotsinuse
    BY <1>8 DEF SameBody
  <2> QED
    BY <2>1, <2>2, PairsKept
<1> QED
  BY <1>17, <1>18, <1>19 DEF Resting, u, N, M, k

\* insert_in_parent without a parent.
LEMMA NewRootKeepsShape ==
    ASSUME AppendInv, NewRoot
    PROVE  Grown'
<1> DEFINE r  == FirstId
           c  == [NewInner EXCEPT !.isrootnode = TRUE]
           h1 == new(heap, r, c)
           g  == PlaceNewPair(h1, r, local.k, local.N, local.Nprime, 0)
<1>1. /\ pc = "insert_in_parent" /\ local.parent = NULL /\ CanAllocate
      /\ InsertEnds(g) /\ root' = r /\ UNCHANGED <<totalkeycount, call>>
  BY DEF NewRoot, PlaceNewPair
<1>2. PICK t : /\ root # NULL /\ heap \in Heap /\ local.k \in KeySlot
               /\ Rising(heap, t, local, root) /\ SearchTree(t)
               /\ totalkeycount = Cardinality(Pairs(heap, t))
  BY <1>1, AtClimb
<1>3. \A m \in {local.N, local.Nprime, local.n} \cup local.leaked : Live(heap, m)
  BY <1>1, AtClimb
<1>4. r \in NodeIds /\ heap[r] = Free
  BY <1>1, Addresses
<1>5. r \notin {local.N, local.Nprime, local.n} \cup local.leaked
  BY <1>3, <1>4 DEF Live
<1>6. Stands(heap, t, NULL, {local.N, local.Nprime}, local.N) /\ Climbing(heap, t, local, root)
  BY <1>1, <1>2 DEF Rising
<1>7. \A m \in t.G : m \in NodeIds /\ Live(heap, m) /\ (IsLeaf(heap, m) <=> t.lev[m] = 0)
  <2>1. \A m \in t.G : m \in NodeIds /\ Says(heap, t, m)
    BY <1>2, <1>6, Numbers DEF Stands
  <2> QED
    BY <2>1 DEF Says, LeafSays, InnerSays, IsLeaf, IsInner
<1>8. r \notin t.G
  BY <1>4, <1>7 DEF Live
<1>9. /\ c \in node /\ ~c.isleafnode /\ c.slotsinuse = 0 /\ c.numChildren = 0 /\ c.parent = NULL
  BY NewNodes DEF node, NewInner
<1> HIDE DEF r, c
<1>10. /\ h1 \in Heap /\ h1[r] = c /\ Live(h1, r) /\ \A m \in NodeIds \ {r} : h1[m] = heap[m]
  BY <1>2, <1>4, <1>9, NewInHeap
<1> HIDE DEF h1
<1>11. IsInner(h1, r) /\ h1[r].slotsinuse = 0 /\ h1[r].numChildren = 0 /\ h1[r].parent = NULL
  BY <1>9, <1>10 DEF IsInner
<1>12. /\ local.N \in t.G /\ local.Nprime \in t.G /\ local.N # local.Nprime
       /\ t.lev[local.N] = t.lev[local.Nprime]
  BY <1>1, <1>6 DEF Climbing, Halves
<1>13. /\ Live(h1, local.N) /\ Live(h1, local.Nprime) /\ local.N # r /\ local.Nprime # r
       /\ (IsLeaf(h1, local.N) <=> IsLeaf(h1, local.Nprime))
       /\ Live(h1, local.n)
  <2>1. \A m \in NodeIds \ {r} : /\ Live(heap, m) <=> Live(h1, m)
                                 /\ IsLeaf(heap, m) <=> IsLeaf(h1, m)
    BY <1>10 DEF Live, IsLeaf
  <2>2. local.n \in NodeIds \ {r} /\ Live(heap, local.n)
    BY <1>3, <1>5 DEF Live
  <2> QED
    BY <1>5, <1>7, <1>12, <2>1, <2>2
<1>14. TripleLast(h1, g, r, local.k, local.N, local.Nprime)
  <2>1. 0 < NodeSlots /\ 0 \in Nat /\ ~(0 >= 1)
    BY SlotsAssumption
  <2> QED
    BY <1>2, <1>10, <1>11, <1>12, <1>13, <2>1, NewPairPlaced
<1> HIDE DEF g
<1>15. /\ Resting(g, Join(t, r, local.N, local.Nprime, local.k), r)
       /\ Pairs(g, Join(t, r, local.N, local.Nprime, local.k)) = Pairs(heap, t)
  BY <1>1, <1>2, <1>4, <1>8, <1>10, <1>11, <1>14, JoinStands
<1> DEFINE u == Join(t, r, local.N, local.Nprime, local.k)
<1>16. u.G = t.G \cup {r}
  BY DEF Join
<1> HIDE DEF u
<1>17. Resting(g, u, r) /\ Pairs(g, u) = Pairs(heap, t)
  BY <1>15 DEF u
<1>18. g \in Heap /\ Live(g, local.n)
  <2>1. g \in Edits(h1) /\ g # Fault
    BY <1>14 DEF TripleLast
  <2> QED
    BY <1>10, <1>13, <2>1, EditsKeep DEF Edits
<1>19. PICK f : Return(f, "ok", EmptyData) /\ \A m \in u.G : f[m] = g[m]
  <2>1. u.G \in SUBSET NodeIds /\ ({local.n} \cup local.leaked) \cap u.G = {}
    BY <1>4, <1>5, <1>6, <1>7, <1>16 DEF Climbing
  <2> QED
    BY <1>1, <1>18, <2>1, EndsKeepTree
<1>20. Resting(f, u, root')
  BY <1>1, <1>17, <1>19, StandsSame DEF Resting
<1>21. Pairs(f, u) = Pairs(heap, t)
  <2>1. Pairs(f, u) = Pairs(g, u)
    BY <1>19, PairsKept
  <2> QED
    BY <1>17, <2>1
<1>22. root' # NULL /\ f # Fault
  <2>1. r \in u.G /\ r # NULL
    BY <1>4, <1>16, NodeIdsAssumption
  <2> QED
    BY <1>1, <1>20, <2>1, RestingNode
<1> QED
  BY <1>1, <1>2, <1>19, <1>20, <1>21, <1>22, ReturnGrows

-----------------------------------------------------------------------------
\* The children of the node that is being split.
Under1(t, P) == {m \in t.G : t.par[m] = P}

\* Between h and g the links of the leaves b and c change, if at all: b is before c.
LinkedOnly(h, g, on, b, c) ==
    \A m \in NodeIds : IsLeaf(h, m) =>
       /\ g[m].nextLeaf = IF on /\ m = b THEN c ELSE h[m].nextLeaf
       /\ g[m].prevLeaf = IF on /\ m = c THEN b ELSE h[m].prevLeaf

\* l and e say the same of the way up.
Carries(l, e) ==
    /\ e.parent = l.parent /\ e.N = l.N /\ e.Nprime = l.Nprime /\ e.k = l.k /\ e.n = l.n
    /\ e.leaked = l.leaked

\* A step of the loop keeps the tree, all but the parents of the children of P.
Moved(h, g, t, P, X, e, r) ==
    /\ Stands(g, t, P, Under1(t, P), X)
    /\ Climbing(g, t, e, r)
    /\ \A m \in t.G : SameBody(h[m], g[m])

\* What a child c of P, the neighbour b before it, is to its links.
LEMMA LinksMoved ==
    ASSUME NEW h \in Heap, NEW g \in Edits(h), g # Fault, NEW t, NEW P \in t.G, NEW X,
           Stands(h, t, P, Under1(t, P), X), IsInner(h, P), t.lev[P] > 0,
           NEW d, d \notin t.G,
           \A m \in NodeIds \ {d} : Live(h, m) => SameBody(h[m], g[m]),
           \A m \in t.G : m \notin Under1(t, P) => g[m].parent = h[m].parent,
           NEW b, NEW c, NEW on \in BOOLEAN, on => Follows(t, b, c),
           LinkedOnly(h, g, on, b, c),
           NEW l, NEW r, Climbing(h, t, l, r), l.parent = P,
           NEW e, Carries(l, e)
    PROVE  Moved(h, g, t, P, X, e, r)
<1>1. SearchTree(t) /\ \A m \in t.G : m # P => Says(h, t, m)
  BY DEF Stands
<1>2. \A m \in t.G : m \in NodeIds /\ Live(h, m) /\ (t.lev[m] = 0 => IsLeaf(h, m))
  <2>1. \A m \in t.G : m \in NodeIds /\ m # NULL /\ t.lev[m] \in Nat
    BY <1>1, Numbers
  <2>2. ASSUME NEW m \in t.G PROVE Live(h, m) /\ (t.lev[m] = 0 => IsLeaf(h, m))
    <3>1. CASE m = P
      BY <2>1, <3>1 DEF IsInner
    <3>2. CASE m # P
      BY <1>1, <3>2 DEF Says, LeafSays, InnerSays, IsLeaf, IsInner
    <3> QED
      BY <3>1, <3>2
  <2> QED
    BY <2>1, <2>2
<1>3. \A m \in t.G : SameBody(h[m], g[m])
  BY <1>2
<1>4. Stands(g, t, P, Under1(t, P), X)
  <2>1. ASSUME NEW m \in t.G, t.lev[m] = 0
        PROVE  /\ \/ g[m].nextLeaf = h[m].nextLeaf
                  \/ Follows(t, m, g[m].nextLeaf)
                  \/ Follows(t, m, X)
               /\ \/ g[m].prevLeaf = h[m].prevLeaf
                  \/ Follows(t, g[m].prevLeaf, m)
                  \/ m = X /\ \E a : Follows(t, a, X)
    BY <1>2, <2>1 DEF LinkedOnly
  <2> QED
    BY <1>3, <2>1, StandsKept
<1>5. Climbing(g, t, e, r)
  <2>1. \A m : /\ Live(h, m) => Live(g, m)
               /\ Live(h, m) => (IsLeaf(g, m) <=> IsLeaf(h, m))
    BY EditsKeep
  <2>2. SameBody(h[l.N], g[l.N]) /\ SameBody(h[l.Nprime], g[l.Nprime])
        /\ (l.parent # NULL => SameBody(h[l.parent], g[l.parent]))
    BY <1>3 DEF Climbing
  <2> QED
    BY <1>1, <2>1, <2>2, ClimbKept DEF Carries
<1> QED
  BY <1>3, <1>4, <1>5 DEF Moved

\* Child c of P, number i, is put behind the last child of the new node d.
LEMMA ChildMoved ==
    ASSUME NEW h \in Heap, NEW g, NEW t, NEW P \in t.G, NEW X,
           Stands(h, t, P, Under1(t, P), X), IsInner(h, P), t.lev[P] > 0,
           NEW d, d \notin t.G, NEW k, NEW i \in 0 .. t.cnt[P], PairLast(h, g, d, k, t.ch[P][i]),
           IsInner(h, d), h[d].slotsinuse \in Nat,
           h[d].slotsinuse >= 1 => i >= 1 /\ h[d].firstChild[h[d].slotsinuse - 1] = t.ch[P][i - 1],
           NEW l, NEW r, Climbing(h, t, l, r), l.parent = P,
           NEW e, Carries(l, e)
    PROVE  Moved(h, g, t, P, X, e, r)
<1> DEFINE c == t.ch[P][i]
           b == t.ch[P][i - 1]
           n == h[d].slotsinuse
           on == IsLeaf(h, c) /\ n >= 1
<1>1. /\ g \in Edits(h) /\ g # Fault
      /\ \A m \in NodeIds \ {d} : Live(h, m) => SameBody(h[m], g[m])
      /\ \A m \in NodeIds : Live(h, m) => g[m].parent = IF m = c THEN d ELSE h[m].parent
      /\ \A m \in NodeIds : IsLeaf(h, m) =>
              /\ g[m].nextLeaf = IF IsLeaf(h, c) /\ n >= 1 /\ m = h[d].firstChild[n - 1]
                                 THEN c ELSE h[m].nextLeaf
              /\ g[m].prevLeaf = IF IsLeaf(h, c) /\ n >= 1 /\ m = c
                                 THEN h[d].firstChild[n - 1] ELSE h[m].prevLeaf
  BY DEF PairLast
<1>2. SearchTree(t) /\ \A m \in t.G : m # P => Says(h, t, m)
  BY DEF Stands
<1>3. c \in t.G /\ t.par[c] = P /\ t.lev[c] + 1 = t.lev[P]
  BY <1>2, ChildSpans DEF IsChild
<1>4. t.cnt[P] \in Nat
  BY <1>2, ChildSpans
<1>5. ASSUME n >= 1
      PROVE  /\ b \in t.G /\ t.lev[b] = t.lev[c] /\ (t.lev[b] = 0 => Follows(t, b, c))
             /\ h[d].firstChild[n - 1] = b
  <2>1. i >= 1 /\ h[d].firstChild[n - 1] = b
    BY <1>5
  <2>2. i - 1 \in 0 .. t.cnt[P] - 1 /\ (i - 1) + 1 = i
    BY <1>4, <2>1
  <2>3. LET x == t.ch[P][i - 1]
            y == t.ch[P][(i - 1) + 1]
        IN  /\ x \in t.G /\ t.lev[x] = t.lev[y]
            /\ t.lev[x] = 0 => Follows(t, x, y)
    BY <1>2, <2>2, Siblings
  <2> QED
    BY <2>1, <2>2, <2>3
<1>6. c # P /\ (IsLeaf(h, c) <=> t.lev[c] = 0) /\ t.lev[c] \in Nat
  <2>1. c # P /\ t.lev[c] \in Nat
    BY <1>2, <1>3, Numbers
  <2>2. Says(h, t, c)
    BY <1>2, <1>3, <2>1
  <2> QED
    BY <2>1, <2>2 DEF Says, LeafSays, InnerSays, IsLeaf, IsInner
<1> HIDE DEF b, c, n
<1>7. on => Follows(t, b, c)
  BY <1>5, <1>6
<1>8. \A m \in t.G : m \notin Under1(t, P) => g[m].parent = h[m].parent
  <2>1. ASSUME NEW m \in t.G, m \notin Under1(t, P) PROVE m # c /\ m \in NodeIds /\ Live(h, m)
    <3>1. m # c /\ m \in NodeIds
      BY <1>2, <1>3, <2>1, Numbers DEF Under1
    <3>2. CASE m = P
      BY <3>1, <3>2 DEF IsInner
    <3>3. CASE m # P
      BY <1>2, <3>1, <3>3 DEF Says, LeafSays, InnerSays, IsLeaf, IsInner
    <3> QED
      BY <3>1, <3>2, <3>3
  <2> QED
    BY <1>1, <2>1
<1>9. LinkedOnly(h, g, on, b, c)
  BY <1>1, <1>5 DEF LinkedOnly
<1>10. on \in BOOLEAN
  BY DEF IsLeaf
<1> HIDE DEF on
<1>11. g \in Edits(h) /\ g # Fault /\ \A m \in NodeIds \ {d} : Live(h, m) => SameBody(h[m], g[m])
  BY <1>1
<1> QED
  BY <1>7, <1>8, <1>9, <1>10, <1>11, LinksMoved

\* The cut between the children i - 1 and i of P.
LEMMA CutMoved ==
    ASSUME NEW h \in Heap, NEW g, NEW t, NEW P \in t.G, NEW X,
           Stands(h, t, P, Under1(t, P), X), IsInner(h, P), t.lev[P] > 0,
           NEW d, d \notin t.G, NEW i \in 1 .. t.cnt[P],
           FirstHalfCut(h, g, d, t.ch[P][i - 1], t.ch[P][i]),
           NEW l, NEW r, Climbing(h, t, l, r), l.parent = P,
           NEW e, Carries(l, e)
    PROVE  Moved(h, g, t, P, X, e, r)
<1> DEFINE c == t.ch[P][i]
           b == t.ch[P][i - 1]
           on == IsLeaf(h, c)
<1>1. /\ g \in Edits(h) /\ g # Fault
      /\ \A m \in NodeIds \ {d} : Live(h, m) => SameBody(h[m], g[m])
      /\ \A m \in NodeIds : Live(h, m) => g[m].parent = h[m].parent
      /\ \A m \in NodeIds : IsLeaf(h, m) =>
              /\ g[m].nextLeaf = IF on /\ m = b THEN c ELSE h[m].nextLeaf
              /\ g[m].prevLeaf = IF on /\ m = c THEN b ELSE h[m].prevLeaf
  BY DEF FirstHalfCut
<1>2. SearchTree(t) /\ \A m \in t.G : m # P => Says(h, t, m)
  BY DEF Stands
<1>3. t.cnt[P] \in Nat
  BY <1>2, ChildSpans
<1>4. i - 1 \in 0 .. t.cnt[P] - 1 /\ (i - 1) + 1 = i /\ i \in 0 .. t.cnt[P]
  BY <1>3
<1>5. c \in t.G /\ t.lev[c] + 1 = t.lev[P]
  BY <1>2, <1>4, ChildSpans DEF IsChild
<1>6. t.lev[c] = 0 => Follows(t, b, c)
  <2>1. LET x == t.ch[P][i - 1]
            y == t.ch[P][(i - 1) + 1]
        IN  /\ x \in t.G /\ t.lev[x] = t.lev[y]
            /\ t.lev[x] = 0 => Follows(t, x, y)
    BY <1>2, <1>4, Siblings
  <2> QED
    BY <1>4, <2>1
<1>7. on => t.lev[c] = 0
  <2>1. c # P
    BY <1>2, <1>5, Numbers
  <2>2. Says(h, t, c)
    BY <1>2, <1>5, <2>1
  <2> QED
    BY <2>2 DEF Says, LeafSays, InnerSays, IsLeaf, IsInner
<1> HIDE DEF b, c
<1>8. \A m \in t.G : m \notin Under1(t, P) => g[m].parent = h[m].parent
  <2>1. ASSUME NEW m \in t.G PROVE m \in NodeIds /\ Live(h, m)
    <3>1. m \in NodeIds
      BY <1>2, Numbers
    <3>2. CASE m = P
      BY <3>1, <3>2 DEF IsInner
    <3>3. CASE m # P
      BY <1>2, <3>1, <3>3 DEF Says, LeafSays, InnerSays, IsLeaf, IsInner
    <3> QED
      BY <3>1, <3>2, <3>3
  <2> QED
    BY <1>1, <2>1
<1>9. on \in BOOLEAN
  BY DEF IsLeaf
<1>10. LinkedOnly(h, g, on, b, c)
  BY <1>1 DEF LinkedOnly
<1>11. g \in Edits(h) /\ g # Fault /\ \A m \in NodeIds \ {d} : Live(h, m) => SameBody(h[m], g[m])
  BY <1>1
<1>12. on => Follows(t, b, c)
  BY <1>6, <1>7
<1> HIDE DEF on
<1> QED
  BY <1>8, <1>9, <1>10, <1>11, <1>12, LinksMoved

-----------------------------------------------------------------------------
\* split_parent starts with two new nodes and has copied nothing yet.
LEMMA SplitParentKeepsShape ==
    ASSUME AppendInv, SplitParent
    PROVE  Grown'
<1> DEFINE P  == local.parent
           s  == heap[P].slotsinuse
           h1 == new(heap, FirstId, NewInner)
           g  == new(h1, SecondId, NewInner)
           l  == [parent |-> local.parent, N |-> local.N, k |-> local.k,
                  Nprime |-> local.Nprime, n |-> local.n, leaked |-> local.leaked,
                  pNode |-> FirstId, ppNode |-> SecondId,
                  i |-> 0, slot |-> 0, j |-> 0, added |-> FALSE, kp |-> Junk]
<1>1. /\ pc = "insert_in_parent" /\ IsInner(heap, P) /\ heap[P].numChildren >= NodeSlots + 1
      /\ Go(g, "split_parent", l) /\ UNCHANGED <<root, totalkeycount, call>>
  BY DEF SplitParent
<1>2. PICK t : /\ root # NULL /\ heap \in Heap /\ Within(heap)
               /\ \A m \in {local.N, local.Nprime, local.n} \cup local.leaked : Live(heap, m)
               /\ Rising(heap, t, local, root) /\ SearchTree(t)
               /\ totalkeycount = Cardinality(Pairs(heap, t))
  BY <1>1, AtClimb
<1>3. Climbing(heap, t, local, root) /\ Stands(heap, t, P, {local.N, local.Nprime}, local.N)
  BY <1>2 DEF Rising
<1>4. P # NULL /\ Behind(heap, t, local)
  <2>1. P # NULL
    BY <1>1, NodeIdsAssumption DEF IsInner, Live
  <2> QED
    BY <1>3, <2>1 DEF Climbing
<1>5. /\ P \in t.G /\ P \in NodeIds /\ t.lev[P] > 0
      /\ s \in Nat /\ s >= 1 /\ heap[P].numChildren = s + 1 /\ t.cnt[P] = s + 1
      /\ t.ch[P][s] = local.N /\ t.ch[P][s + 1] = local.Nprime
  BY <1>2, <1>4, BehindNumbers
<1>6. s = NodeSlots
  <2>1. Room(heap[P]) /\ ~heap[P].isleafnode
    BY <1>1, <1>2, LiveTypes DEF IsInner, Live, Within
  <2>2. s <= NodeSlots
    BY <2>1 DEF Room
  <2> HIDE DEF s
  <2> QED
    BY <1>1, <1>5, <2>2, SlotsAssumption
<1>7. /\ FirstId \in NodeIds /\ SecondId \in NodeIds /\ FirstId # SecondId
      /\ heap[FirstId] = Free /\ heap[SecondId] = Free
  BY Addresses DEF SplitParent
<1>8. NewInner \in node
  BY NewNodes DEF node, NewInner
<1>9. h1 \in Heap /\ h1[FirstId] = NewInner /\ \A m \in NodeIds \ {FirstId} : h1[m] = heap[m]
  BY <1>2, <1>7, <1>8, NewInHeap
<1>10. g \in Heap /\ g[SecondId] = NewInner /\ \A m \in NodeIds \ {SecondId} : g[m] = h1[m]
  <2> HIDE DEF h1
  <2> QED
    BY <1>7, <1>8, <1>9, NewInHeap
<1> HIDE DEF h1, g
<1>11. \A m \in NodeIds : Live(heap, m) => g[m] = heap[m] /\ m \notin {FirstId, SecondId}
  BY <1>7, <1>9, <1>10 DEF Live
<1>12. \A m : Live(heap, m) => Live(g, m) /\ (IsLeaf(g, m) <=> IsLeaf(heap, m))
  BY <1>11 DEF Live, IsLeaf
<1>13. \A m \in t.G : m \in NodeIds /\ Live(heap, m)
  <2>1. \A m \in t.G : m # P => Says(heap, t, m)
    BY <1>3 DEF Stands
  <2>2. \A m \in t.G : m # P => Live(heap, m)
    BY <2>1 DEF Says, LeafSays, InnerSays, IsLeaf, IsInner
  <2>3. Live(heap, P)
    BY <1>1 DEF IsInner
  <2> QED
    BY <1>2, <2>2, <2>3, Numbers
<1>14. \A m \in t.G : g[m] = heap[m]
  BY <1>11, <1>13
<1>15. Stands(g, t, P, Under1(t, P), local.N)
  <2>1. {local.N, local.Nprime} \subseteq Under1(t, P)
    <3> DEFINE N == t.ch[P][s]
               M == t.ch[P][s + 1]
    <3>1. N \in t.G /\ M \in t.G /\ t.par[N] = P /\ t.par[M] = P
      <4> HIDE DEF s, P
      <4> QED
        BY <1>2, <1>5, TopChildren
    <3>2. N = local.N /\ M = local.Nprime
      BY <1>5
    <3> HIDE DEF N, M, P
    <3> QED
      BY <3>1, <3>2 DEF Under1
  <2> HIDE DEF P
  <2>2. Stands(heap, t, P, Under1(t, P), local.N)
    BY <1>3, <2>1 DEF Stands
  <2> QED
    BY <1>14, <2>2, StandsSame
<1>16. \A m \in t.G : SameBody(heap[m], g[m])
  BY <1>14 DEF SameBody
<1>17. Climbing(g, t, l, root)
  <2>1. local.N \in t.G /\ local.Nprime \in t.G
    BY <1>3 DEF Climbing
  <2>2. /\ SameBody(heap[local.N], g[local.N]) /\ SameBody(heap[local.Nprime], g[local.Nprime])
        /\ local.parent # NULL => SameBody(heap[local.parent], g[local.parent])
    BY <1>5, <1>16, <2>1
  <2>3. Carries(local, l)
    BY DEF Carries
  <2> HIDE DEF l
  <2> QED
    BY <1>2, <1>3, <1>12, <2>2, <2>3, ClimbKept DEF Carries
<1>18. Copied(g, t, l)
  <2>1. g[P].slotsinuse = NodeSlots
    BY <1>5, <1>6, <1>14
  <2>2. /\ l.parent = P /\ l.i = 0 /\ l.slot = 0 /\ l.j = 0 /\ l.added = FALSE
        /\ l.pNode = FirstId /\ l.ppNode = SecondId /\ l.n = local.n /\ l.leaked = local.leaked
    OBVIOUS
  <2>3. FirstId \notin t.G /\ SecondId \notin t.G
    BY <1>11, <1>13
  <2>4. {FirstId, SecondId} \cap ({local.n} \cup local.leaked) = {}
    <3>1. \A m \in {local.n} \cup local.leaked : Live(heap, m)
      BY <1>2
    <3> QED
      BY <1>7, <3>1 DEF Live
  <2>5. g[FirstId] = NewInner /\ g[SecondId] = NewInner
    BY <1>7, <1>9, <1>10
  <2>6. IsInner(g, FirstId) /\ IsInner(g, SecondId)
    <3>1. NewInner # Free
      BY <1>8, FreeAssumption
    <3>2. ~NewInner.isleafnode
      BY DEF NewInner
    <3> QED
      BY <1>7, <2>5, <3>1, <3>2 DEF IsInner, Live
  <2>7. NodeSlots \div 2 \in Nat /\ NodeSlots \in Nat
    BY SlotsAssumption
  <2>8. /\ NewInner.numChildren = 0 /\ NewInner.slotsinuse = 0 /\ ~NewInner.isrootnode
    BY DEF NewInner
  <2> HIDE DEF l, P
  <2> DEFINE half == NodeSlots \div 2
             low  == IF l.i <= half + 1 THEN l.i ELSE half + 1
  <2>9. low = 0 /\ ~(l.i > half + 1) /\ l.i <= half + 1 /\ 0 .. low - 1 = {} /\ 0 .. 0 - 1 = {}
        /\ 0 \in 0 .. NodeSlots /\ 0 - 0 = 0
    <3> HIDE DEF half
    <3> QED
      BY <2>2, <2>7 DEF half
  <2> HIDE DEF low, half
  <2>10. /\ l.i \in 0 .. NodeSlots /\ l.slot = l.i /\ l.j = l.i - low /\ ~l.added
         /\ g[l.pNode].numChildren = low /\ g[l.pNode].slotsinuse = l.i
         /\ g[l.ppNode].numChildren = l.j /\ g[l.ppNode].slotsinuse = l.j
         /\ ~g[l.pNode].isrootnode /\ ~g[l.ppNode].isrootnode
         /\ l.i - low = 0 /\ 0 .. (l.i - low) - 1 = {} /\ 0 .. l.i - 1 = {}
    BY <2>2, <2>5, <2>8, <2>9
  <2> QED
    BY <1>7, <2>1, <2>2, <2>3, <2>4, <2>6, <2>9, <2>10 DEF Copied, low, half
<1>19. Shape(g, t, "split_parent", l, call', root')
  <2>1. l.parent = P /\ l.N = local.N /\ P # NULL
    BY <1>4
  <2> HIDE DEF l, P
  <2> QED
    BY <1>1, <1>15, <1>17, <1>18, <2>1 DEF Shape, Splitting, Under1
<1>20. Pairs(g, t) = Pairs(heap, t)
  BY <1>14, PairsKept
<1>21. g # Fault
  BY <1>10, NewInHeap, <1>7, <1>13, <1>5, <1>11 DEF Fault, Live
<1> HIDE DEF l
<1> QED
  BY <1>1, <1>2, <1>19, <1>20, <1>21, GoGrows

-----------------------------------------------------------------------------
\* The new inner node d holds n pairs of P, those from x0 on.
Filling(h, t, P, d, x0, n) ==
    /\ IsInner(h, d) /\ ~h[d].isrootnode
    /\ h[d].numChildren = n /\ h[d].slotsinuse = n
    /\ \A x \in 0 .. n - 1 : h[d].keySlots[x] = t.ks[P][x + x0]
                             /\ h[d].firstChild[x] = t.ch[P][x + x0]

\* The first new node after the cut.
FirstHalf(h, t, P, d, half) ==
    /\ IsInner(h, d) /\ ~h[d].isrootnode
    /\ h[d].numChildren = half + 1 /\ h[d].slotsinuse = half
    /\ \A x \in 0 .. half : h[d].keySlots[x] = t.ks[P][x] /\ h[d].firstChild[x] = t.ch[P][x]

\* What the loop has besides the new nodes' pairs.
Halfway(h, t, l) ==
    LET P    == l.parent
        half == NodeSlots \div 2
    IN  /\ h[P].slotsinuse = NodeSlots /\ l.i \in 0 .. NodeSlots /\ l.slot = l.i /\ ~l.added
        /\ l.pNode \in NodeIds \ t.G /\ l.ppNode \in NodeIds \ t.G /\ l.pNode # l.ppNode
        /\ {l.pNode, l.ppNode} \cap ({l.n} \cup l.leaked) = {}
        /\ \A x \in 0 .. l.i - 1 :
              h[t.ch[P][x]].parent = IF x <= half THEN l.pNode ELSE l.ppNode

\* The loop before and after the cut.
LEMMA CopiedBefore ==
    ASSUME NEW h, NEW t, NEW l, l.i \in Nat, NEW half, half = NodeSlots \div 2, half \in Nat,
           l.i <= half + 1
    PROVE  Copied(h, t, l) <=> /\ Halfway(h, t, l) /\ l.j = 0
                               /\ Filling(h, t, l.parent, l.pNode, 0, l.i)
                               /\ Filling(h, t, l.parent, l.ppNode, half + 1, 0)
<1> DEFINE low  == IF l.i <= half + 1 THEN l.i ELSE half + 1
           P == l.parent
<1>1. low = l.i /\ l.i - low = 0 /\ ~(l.i > half + 1) /\ 0 .. 0 - 1 = {}
      /\ \A x \in 0 .. l.i - 1 : x + 0 = x
  OBVIOUS
<1>2. Filling(h, t, P, l.pNode, 0, l.i) <=>
        /\ IsInner(h, l.pNode) /\ ~h[l.pNode].isrootnode
        /\ h[l.pNode].numChildren = l.i /\ h[l.pNode].slotsinuse = l.i
        /\ \A x \in 0 .. l.i - 1 : h[l.pNode].keySlots[x] = t.ks[P][x]
                             /\ h[l.pNode].firstChild[x] = t.ch[P][x]
  BY <1>1 DEF Filling
<1>3. Filling(h, t, P, l.ppNode, half + 1, 0) <=>
        /\ IsInner(h, l.ppNode) /\ ~h[l.ppNode].isrootnode
        /\ h[l.ppNode].numChildren = 0 /\ h[l.ppNode].slotsinuse = 0
  BY <1>1 DEF Filling
<1> HIDE DEF low
<1>4. Copied(h, t, l) <=>
        /\ Halfway(h, t, l) /\ l.j = l.i - low
        /\ IsInner(h, l.pNode) /\ ~h[l.pNode].isrootnode
        /\ h[l.pNode].numChildren = low
        /\ h[l.pNode].slotsinuse = IF l.i <= half + 1 THEN l.i ELSE half
        /\ \A x \in 0 .. low - 1 : /\ h[l.pNode].keySlots[x] = t.ks[P][x]
                                   /\ h[l.pNode].firstChild[x] = t.ch[P][x]
        /\ IsInner(h, l.ppNode) /\ ~h[l.ppNode].isrootnode
        /\ h[l.ppNode].numChildren = l.i - low /\ h[l.ppNode].slotsinuse = l.i - low
        /\ \A x \in 0 .. (l.i - low) - 1 : /\ h[l.ppNode].keySlots[x] = t.ks[P][x + (half + 1)]
                                 /\ h[l.ppNode].firstChild[x] = t.ch[P][x + (half + 1)]
        /\ l.i > half + 1 => l.kp = t.ks[P][half]
  BY DEF Copied, Halfway, low
<1> HIDE DEF P
<1>5. Copied(h, t, l) <=>
        /\ Halfway(h, t, l) /\ l.j = 0
        /\ IsInner(h, l.pNode) /\ ~h[l.pNode].isrootnode
        /\ h[l.pNode].numChildren = l.i
        /\ h[l.pNode].slotsinuse = l.i
        /\ \A x \in 0 .. l.i - 1 : /\ h[l.pNode].keySlots[x] = t.ks[P][x]
                                   /\ h[l.pNode].firstChild[x] = t.ch[P][x]
        /\ IsInner(h, l.ppNode) /\ ~h[l.ppNode].isrootnode
        /\ h[l.ppNode].numChildren = 0 /\ h[l.ppNode].slotsinuse = 0
  BY <1>1, <1>4
<1> QED
  BY <1>2, <1>3, <1>5 DEF P

\* Beyond the cut the first half is complete and the second is being filled.
LEMMA CopiedAfter ==
    ASSUME NEW h, NEW t, NEW l, l.i \in Nat, NEW half, half = NodeSlots \div 2, half \in Nat,
           l.i > half + 1
    PROVE  Copied(h, t, l) <=> /\ Halfway(h, t, l) /\ l.j = l.i - (half + 1)
                               /\ FirstHalf(h, t, l.parent, l.pNode, half)
                               /\ Filling(h, t, l.parent, l.ppNode, half + 1, l.j)
                               /\ l.kp = t.ks[l.parent][half]
<1> DEFINE low  == IF l.i <= half + 1 THEN l.i ELSE half + 1
           P == l.parent
<1>1. low = half + 1 /\ ~(l.i <= half + 1) /\ low - 1 = half
  OBVIOUS
<1> HIDE DEF low
<1>4. Copied(h, t, l) <=>
        /\ Halfway(h, t, l) /\ l.j = l.i - low
        /\ IsInner(h, l.pNode) /\ ~h[l.pNode].isrootnode
        /\ h[l.pNode].numChildren = low
        /\ h[l.pNode].slotsinuse = IF l.i <= half + 1 THEN l.i ELSE half
        /\ \A x \in 0 .. low - 1 : /\ h[l.pNode].keySlots[x] = t.ks[P][x]
                                   /\ h[l.pNode].firstChild[x] = t.ch[P][x]
        /\ IsInner(h, l.ppNode) /\ ~h[l.ppNode].isrootnode
        /\ h[l.ppNode].numChildren = l.j /\ h[l.ppNode].slotsinuse = l.j
        /\ \A x \in 0 .. l.j - 1 : /\ h[l.ppNode].keySlots[x] = t.ks[P][x + (half + 1)]
                                 /\ h[l.ppNode].firstChild[x] = t.ch[P][x + (half + 1)]
        /\ l.i > half + 1 => l.kp = t.ks[P][half]
  BY DEF Copied, Halfway, low
<1> HIDE DEF P
<1>5. FirstHalf(h, t, P, l.pNode, half) <=>
        /\ IsInner(h, l.pNode) /\ ~h[l.pNode].isrootnode
        /\ h[l.pNode].numChildren = low
        /\ h[l.pNode].slotsinuse = IF l.i <= half + 1 THEN l.i ELSE half
        /\ \A x \in 0 .. low - 1 : /\ h[l.pNode].keySlots[x] = t.ks[P][x]
                                   /\ h[l.pNode].firstChild[x] = t.ch[P][x]
  BY <1>1 DEF FirstHalf
<1>6. Filling(h, t, P, l.ppNode, half + 1, l.j) <=>
        /\ IsInner(h, l.ppNode) /\ ~h[l.ppNode].isrootnode
        /\ h[l.ppNode].numChildren = l.j /\ h[l.ppNode].slotsinuse = l.j
        /\ \A x \in 0 .. l.j - 1 : /\ h[l.ppNode].keySlots[x] = t.ks[P][x + (half + 1)]
                                 /\ h[l.ppNode].firstChild[x] = t.ch[P][x + (half + 1)]
  BY DEF Filling
<1> QED
  BY <1>1, <1>4, <1>5, <1>6 DEF P

\* One more pair in the node d, none in another.
LEMMA FillingMore ==
    ASSUME NEW h \in Heap, NEW g, NEW t, NEW P, NEW d, NEW x0 \in Nat, NEW n \in Nat,
           Filling(h, t, P, d, x0, n), NEW k, NEW c, k = t.ks[P][n + x0], c = t.ch[P][n + x0],
           PairLast(h, g, d, k, c)
    PROVE  Filling(g, t, P, d, x0, n + 1)
<1>1. /\ h[d].slotsinuse = n /\ IsInner(h, d) /\ ~h[d].isrootnode
      /\ \A x \in 0 .. n - 1 : h[d].keySlots[x] = t.ks[P][x + x0]
                               /\ h[d].firstChild[x] = t.ch[P][x + x0]
  BY DEF Filling
<1>2. /\ g \in Edits(h) /\ g # Fault
      /\ g[d].slotsinuse = n + 1 /\ g[d].numChildren = n + 1
      /\ \A i \in 0 .. n - 1 : /\ g[d].keySlots[i] = h[d].keySlots[i]
                               /\ g[d].firstChild[i] = h[d].firstChild[i]
      /\ g[d].keySlots[n] = k /\ g[d].firstChild[n] = c
      /\ g[d].isrootnode = h[d].isrootnode
  BY <1>1 DEF PairLast
<1>3. IsInner(g, d)
  BY <1>1, <1>2, EditsKeep
<1>4. ASSUME NEW x \in 0 .. (n + 1) - 1
      PROVE  g[d].keySlots[x] = t.ks[P][x + x0] /\ g[d].firstChild[x] = t.ch[P][x + x0]
  <2>1. x \in 0 .. n - 1 \/ x = n
    OBVIOUS
  <2> QED
    BY <1>1, <1>2, <2>1
<1> QED
  BY <1>1, <1>2, <1>3, <1>4 DEF Filling

\* A half keeps what it holds while other nodes change.
LEMMA FillingKept ==
    ASSUME NEW h \in Heap, NEW g \in Edits(h), g # Fault, NEW t, NEW P, NEW d, NEW x0, NEW n,
           Filling(h, t, P, d, x0, n), SameBody(h[d], g[d])
    PROVE  Filling(g, t, P, d, x0, n)
<1>1. IsInner(g, d) /\ ~h[d].isleafnode
  BY EditsKeep DEF Filling, IsInner
<1> QED
  BY <1>1 DEF Filling, SameBody

\* From h to g the child at l.i of P gets one of the new nodes as its parent.
Reparented(h, g, t, l, half) ==
    \A m \in NodeIds : Live(h, m) =>
        g[m].parent = IF m = t.ch[l.parent][l.i]
                      THEN (IF l.i <= half THEN l.pNode ELSE l.ppNode) ELSE h[m].parent

\* The loop's children have their new parents.
LEMMA HalfwayMore ==
    ASSUME NEW h \in Heap, NEW g, NEW t, SearchTree(t), NEW l, Halfway(h, t, l),
           l.parent \in t.G, t.lev[l.parent] > 0, l.i <= t.cnt[l.parent], l.i < NodeSlots,
           \A m \in t.G : Live(h, m),
           NEW half, half = NodeSlots \div 2, half \in Nat,
           Reparented(h, g, t, l, half),
           SameBody(h[l.parent], g[l.parent]),
           NEW e, Carries(l, e), e.i = l.i + 1, e.slot = l.slot + 1, e.added = FALSE,
           e.pNode = l.pNode, e.ppNode = l.ppNode
    PROVE  Halfway(g, t, e)
<1> DEFINE P == l.parent
           c == t.ch[P][l.i]
<1>1. /\ h[P].slotsinuse = NodeSlots /\ l.i \in 0 .. NodeSlots /\ l.slot = l.i
      /\ l.pNode \in NodeIds \ t.G /\ l.ppNode \in NodeIds \ t.G /\ l.pNode # l.ppNode
      /\ {l.pNode, l.ppNode} \cap ({l.n} \cup l.leaked) = {}
      /\ \A x \in 0 .. l.i - 1 : h[t.ch[P][x]].parent = IF x <= half THEN l.pNode ELSE l.ppNode
  BY DEF Halfway
<1>2. t.cnt[P] \in Nat /\ \A x \in 0 .. t.cnt[P] : IsChild(t, P, x) /\ t.ch[P][x] \in t.G
  BY ChildSpans
<1>3. NodeSlots \in Nat /\ l.i \in Nat /\ l.i \in 0 .. t.cnt[P]
  BY <1>1, <1>2, SlotsAssumption
<1>4. e.i \in 0 .. NodeSlots /\ e.slot = e.i /\ e.i - 1 = l.i
  BY <1>1, <1>3
<1>5. g[P].slotsinuse = NodeSlots
  BY <1>1 DEF SameBody
<1> HIDE DEF P, c
<1>6. ASSUME NEW x \in 0 .. l.i
      PROVE  g[t.ch[P][x]].parent = IF x <= half THEN l.pNode ELSE l.ppNode
  <2>1. x \in 0 .. t.cnt[P]
    BY <1>2, <1>3
  <2>2. t.ch[P][x] \in t.G /\ t.ix[t.ch[P][x]] = x /\ t.ix[c] = l.i
    BY <1>2, <1>3, <2>1 DEF IsChild, c
  <2>3. t.ch[P][x] \in NodeIds /\ Live(h, t.ch[P][x])
    BY <2>2, Numbers
  <2>4. CASE x = l.i
    BY <2>3, <2>4 DEF c, P, Reparented
  <2>5. CASE x # l.i
    <3>1. t.ch[P][x] # c /\ x \in 0 .. l.i - 1
      BY <1>3, <2>2, <2>5
    <3>2. g[t.ch[P][x]].parent = h[t.ch[P][x]].parent
      BY <2>3, <3>1 DEF c, P, Reparented
    <3> QED
      BY <1>1, <3>1, <3>2
  <2> QED
    BY <2>4, <2>5
<1>7. e.parent = P /\ e.n = l.n /\ e.leaked = l.leaked
  BY DEF Carries, P
<1> QED
  BY <1>1, <1>4, <1>5, <1>6, <1>7 DEF Halfway

\* The loop puts pair i of P behind the pairs of the new node d.
LEMMA PairCopied ==
    ASSUME NEW h \in Heap, NEW t, NEW X, NEW l, NEW r, Climbing(h, t, l, r),
           NEW P, P = l.parent, P # NULL, Stands(h, t, P, Under1(t, P), X),
           NEW d, d \notin t.G, NEW x0 \in Nat, NEW n \in Nat, Filling(h, t, P, d, x0, n),
           NEW i, i = n + x0, h[P].slotsinuse = NodeSlots, i < NodeSlots,
           NEW e, Carries(l, e)
    PROVE  LET g == PlaceOldPair(h, d, h[P], i, n)
           IN  /\ PairLast(h, g, d, t.ks[P][i], t.ch[P][i])
               /\ Moved(h, g, t, P, X, e, r)
<1> DEFINE s == h[P].slotsinuse
           g == PlaceOldPair(h, d, h[P], i, n)
           c == t.ch[P][i]
           b == t.ch[P][i - 1]
<1>1. SearchTree(t) /\ Behind(h, t, l) /\ \A m \in t.G : m # P => Says(h, t, m)
  BY DEF Stands, Climbing
<1>2. /\ P \in t.G /\ P \in NodeIds /\ t.lev[P] > 0 /\ IsInner(h, P) /\ h[P] \in innerNode
      /\ s \in Nat /\ t.cnt[P] = s + 1
      /\ \A x \in 0 .. s - 1 : h[P].keySlots[x] = t.ks[P][x] /\ h[P].firstChild[x] = t.ch[P][x]
  BY <1>1, BehindNumbers
<1>3. /\ IsInner(h, d) /\ h[d].numChildren = n /\ h[d].slotsinuse = n
      /\ \A x \in 0 .. n - 1 : h[d].firstChild[x] = t.ch[P][x + x0]
  BY DEF Filling
<1>4. /\ i \in 0 .. s - 1 /\ i \in 0 .. t.cnt[P] /\ n < NodeSlots /\ i \in InnerIndex
      /\ i >= 1 => i - 1 \in 0 .. t.cnt[P] - 1 /\ i - 1 + 1 = i
  BY <1>2, SlotsAssumption DEF InnerIndex
<1>5. KeyAt(h[P], i) = t.ks[P][i] /\ h[P].firstChild[i] = c
  <2>1. i \in DOMAIN h[P].keySlots
    BY <1>2, <1>4 DEF innerNode
  <2> QED
    BY <1>2, <1>4, <2>1 DEF KeyAt
<1>6. n >= 1 => i >= 1 /\ h[d].firstChild[n - 1] = b
  <2>1. n >= 1 => n - 1 \in 0 .. n - 1 /\ (n - 1) + x0 = i - 1 /\ i >= 1
    OBVIOUS
  <2> QED
    BY <1>3, <2>1
<1>7. c \in t.G /\ c # P /\ (IsLeaf(h, c) <=> t.lev[c] = 0) /\ Live(h, c) /\ c # d
  <2>1. c \in t.G /\ t.lev[c] + 1 = t.lev[P]
    BY <1>1, <1>2, <1>4, ChildSpans DEF IsChild
  <2> HIDE DEF c
  <2>2. c # P
    BY <1>1, <2>1, Numbers
  <2>3. Says(h, t, c)
    BY <1>1, <2>1, <2>2
  <2> QED
    BY <2>1, <2>2, <2>3 DEF Says, LeafSays, InnerSays, IsLeaf, IsInner
<1>8. i >= 1 => b \in t.G /\ t.lev[b] = t.lev[c] /\ b # c
  <2>1. ASSUME i >= 1
        PROVE  LET x == t.ch[P][i - 1]
                   y == t.ch[P][i - 1 + 1]
               IN  x \in t.G /\ x # y /\ t.lev[x] = t.lev[y]
    <3> DEFINE z == i - 1
    <3>1. z \in 0 .. t.cnt[P] - 1
      BY <1>4, <2>1
    <3> HIDE DEF z
    <3>2. LET x == t.ch[P][z]
              y == t.ch[P][z + 1]
          IN  x \in t.G /\ x # y /\ t.lev[x] = t.lev[y]
      BY <1>1, <1>2, <3>1, Siblings
    <3> QED
      BY <3>2 DEF z
  <2> QED
    BY <1>4, <2>1
<1> HIDE DEF b, c
<1>9. IsLeaf(h, c) /\ n >= 1 => IsLeaf(h, h[d].firstChild[n - 1]) /\ h[d].firstChild[n - 1] # c
  <2> SUFFICES ASSUME IsLeaf(h, c), n >= 1
               PROVE  IsLeaf(h, b) /\ b # c
    BY <1>6
  <2>1. b \in t.G /\ t.lev[b] = 0 /\ b # c
    BY <1>6, <1>7, <1>8
  <2>2. b # P
    BY <1>1, <1>2, <2>1, Numbers
  <2>3. Says(h, t, b)
    BY <1>1, <2>1, <2>2
  <2> QED
    BY <2>1, <2>3 DEF Says, LeafSays
<1>10. PairLast(h, g, d, t.ks[P][i], c)
  <2> DEFINE p == h[P]
  <2>1. p \in node /\ Live(h, p.firstChild[i]) /\ p.firstChild[i] # d
    BY <1>2, <1>5, <1>7 DEF node
  <2>2. IsLeaf(h, p.firstChild[i]) /\ n >= 1 =>
               IsLeaf(h, h[d].firstChild[n - 1]) /\ h[d].firstChild[n - 1] # p.firstChild[i]
    BY <1>5, <1>9
  <2>3. KeyAt(p, i) = t.ks[P][i] /\ p.firstChild[i] = c
    BY <1>5
  <2> HIDE DEF p
  <2>4. PairLast(h, PlaceOldPair(h, d, p, i, n), d, KeyAt(p, i), p.firstChild[i])
    BY <1>3, <1>4, <2>1, <2>2, OldPairPlaced
  <2> QED
    BY <2>3, <2>4 DEF p
<1> HIDE DEF g
<1>11. Moved(h, g, t, P, X, e, r)
  <2>1. /\ h[d].slotsinuse \in Nat
        /\ h[d].slotsinuse >= 1 => i >= 1 /\ h[d].firstChild[h[d].slotsinuse - 1] = t.ch[P][i - 1]
    BY <1>3, <1>6 DEF b
  <2>2. PairLast(h, g, d, t.ks[P][i], t.ch[P][i]) /\ l.parent = P
    BY <1>10 DEF c
  <2> QED
    BY <1>2, <1>3, <1>4, <2>1, <2>2, ChildMoved
<1> QED
  BY <1>10, <1>11 DEF g, c

-----------------------------------------------------------------------------
\* The cut behind the first half.
LEMMA CutCopied ==
    ASSUME NEW h \in Heap, NEW t, NEW X, NEW l, NEW r, Climbing(h, t, l, r),
           NEW P, P = l.parent, Stands(h, t, P, Under1(t, P), X), P \in t.G, t.lev[P] > 0,
           IsInner(h, P), NEW d, d \notin t.G, IsInner(h, d), h[d].slotsinuse >= 1,
           h[d].slotsinuse <= NodeSlots, NEW i \in 1 .. t.cnt[P],
           NEW p, p.firstChild[i] = t.ch[P][i], p.firstChild[i - 1] = t.ch[P][i - 1],
           NEW e, Carries(l, e)
    PROVE  LET g == CutFirstHalf(h, d, p, i)
           IN  /\ FirstHalfCut(h, g, d, t.ch[P][i - 1], t.ch[P][i])
               /\ Moved(h, g, t, P, X, e, r)
<1> DEFINE g == CutFirstHalf(h, d, p, i)
           c == t.ch[P][i]
           b == t.ch[P][i - 1]
<1>1. SearchTree(t) /\ \A m \in t.G : m # P => Says(h, t, m)
  BY DEF Stands
<1>2. t.cnt[P] \in Nat
  BY <1>1, ChildSpans
<1>3. i - 1 \in 0 .. t.cnt[P] - 1 /\ (i - 1) + 1 = i
  BY <1>2
<1>4. b \in t.G /\ c \in t.G /\ b # c /\ t.lev[b] = t.lev[c] /\ t.lev[b] + 1 = t.lev[P]
  <2> DEFINE z == i - 1
  <2> HIDE DEF z
  <2>1. LET x == t.ch[P][z]
            y == t.ch[P][z + 1]
        IN  x \in t.G /\ y \in t.G /\ x # y /\ t.lev[x] = t.lev[y] /\ t.lev[x] + 1 = t.lev[P]
    BY <1>1, <1>3, Siblings DEF z
  <2> QED
    BY <1>3, <2>1 DEF z
<1> HIDE DEF b, c
<1>5. b # P /\ c # P /\ t.lev[b] \in Nat
  BY <1>1, <1>4, Numbers
<1>6. Live(h, c) /\ (IsLeaf(h, c) => IsLeaf(h, b))
  <2>1. Says(h, t, b) /\ Says(h, t, c)
    BY <1>1, <1>4, <1>5
  <2> QED
    BY <1>4, <2>1 DEF Says, LeafSays, InnerSays, IsLeaf, IsInner
<1>7. FirstHalfCut(h, g, d, b, c)
  <2>1. /\ Live(h, p.firstChild[i])
        /\ IsLeaf(h, p.firstChild[i]) =>
               IsLeaf(h, p.firstChild[i - 1]) /\ p.firstChild[i - 1] # p.firstChild[i]
    BY <1>4, <1>6 DEF b, c
  <2>2. FirstHalfCut(h, CutFirstHalf(h, d, p, i), d, p.firstChild[i - 1], p.firstChild[i])
    BY <2>1, CutAppended
  <2> QED
    BY <2>2 DEF b, c
<1> HIDE DEF g
<1>8. FirstHalfCut(h, g, d, t.ch[P][i - 1], t.ch[P][i]) /\ l.parent = P
  BY <1>7 DEF b, c
<1>9. Moved(h, g, t, P, X, e, r)
  BY <1>8, CutMoved
<1> QED
  BY <1>8, <1>9 DEF g

-----------------------------------------------------------------------------
\* What the loop works on.
LEMMA AtSplit ==
    ASSUME NEW h \in Heap, NEW t, NEW l, NEW r, Splitting(h, t, l, r), NodeSlots >= 3
    PROVE  LET P == l.parent
               half == NodeSlots \div 2
           IN  /\ P # NULL /\ P \in t.G /\ P \in NodeIds /\ t.lev[P] > 0 /\ t.hi[P] = t.top
               /\ IsInner(h, P) /\ Live(h, P)
               /\ SearchTree(t) /\ Stands(h, t, P, Under1(t, P), l.N) /\ Climbing(h, t, l, r)
               /\ Crown(t, r) /\ Halfway(h, t, l) /\ Copied(h, t, l)
               /\ NodeSlots \in Nat /\ half \in Nat /\ half >= 1 /\ half + 2 <= NodeSlots + 1
               /\ half + 2 < NodeSlots + 1 /\ l.i \in Nat /\ l.i <= NodeSlots
               /\ h[P].slotsinuse = NodeSlots /\ t.cnt[P] = NodeSlots + 1
               /\ h[P].numChildren = NodeSlots + 1
               /\ \A x \in 0 .. NodeSlots - 1 : /\ h[P].keySlots[x] = t.ks[P][x]
                                                /\ h[P].firstChild[x] = t.ch[P][x]
                                                /\ t.ks[P][x] \in Keys /\ t.ks[P][x] < l.k
               /\ t.ks[P][NodeSlots] = l.k /\ t.ch[P][NodeSlots] = l.N
               /\ t.ch[P][NodeSlots + 1] = l.Nprime /\ l.k \in Keys
               /\ \A m \in t.G : Live(h, m) /\ m \in NodeIds
               /\ LET O == h[P].firstChild[NodeSlots]
                  IN  O \in {l.n} \cup l.leaked /\ Live(h, O) /\ (IsLeaf(h, O) <=> t.lev[P] = 1)
<1> DEFINE P == l.parent
           half == NodeSlots \div 2
<1>1. /\ P # NULL /\ Stands(h, t, P, {m \in t.G : t.par[m] = P}, l.N)
      /\ Climbing(h, t, l, r) /\ Copied(h, t, l)
  BY DEF Splitting
<1>2. Stands(h, t, P, Under1(t, P), l.N)
  BY <1>1 DEF Under1
<1>3. SearchTree(t) /\ Crown(t, r) /\ Behind(h, t, l) /\ l.k \in Keys
  BY <1>1 DEF Stands, Climbing
<1>4. h[P].slotsinuse = NodeSlots /\ l.i \in 0 .. NodeSlots /\ Halfway(h, t, l)
  BY <1>1 DEF Copied, Halfway
<1>5. NodeSlots \in Nat /\ half \in Nat /\ half >= 1 /\ half + 2 <= NodeSlots + 1
      /\ half + 2 < NodeSlots + 1 /\ l.i \in Nat /\ l.i <= NodeSlots
  BY <1>4, SlotsAssumption
<1> HIDE DEF half
<1>6. LET s == h[P].slotsinuse
      IN  /\ P \in t.G /\ P \in NodeIds /\ t.lev[P] > 0 /\ t.lev[P] # 0 /\ t.hi[P] = t.top
          /\ IsInner(h, P) /\ h[P] \in innerNode /\ s \in Nat /\ s >= 1
          /\ h[P].numChildren = s + 1 /\ t.cnt[P] = s + 1
          /\ \A i \in 0 .. s - 1 : h[P].keySlots[i] = t.ks[P][i] /\ h[P].firstChild[i] = t.ch[P][i]
          /\ \A i \in 0 .. s - 1 : t.ks[P][i] \in Keys /\ t.ks[P][i] < l.k
          /\ t.ks[P][s] = l.k /\ t.ch[P][s] = l.N /\ t.ch[P][s + 1] = l.Nprime
          /\ LET O == h[P].firstChild[s]
             IN  O \in {l.n} \cup l.leaked /\ Live(h, O) /\ (IsLeaf(h, O) <=> t.lev[P] = 1)
  BY <1>3, BehindNumbers
<1>7. Live(h, P)
  BY <1>6 DEF IsInner
<1>8. \A m \in t.G : Live(h, m) /\ m \in NodeIds
  <2>1. \A m \in t.G : m # P => Says(h, t, m)
    BY <1>1 DEF Stands
  <2>2. \A m \in t.G : m # P => Live(h, m)
    BY <2>1 DEF Says, LeafSays, InnerSays, IsLeaf, IsInner
  <2> HIDE DEF P
  <2> QED
    BY <1>3, <1>7, <2>2, Numbers
<1> HIDE DEF P
<1>9. /\ P \in t.G /\ P \in NodeIds /\ t.lev[P] > 0 /\ t.hi[P] = t.top /\ IsInner(h, P)
      /\ h[P].numChildren = NodeSlots + 1 /\ t.cnt[P] = NodeSlots + 1
      /\ \A x \in 0 .. NodeSlots - 1 : /\ h[P].keySlots[x] = t.ks[P][x]
                                       /\ h[P].firstChild[x] = t.ch[P][x]
                                       /\ t.ks[P][x] \in Keys /\ t.ks[P][x] < l.k
      /\ t.ks[P][NodeSlots] = l.k /\ t.ch[P][NodeSlots] = l.N
      /\ t.ch[P][NodeSlots + 1] = l.Nprime
      /\ LET O == h[P].firstChild[NodeSlots]
         IN  O \in {l.n} \cup l.leaked /\ Live(h, O) /\ (IsLeaf(h, O) <=> t.lev[P] = 1)
  BY <1>4, <1>6
<1> QED
  BY <1>1, <1>2, <1>3, <1>4, <1>5, <1>7, <1>8, <1>9 DEF P, half

\* What a round of the loop ends with: e is its new local state.
Advanced(h, g, t, l, e, r) ==
    /\ Moved(h, g, t, l.parent, l.N, e, r)
    /\ Copied(g, t, e)
    /\ g \in Edits(h) /\ g # Fault
NextRound(l, e) ==
    /\ Carries(l, e) /\ e.i = l.i + 1 /\ e.slot = l.slot + 1 /\ e.added = FALSE
    /\ e.pNode = l.pNode /\ e.ppNode = l.ppNode

\* A pair of the first half.
LEMMA LoopBelow ==
    ASSUME NEW h \in Heap, NEW t, NEW l, NEW r, Splitting(h, t, l, r), NodeSlots >= 3,
           l.i <= NodeSlots \div 2, l.i < NodeSlots, NEW e, NextRound(l, e), e.j = l.j
    PROVE  Advanced(h, PlaceOldPair(h, l.pNode, h[l.parent], l.i, l.i), t, l, e, r)
<1> DEFINE P == l.parent
           half == NodeSlots \div 2
           g == PlaceOldPair(h, l.pNode, h[P], l.i, l.i)
           i == l.i
<1>1. /\ P # NULL /\ P \in t.G /\ P \in NodeIds /\ t.lev[P] > 0 /\ Live(h, P)
      /\ SearchTree(t) /\ Stands(h, t, P, Under1(t, P), l.N) /\ Climbing(h, t, l, r)
      /\ Halfway(h, t, l) /\ Copied(h, t, l) /\ NodeSlots \in Nat /\ half \in Nat
      /\ l.i \in Nat /\ h[P].slotsinuse = NodeSlots /\ t.cnt[P] = NodeSlots + 1
      /\ \A m \in t.G : Live(h, m) /\ m \in NodeIds
  BY AtSplit
<1>2. /\ Carries(l, e) /\ e.i = l.i + 1 /\ e.slot = l.slot + 1 /\ e.added = FALSE
      /\ e.pNode = l.pNode /\ e.ppNode = l.ppNode /\ e.parent = P
  BY DEF NextRound, Carries
<1> HIDE DEF half
<1>3. l.i <= half + 1 /\ e.i <= half + 1 /\ l.i <= half /\ e.i \in Nat
  BY <1>1, <1>2 DEF half
<1>4. /\ l.j = 0 /\ Filling(h, t, P, l.pNode, 0, l.i) /\ Filling(h, t, P, l.ppNode, half + 1, 0)
  BY <1>1, <1>3, CopiedBefore DEF half
<1>5. l.pNode \in NodeIds \ t.G /\ l.ppNode \in NodeIds \ t.G /\ l.pNode # l.ppNode
  BY <1>1 DEF Halfway
<1>6. PairLast(h, g, l.pNode, t.ks[P][i], t.ch[P][i]) /\ Moved(h, g, t, P, l.N, e, r)
  <2> HIDE DEF P, i
  <2>1. P = l.parent /\ i = l.i + 0 /\ i < NodeSlots /\ 0 \in Nat
    BY <1>1 DEF P, i
  <2> QED
    BY <1>1, <1>2, <1>4, <1>5, <2>1, PairCopied DEF g, i
<1> HIDE DEF g
<1>7. Filling(g, t, P, e.pNode, 0, e.i)
  <2>1. i + 0 = i
    BY <1>1
  <2>2. t.ks[P][i] = t.ks[P][i + 0] /\ t.ch[P][i] = t.ch[P][i + 0]
    BY <2>1
  <2> HIDE DEF P
  <2>3. Filling(g, t, P, l.pNode, 0, i + 1)
    BY <1>1, <1>4, <1>6, <2>2, FillingMore
  <2> QED
    BY <1>2, <2>3
<1>8. /\ g \in Edits(h) /\ g # Fault /\ SameBody(h[P], g[P]) /\ SameBody(h[l.ppNode], g[l.ppNode])
      /\ \A m \in NodeIds : Live(h, m) =>
              g[m].parent = IF m = t.ch[P][i] THEN l.pNode ELSE h[m].parent
  <2>1. Live(h, l.ppNode)
    BY <1>4 DEF Filling, IsInner
  <2> HIDE DEF P, i
  <2> QED
    BY <1>1, <1>5, <1>6, <2>1 DEF PairLast
<1>9. Filling(g, t, P, e.ppNode, half + 1, 0)
  <2> HIDE DEF P
  <2> QED
    BY <1>2, <1>4, <1>8, FillingKept
<1>10. Halfway(g, t, e)
  <2>1. Reparented(h, g, t, l, half)
    BY <1>3, <1>8 DEF Reparented
  <2>2. l.parent \in t.G /\ t.lev[l.parent] > 0 /\ l.i <= t.cnt[l.parent]
        /\ \A m \in t.G : Live(h, m)
    BY <1>1
  <2> QED
    BY <1>1, <1>2, <1>8, <2>1, <2>2, HalfwayMore DEF half
<1>11. Copied(g, t, e)
  BY <1>1, <1>2, <1>3, <1>4, <1>7, <1>9, <1>10, CopiedBefore DEF half
<1> QED
  BY <1>6, <1>8, <1>11 DEF Advanced, g

\* So does the first half after the cut.
LEMMA FirstHalfKept ==
    ASSUME NEW h \in Heap, NEW g \in Edits(h), g # Fault, NEW t, NEW P, NEW d, NEW half,
           FirstHalf(h, t, P, d, half), SameBody(h[d], g[d])
    PROVE  FirstHalf(g, t, P, d, half)
<1>1. IsInner(g, d) /\ ~h[d].isleafnode
  BY EditsKeep DEF FirstHalf, IsInner
<1> QED
  BY <1>1 DEF FirstHalf, SameBody

\* A pair of the second half behind the first.
LEMMA LoopAbove ==
    ASSUME NEW h \in Heap, NEW t, NEW l, NEW r, Splitting(h, t, l, r), NodeSlots >= 3,
           l.i > NodeSlots \div 2 + 1, l.i < NodeSlots, NEW e, NextRound(l, e), e.j = l.j + 1,
           e.kp = l.kp
    PROVE  Advanced(h, PlaceOldPair(h, l.ppNode, h[l.parent], l.i, l.j), t, l, e, r)
<1> DEFINE P == l.parent
           half == NodeSlots \div 2
           g == PlaceOldPair(h, l.ppNode, h[P], l.i, l.j)
           i == l.i
           n == l.j
           x0 == half + 1
<1>1. /\ P # NULL /\ P \in t.G /\ P \in NodeIds /\ t.lev[P] > 0 /\ Live(h, P)
      /\ SearchTree(t) /\ Stands(h, t, P, Under1(t, P), l.N) /\ Climbing(h, t, l, r)
      /\ Halfway(h, t, l) /\ Copied(h, t, l) /\ NodeSlots \in Nat /\ half \in Nat
      /\ l.i \in Nat /\ h[P].slotsinuse = NodeSlots /\ t.cnt[P] = NodeSlots + 1
      /\ \A m \in t.G : Live(h, m) /\ m \in NodeIds
  BY AtSplit
<1>2. /\ Carries(l, e) /\ e.i = l.i + 1 /\ e.slot = l.slot + 1 /\ e.added = FALSE
      /\ e.pNode = l.pNode /\ e.ppNode = l.ppNode /\ e.parent = P
  BY DEF NextRound, Carries
<1> HIDE DEF half
<1>3. l.i > half + 1 /\ e.i > half + 1 /\ ~(l.i <= half) /\ e.i \in Nat /\ x0 \in Nat
  BY <1>1, <1>2 DEF half
<1>4. /\ n = i - x0 /\ FirstHalf(h, t, P, l.pNode, half)
      /\ Filling(h, t, P, l.ppNode, x0, n) /\ l.kp = t.ks[P][half]
  BY <1>1, <1>3, CopiedAfter DEF half
<1>5. /\ l.pNode \in NodeIds \ t.G /\ l.ppNode \in NodeIds \ t.G /\ l.pNode # l.ppNode
      /\ n \in Nat /\ i = n + x0
  BY <1>1, <1>3, <1>4 DEF Halfway
<1>6. PairLast(h, g, l.ppNode, t.ks[P][i], t.ch[P][i]) /\ Moved(h, g, t, P, l.N, e, r)
  <2> HIDE DEF P, i, n, x0
  <2>1. P = l.parent /\ i < NodeSlots
    BY <1>1 DEF P, i
  <2> QED
    BY <1>1, <1>2, <1>3, <1>4, <1>5, <2>1, PairCopied DEF g, i, n
<1> HIDE DEF g
<1>7. Filling(g, t, P, e.ppNode, x0, e.j)
  <2>1. t.ks[P][i] = t.ks[P][n + x0] /\ t.ch[P][i] = t.ch[P][n + x0]
    BY <1>5
  <2> HIDE DEF P, i, n, x0
  <2>2. Filling(g, t, P, l.ppNode, x0, n + 1)
    BY <1>1, <1>3, <1>4, <1>5, <1>6, <2>1, FillingMore
  <2> QED
    BY <1>2, <2>2 DEF n
<1>8. /\ g \in Edits(h) /\ g # Fault /\ SameBody(h[P], g[P]) /\ SameBody(h[l.pNode], g[l.pNode])
      /\ \A m \in NodeIds : Live(h, m) =>
              g[m].parent = IF m = t.ch[P][i] THEN l.ppNode ELSE h[m].parent
  <2>1. Live(h, l.pNode)
    BY <1>4 DEF FirstHalf, IsInner
  <2> HIDE DEF P, i
  <2> QED
    BY <1>1, <1>5, <1>6, <2>1 DEF PairLast
<1>9. FirstHalf(g, t, P, e.pNode, half)
  <2> HIDE DEF P
  <2> QED
    BY <1>2, <1>4, <1>8, FirstHalfKept
<1>10. Halfway(g, t, e)
  <2>1. Reparented(h, g, t, l, half)
    BY <1>3, <1>8 DEF Reparented
  <2>2. l.parent \in t.G /\ t.lev[l.parent] > 0 /\ l.i <= t.cnt[l.parent]
        /\ \A m \in t.G : Live(h, m)
    BY <1>1
  <2> QED
    BY <1>1, <1>2, <1>8, <2>1, <2>2, HalfwayMore DEF half
<1>11. Copied(g, t, e)
  <2>1. e.j = e.i - (half + 1)
    BY <1>1, <1>2, <1>4
  <2> QED
    BY <1>1, <1>2, <1>3, <1>4, <1>7, <1>9, <1>10, <2>1, CopiedAfter DEF half
<1> QED
  BY <1>6, <1>8, <1>11 DEF Advanced, g

\* The first pair of the second half, and the cut.
LEMMA LoopCut ==
    ASSUME NEW h \in Heap, NEW t, NEW l, NEW r, Splitting(h, t, l, r), NodeSlots >= 3,
           l.i = NodeSlots \div 2 + 1, l.i < NodeSlots, NEW e, NextRound(l, e), e.j = l.j + 1,
           NEW f, f = PlaceOldPair(h, l.ppNode, h[l.parent], l.i, l.j),
           e.kp = KeyAt(f[l.pNode], l.i - 1)
    PROVE  Advanced(h, CutFirstHalf(f, l.pNode, h[l.parent], l.i), t, l, e, r)
<1> DEFINE P == l.parent
           half == NodeSlots \div 2
           g == CutFirstHalf(f, l.pNode, h[P], l.i)
           i == l.i
           x0 == half + 1
           n == l.j
<1>1. /\ P # NULL /\ P \in t.G /\ P \in NodeIds /\ t.lev[P] > 0 /\ Live(h, P) /\ IsInner(h, P)
      /\ SearchTree(t) /\ Stands(h, t, P, Under1(t, P), l.N) /\ Climbing(h, t, l, r)
      /\ Halfway(h, t, l) /\ Copied(h, t, l) /\ NodeSlots \in Nat /\ half \in Nat
      /\ l.i \in Nat /\ h[P].slotsinuse = NodeSlots /\ t.cnt[P] = NodeSlots + 1
      /\ \A m \in t.G : Live(h, m) /\ m \in NodeIds
      /\ \A x \in 0 .. NodeSlots - 1 : h[P].firstChild[x] = t.ch[P][x]
  BY AtSplit
<1>2. /\ Carries(l, e) /\ e.i = l.i + 1 /\ e.slot = l.slot + 1 /\ e.added = FALSE
      /\ e.pNode = l.pNode /\ e.ppNode = l.ppNode /\ e.parent = P /\ l.parent = P
  BY DEF NextRound, Carries
<1>15. i = half + 1
  OBVIOUS
<1> HIDE DEF half
<1>3. /\ l.i <= half + 1 /\ e.i > half + 1 /\ ~(l.i <= half) /\ e.i \in Nat /\ x0 \in Nat
      /\ l.i \in Nat /\ i = x0 /\ i = 0 + x0 /\ e.i - x0 = 1 /\ i - 1 = half
  BY <1>1, <1>2, <1>15
<1>4. /\ l.j = 0 /\ Filling(h, t, P, l.pNode, 0, x0) /\ Filling(h, t, P, l.ppNode, x0, 0)
  <2>1. /\ l.j = 0 /\ Filling(h, t, P, l.pNode, 0, l.i) /\ Filling(h, t, P, l.ppNode, x0, 0)
    BY <1>1, <1>3, CopiedBefore DEF half
  <2> QED
    BY <1>15, <2>1
<1> HIDE DEF n
<1>21. n = 0 /\ n \in Nat /\ l.j = n /\ i = n + x0 /\ Filling(h, t, P, l.ppNode, x0, n)
  BY <1>3, <1>4 DEF n
<1>5. l.pNode \in NodeIds \ t.G /\ l.ppNode \in NodeIds \ t.G /\ l.pNode # l.ppNode
  BY <1>1 DEF Halfway
<1>6. PairLast(h, f, l.ppNode, t.ks[P][i], t.ch[P][i]) /\ Moved(h, f, t, P, l.N, e, r)
  <2>1. f = PlaceOldPair(h, l.ppNode, h[P], i, n)
    BY <1>21
  <2> HIDE DEF P, i, x0
  <2>2. P = l.parent /\ i < NodeSlots
    BY <1>1 DEF P, i
  <2> DEFINE q == PlaceOldPair(h, l.ppNode, h[P], i, n)
  <2>3. i = n + x0 /\ n \in Nat /\ x0 \in Nat /\ Filling(h, t, P, l.ppNode, x0, n)
    BY <1>3, <1>21
  <2>4. PairLast(h, q, l.ppNode, t.ks[P][i], t.ch[P][i]) /\ Moved(h, q, t, P, l.N, e, r)
    <3> HIDE DEF q
    <3> QED
      BY <1>1, <1>2, <1>5, <2>2, <2>3, PairCopied DEF q
  <2> QED
    BY <2>1, <2>4
<1>7. Filling(f, t, P, l.ppNode, x0, 1)
  <2>1. t.ks[P][i] = t.ks[P][n + x0] /\ t.ch[P][i] = t.ch[P][n + x0]
    BY <1>21
  <2> HIDE DEF P, i, x0
  <2>2. Filling(f, t, P, l.ppNode, x0, n + 1)
    BY <1>1, <1>3, <1>21, <1>6, <2>1, FillingMore
  <2>3. n + 1 = 1
    BY <1>21
  <2> QED
    BY <2>2, <2>3
<1>8. /\ f \in Edits(h) /\ f # Fault /\ SameBody(h[P], f[P]) /\ SameBody(h[l.pNode], f[l.pNode])
      /\ f \in Heap
      /\ \A m \in NodeIds : Live(h, m) =>
              f[m].parent = IF m = t.ch[P][i] THEN l.ppNode ELSE h[m].parent
  <2>1. Live(h, l.pNode)
    BY <1>4 DEF Filling, IsInner
  <2> HIDE DEF P, i
  <2> QED
    BY <1>1, <1>5, <1>6, <2>1 DEF PairLast, Edits
<1>9. Filling(f, t, P, l.pNode, 0, x0)
  <2> HIDE DEF P
  <2> QED
    BY <1>2, <1>4, <1>8, FillingKept
<1>10. Halfway(f, t, e)
  <2>1. Reparented(h, f, t, l, half)
    BY <1>3, <1>8 DEF Reparented
  <2>2. /\ SearchTree(t) /\ Halfway(h, t, l)
        /\ l.parent \in t.G /\ t.lev[l.parent] > 0 /\ l.i <= t.cnt[l.parent]
        /\ \A m \in t.G : Live(h, m)
    BY <1>1
  <2>3. half = NodeSlots \div 2 /\ half \in Nat /\ l.i < NodeSlots
    BY <1>1 DEF half
  <2>4. /\ Carries(l, e) /\ e.i = l.i + 1 /\ e.slot = l.slot + 1 /\ e.added = FALSE
        /\ e.pNode = l.pNode /\ e.ppNode = l.ppNode
    BY <1>2
  <2>5. SameBody(h[l.parent], f[l.parent])
    BY <1>8
  <2> HIDE DEF P, i, x0
  <2> QED
    BY <2>1, <2>2, <2>3, <2>4, <2>5, HalfwayMore
<1>11. /\ IsInner(f, l.pNode) /\ ~f[l.pNode].isrootnode /\ f[l.pNode].numChildren = x0
       /\ f[l.pNode].slotsinuse = x0 /\ x0 >= 1 /\ x0 <= NodeSlots
       /\ \A x \in 0 .. half : f[l.pNode].keySlots[x] = t.ks[P][x]
                              /\ f[l.pNode].firstChild[x] = t.ch[P][x]
  <2>1. x0 - 1 = half /\ \A x \in 0 .. half : x + 0 = x
    BY <1>1
  <2>2. x0 >= 1 /\ x0 <= NodeSlots
    BY <1>1, <1>3
  <2> QED
    BY <1>9, <2>1, <2>2 DEF Filling
<1>12. FirstHalfCut(f, g, l.pNode, t.ch[P][i - 1], t.ch[P][i]) /\ Moved(f, g, t, P, l.N, e, r)
  <2>1. i \in 1 .. t.cnt[P] /\ i \in 0 .. NodeSlots - 1 /\ i - 1 \in 0 .. NodeSlots - 1
    BY <1>1, <1>3
  <2>2. h[P].firstChild[i] = t.ch[P][i] /\ h[P].firstChild[i - 1] = t.ch[P][i - 1]
    BY <1>1, <2>1
  <2>3. IsInner(f, P)
    BY <1>1, <1>8, EditsKeep
  <2>4. Climbing(f, t, e, r) /\ Stands(f, t, P, Under1(t, P), l.N)
    BY <1>6 DEF Moved
  <2>5. Carries(e, e)
    BY DEF Carries
  <2> DEFINE p == h[P]
             X == l.N
  <2>6. p.firstChild[i] = t.ch[P][i] /\ p.firstChild[i - 1] = t.ch[P][i - 1]
    BY <2>2
  <2>7. Stands(f, t, P, Under1(t, P), X) /\ P = e.parent
    BY <1>2, <2>4
  <2> HIDE DEF P, i, x0, p, X
  <2>8. LET q == CutFirstHalf(f, l.pNode, p, i)
        IN  /\ FirstHalfCut(f, q, l.pNode, t.ch[P][i - 1], t.ch[P][i])
            /\ Moved(f, q, t, P, X, e, r)
    BY <1>1, <1>5, <1>8, <1>11, <2>1, <2>3, <2>4, <2>5, <2>6, <2>7, CutCopied
  <2> QED
    BY <2>8 DEF p, X, g, i
<1> HIDE DEF g
<1>13. /\ g \in Edits(f) /\ g # Fault /\ g \in Edits(h)
       /\ SameBody(f[P], g[P]) /\ SameBody(f[l.ppNode], g[l.ppNode])
       /\ \A m \in NodeIds : Live(f, m) => g[m].parent = f[m].parent
  <2>1. Live(f, l.ppNode) /\ Live(f, P)
    BY <1>1, <1>7, <1>8, EditsKeep DEF Filling, IsInner
  <2>2. g \in Edits(f) /\ g # Fault
    BY <1>12 DEF FirstHalfCut
  <2>3. g \in Edits(h)
    BY <1>8, <2>2, EditsCompose
  <2> HIDE DEF P, i
  <2> QED
    BY <1>1, <1>5, <1>12, <2>1, <2>2, <2>3 DEF FirstHalfCut
<1>14. FirstHalf(g, t, P, e.pNode, half)
  <2>1. /\ g[l.pNode].slotsinuse = half /\ g[l.pNode].keySlots = f[l.pNode].keySlots
        /\ g[l.pNode].firstChild = f[l.pNode].firstChild
        /\ g[l.pNode].numChildren = half + 1
        /\ ~g[l.pNode].isrootnode
    <3>1. /\ f[l.pNode].slotsinuse - 1 = half /\ f[l.pNode].numChildren = half + 1
          /\ ~f[l.pNode].isrootnode
      <4>1. x0 - 1 = half /\ x0 = half + 1
        BY <1>1
      <4> HIDE DEF x0, half, P, i
      <4> QED
        BY <1>11, <4>1
    <3>2. /\ g[l.pNode].slotsinuse = f[l.pNode].slotsinuse - 1
          /\ g[l.pNode].keySlots = f[l.pNode].keySlots
          /\ g[l.pNode].firstChild = f[l.pNode].firstChild
          /\ g[l.pNode].numChildren = f[l.pNode].numChildren
          /\ g[l.pNode].isrootnode = f[l.pNode].isrootnode
      <4> HIDE DEF P, i
      <4> QED
        BY <1>12 DEF FirstHalfCut
    <3> QED
      BY <3>1, <3>2
  <2>2. IsInner(g, l.pNode)
    <3>1. f \in Heap /\ g \in Edits(f) /\ g # Fault /\ IsInner(f, l.pNode)
      BY <1>8, <1>11, <1>13
    <3> QED
      BY <3>1, EditsKeep
  <2>3. /\ e.pNode = l.pNode
        /\ \A x \in 0 .. half : /\ f[l.pNode].keySlots[x] = t.ks[P][x]
                                /\ f[l.pNode].firstChild[x] = t.ch[P][x]
    BY <1>2, <1>11
  <2> HIDE DEF P, x0, i
  <2>4. \A x \in 0 .. half : /\ g[l.pNode].keySlots[x] = t.ks[P][x]
                            /\ g[l.pNode].firstChild[x] = t.ch[P][x]
    BY <2>1, <2>3
  <2> QED
    BY <2>1, <2>2, <2>3, <2>4 DEF FirstHalf
<1>16. Filling(g, t, P, e.ppNode, x0, e.j) /\ e.j = e.i - x0
  <2>1. Filling(g, t, P, l.ppNode, x0, 1)
    <3> HIDE DEF P, x0
    <3> QED
      BY <1>7, <1>8, <1>13, FillingKept
  <2>2. e.j = 1
    BY <1>4
  <2> QED
    BY <1>2, <1>3, <2>1, <2>2
<1>17. Halfway(g, t, e)
  <2>1. e.parent = P /\ g[P].slotsinuse = f[P].slotsinuse
    BY <1>2, <1>13 DEF SameBody
  <2>2. ASSUME NEW x \in 0 .. e.i - 1
        PROVE  g[t.ch[P][x]].parent = f[t.ch[P][x]].parent
    <3>1. x \in 0 .. t.cnt[P]
      BY <1>1, <1>2
    <3>2. t.ch[P][x] \in t.G
      BY <1>1, <3>1, ChildSpans
    <3>3. t.ch[P][x] \in NodeIds /\ Live(f, t.ch[P][x])
      BY <1>1, <1>8, <3>2, EditsKeep
    <3> QED
      BY <1>13, <3>3
  <2> HIDE DEF P
  <2> QED
    BY <1>10, <2>1, <2>2 DEF Halfway
<1>18. e.kp = t.ks[P][half]
  <2>1. f[l.pNode] \in innerNode
    BY <1>8, <1>11, LiveTypes
  <2>3. half \in InnerIndex
    BY <1>1, <1>15 DEF InnerIndex
  <2>2. half \in DOMAIN f[l.pNode].keySlots
    BY <2>1, <2>3 DEF innerNode
  <2>4. f[l.pNode].keySlots[half] = t.ks[P][half]
    BY <1>1, <1>11
  <2>5. e.kp = KeyAt(f[l.pNode], half)
    BY <1>3
  <2> HIDE DEF P, x0, i
  <2> QED
    BY <2>2, <2>4, <2>5 DEF KeyAt
<1>19. Copied(g, t, e)
  <2>1. e.i \in Nat /\ half = NodeSlots \div 2 /\ half \in Nat /\ e.i > half + 1
    BY <1>1, <1>3 DEF half
  <2>2. e.parent = P /\ half + 1 = x0
    BY <1>2
  <2> HIDE DEF P, x0
  <2>3. /\ Halfway(g, t, e) /\ e.j = e.i - (half + 1)
        /\ FirstHalf(g, t, e.parent, e.pNode, half)
        /\ Filling(g, t, e.parent, e.ppNode, half + 1, e.j)
        /\ e.kp = t.ks[e.parent][half]
    BY <1>14, <1>16, <1>17, <1>18, <2>2
  <2> QED
    BY <2>1, <2>3, CopiedAfter
<1>20. Moved(h, g, t, P, l.N, e, r)
  <2>1. \A m \in t.G : SameBody(h[m], g[m])
    <3>1. \A m \in t.G : SameBody(h[m], f[m]) /\ SameBody(f[m], g[m])
      BY <1>6, <1>12 DEF Moved
    <3> QED
      BY <3>1 DEF SameBody
  <2> QED
    BY <1>12, <2>1 DEF Moved
<1> QED
  BY <1>13, <1>19, <1>20 DEF Advanced, g

-----------------------------------------------------------------------------
\* A round of the loop of split_parent.
LEMMA SplitParentLoopKeepsShape ==
    ASSUME AppendInv, SplitParentLoop, NodeSlots >= 3
    PROVE  Grown'
<1> DEFINE p    == heap[local.parent]
           half == p.slotsinuse \div 2
           here == p.keySlots[local.i] > local.k /\ local.slot = local.i
           low  == local.i < half + 1
           at   == IF low THEN local.slot ELSE local.j
           h1   == IF here THEN PlaceNewPair(heap, local.pNode, local.k, local.N, local.Nprime, at)
                           ELSE heap
           j1   == IF here /\ ~low THEN local.j + 1 ELSE local.j
           i    == IF here /\ local.i > 0 THEN local.i - 1 ELSE local.i
           old  == i < half + 1 /\ local.slot = i
           h2   == IF old THEN PlaceOldPair(h1, local.pNode, p, i, local.slot) ELSE h1
           h3   == IF i > half THEN PlaceOldPair(h2, local.ppNode, p, i, j1) ELSE h2
           h4   == IF i = half + 1 THEN CutFirstHalf(h3, local.pNode, p, i) ELSE h3
           kp   == IF i = half + 1 THEN KeyAt(h3[local.pNode], i - 1) ELSE local.kp
           l    == [local EXCEPT !.i = i + 1, !.slot = @ + 1,
                                 !.j = IF i > half THEN j1 + 1 ELSE j1,
                                 !.added = @ \/ here, !.kp = kp]
<1>1. /\ pc = "split_parent" /\ local.i < p.slotsinuse /\ Go(h4, "split_parent", l)
      /\ UNCHANGED <<root, totalkeycount, call>>
  BY Zenon DEF SplitParentLoop
<1>2. /\ root # NULL /\ heap \in Heap /\ local \in Locals["split_parent"]
      /\ \E t : /\ Splitting(heap, t, local, root)
                /\ totalkeycount = Cardinality(Pairs(heap, t))
  <2>1. TypeInv /\ root # NULL /\ heap \in Heap
        /\ \E t : /\ Shape(heap, t, pc, local, call, root)
                  /\ totalkeycount = Cardinality(Pairs(heap, t))
    BY <1>1, Shaped
  <2>2. local \in Locals["split_parent"]
    BY <1>1, <2>1, TypesAt, LocalsFields
  <2> QED
    BY <1>1, <2>1, <2>2 DEF Shape
<1>3. PICK t : /\ Splitting(heap, t, local, root)
               /\ totalkeycount = Cardinality(Pairs(heap, t))
  BY <1>2
<1>4. /\ p.slotsinuse = NodeSlots /\ SearchTree(t) /\ NodeSlots \in Nat
      /\ NodeSlots \div 2 \in Nat /\ local.i \in Nat /\ local.i < NodeSlots
      /\ \A x \in 0 .. NodeSlots - 1 : /\ p.keySlots[x] = t.ks[local.parent][x]
                                       /\ t.ks[local.parent][x] \in Keys
                                       /\ t.ks[local.parent][x] < local.k
      /\ local.k \in Keys /\ local.parent \in t.G /\ Copied(heap, t, local)
      /\ local.parent # NULL
  <2> DEFINE P == local.parent
  <2>1. /\ P # NULL /\ P \in t.G /\ SearchTree(t) /\ Copied(heap, t, local)
        /\ NodeSlots \in Nat /\ NodeSlots \div 2 \in Nat /\ local.i \in Nat
        /\ heap[P].slotsinuse = NodeSlots /\ local.k \in Keys
        /\ \A x \in 0 .. NodeSlots - 1 : /\ heap[P].keySlots[x] = t.ks[P][x]
                                         /\ t.ks[P][x] \in Keys /\ t.ks[P][x] < local.k
    BY <1>2, <1>3, AtSplit
  <2>2. local.i < heap[P].slotsinuse
    BY <1>1
  <2>3. local.i < NodeSlots
    BY <2>1, <2>2
  <2> QED
    BY <2>1, <2>3
<1>5. half = NodeSlots \div 2
  BY <1>4
<1>6. ~here
  <2>1. local.i \in 0 .. NodeSlots - 1
    BY <1>4
  <2>2. p.keySlots[local.i] \in Int /\ local.k \in Int /\ p.keySlots[local.i] < local.k
    BY <1>4, <2>1, KeysAssumption
  <2> QED
    BY <2>2
<1>7. /\ local.slot = local.i /\ local.added = FALSE
  <2>1. local.added \in BOOLEAN
    BY <1>2, LocalsFields
  <2> QED
    BY <1>4, <2>1 DEF Copied
<1> HIDE DEF here
<1>8. h1 = heap /\ j1 = local.j /\ i = local.i
  BY <1>6
<1> HIDE DEF h1, j1, i
<1>9. /\ l.i = local.i + 1 /\ l.slot = local.slot + 1 /\ l.added = FALSE /\ l.kp = kp
      /\ l.j = (IF i > half THEN j1 + 1 ELSE j1)
      /\ l.parent = local.parent /\ l.N = local.N /\ l.Nprime = local.Nprime /\ l.n = local.n
      /\ l.k = local.k /\ l.leaked = local.leaked /\ l.pNode = local.pNode
      /\ l.ppNode = local.ppNode
  <2>1. DOMAIN local = {"parent", "N", "k", "Nprime", "n", "leaked", "pNode", "ppNode", "i",
                        "slot", "j", "added", "kp"}
    BY <1>2, LocalsFields
  <2> HIDE DEF kp, half
  <2> QED
    BY <1>6, <1>7, <1>8, <2>1
<1>10. NextRound(local, l)
  BY <1>9 DEF NextRound, Carries
<1> HIDE DEF l
<1>11. Advanced(heap, h4, t, local, l, root)
  <2>1. CASE local.i <= half
    <3>1. i < half + 1 /\ ~(i > half) /\ i # half + 1
      BY <1>4, <1>5, <1>8, <2>1
    <3> HIDE DEF half
    <3>2. h4 = PlaceOldPair(heap, local.pNode, heap[local.parent], local.i, local.i)
      BY <1>7, <1>8, <3>1
    <3>3. l.j = local.j
      BY <1>8, <1>9, <3>1
    <3>4. local.i <= NodeSlots \div 2
      BY <1>5, <2>1
    <3> HIDE DEF h4
    <3>5. Advanced(heap, PlaceOldPair(heap, local.pNode, heap[local.parent], local.i, local.i), t,
                   local, l, root)
      BY <1>2, <1>3, <1>4, <1>10, <3>3, <3>4, LoopBelow
    <3> QED
      BY <3>2, <3>5
  <2>2. CASE local.i = half + 1
    <3> DEFINE f == PlaceOldPair(heap, local.ppNode, heap[local.parent], local.i, local.j)
    <3>1. ~(i < half + 1) /\ i > half /\ i = half + 1
      BY <1>4, <1>5, <1>8, <2>2
    <3> HIDE DEF half
    <3>2. h3 = f
      BY <1>7, <1>8, <3>1
    <3> HIDE DEF f, h3
    <3>3. h4 = CutFirstHalf(f, local.pNode, heap[local.parent], local.i)
      BY <1>8, <3>1, <3>2
    <3>4. l.j = local.j + 1 /\ l.kp = KeyAt(f[local.pNode], local.i - 1)
      BY <1>8, <1>9, <3>1, <3>2
    <3>5. local.i = NodeSlots \div 2 + 1
      BY <1>5, <2>2
    <3> HIDE DEF h4
    <3>6. f = PlaceOldPair(heap, local.ppNode, heap[local.parent], local.i, local.j)
      BY DEF f
    <3>7. Advanced(heap, CutFirstHalf(f, local.pNode, heap[local.parent], local.i), t,
                   local, l, root)
      BY <1>2, <1>3, <1>4, <1>10, <3>4, <3>5, <3>6, LoopCut
    <3> QED
      BY <3>3, <3>7
  <2>3. CASE local.i > half + 1
    <3>1. ~(i < half + 1) /\ i > half /\ i # half + 1
      BY <1>4, <1>5, <1>8, <2>3
    <3> HIDE DEF half
    <3>2. h4 = PlaceOldPair(heap, local.ppNode, heap[local.parent], local.i, local.j)
      BY <1>7, <1>8, <3>1
    <3>3. l.j = local.j + 1 /\ l.kp = local.kp
      BY <1>8, <1>9, <3>1
    <3>4. local.i > NodeSlots \div 2 + 1
      BY <1>5, <2>3
    <3> HIDE DEF h4
    <3>5. Advanced(heap, PlaceOldPair(heap, local.ppNode, heap[local.parent], local.i, local.j), t,
                   local, l, root)
      BY <1>2, <1>3, <1>4, <1>10, <3>3, <3>4, LoopAbove
    <3> QED
      BY <3>2, <3>5
  <2> HIDE DEF h4
  <2>4. local.i <= half \/ local.i = half + 1 \/ local.i > half + 1
    BY <1>4, <1>5
  <2> QED
    BY <2>1, <2>2, <2>3, <2>4
<1> HIDE DEF h4
<1>12. Shape(h4, t, "split_parent", l, call', root')
  BY <1>1, <1>4, <1>9, <1>11 DEF Advanced, Moved, Shape, Splitting, Under1
<1>13. Pairs(h4, t) = Pairs(heap, t)
  <2>1. \A m \in t.G : h4[m].slotsinuse = heap[m].slotsinuse
    BY <1>11 DEF Advanced, Moved, SameBody
  <2> QED
    BY <2>1, PairsKept
<1>14. h4 # Fault
  BY <1>11 DEF Advanced
<1> QED
  BY <1>1, <1>2, <1>3, <1>12, <1>13, <1>14, GoGrows

-----------------------------------------------------------------------------
\* The old last child goes into the second half and counts as gone: what is left of that.
OldDropped(h, g, t, P, X, d, n) ==
    /\ g \in Edits(h) /\ g # Fault /\ Stands(g, t, P, Under1(t, P), X)
    /\ g[d].numChildren = n /\ g[d].slotsinuse = n /\ g[d].isrootnode = h[d].isrootnode
    /\ g[d].keySlots = h[d].keySlots
    /\ \A x \in 0 .. n - 1 : g[d].firstChild[x] = h[d].firstChild[x]
    /\ \A m \in NodeIds \ {d} : Live(h, m) => SameBody(h[m], g[m])
    /\ \A m \in t.G : g[m].parent = h[m].parent

\* The last child of the split parent is hung below the second half and counted out.
LEMMA OldChildDropped ==
    ASSUME NEW h \in Heap, NEW t, NEW P \in t.G, t.lev[P] > 0, NEW X,
           Stands(h, t, P, Under1(t, P), X), IsInner(h, P),
           NEW s \in Nat, s >= 1, t.cnt[P] = s + 1, X = t.ch[P][s],
           NEW d, d \notin t.G, NEW x0 \in Nat, NEW n \in Nat, n >= 1, n + x0 = s, n <= NodeSlots,
           Filling(h, t, P, d, x0, n), NEW o, o \notin t.G, o # d, Live(h, o),
           IsLeaf(h, o) <=> t.lev[P] = 1,
           NEW f, f = insertInnerNodeChildAt(h, d, o, n)
    PROVE  OldDropped(h, AddToChildren(f, d, -1), t, P, X, d, n)
<1> DEFINE g == AddToChildren(f, d, -1)
           b == t.ch[P][s - 1]
<1>1. /\ IsInner(h, d) /\ h[d].numChildren = n /\ h[d].slotsinuse = n
      /\ h[d].firstChild[n - 1] = b
  <2>1. n - 1 \in 0 .. n - 1 /\ (n - 1) + x0 = s - 1
    OBVIOUS
  <2> QED
    BY <2>1 DEF Filling
<1>2. SearchTree(t) /\ \A m \in t.G : m # P => Says(h, t, m)
  BY DEF Stands
<1>3. /\ b \in t.G /\ X \in t.G /\ t.lev[b] + 1 = t.lev[P] /\ t.lev[b] = t.lev[X]
      /\ t.lev[b] = 0 => Follows(t, b, X)
  <2>1. s - 1 \in 0 .. t.cnt[P] - 1 /\ (s - 1) + 1 = s
    OBVIOUS
  <2> DEFINE z == s - 1
  <2> HIDE DEF z
  <2>2. LET x == t.ch[P][z]
            y == t.ch[P][z + 1]
        IN  /\ x \in t.G /\ y \in t.G /\ t.lev[x] + 1 = t.lev[P] /\ t.lev[x] = t.lev[y]
            /\ t.lev[x] = 0 => Follows(t, x, y)
    BY <1>2, <2>1, Siblings DEF z
  <2> QED
    BY <2>1, <2>2 DEF z
<1> HIDE DEF b
<1>4. b # P /\ t.lev[b] \in Nat /\ b # o /\ b # d
  BY <1>2, <1>3, Numbers
<1>5. \A m \in t.G : m \in NodeIds /\ Live(h, m) /\ (t.lev[m] = 0 => IsLeaf(h, m))
  <2>1. ASSUME NEW m \in t.G, m # P
        PROVE  Live(h, m) /\ (t.lev[m] = 0 => IsLeaf(h, m))
    <3>1. Says(h, t, m)
      BY <1>2, <2>1
    <3> QED
      BY <3>1 DEF Says, LeafSays, InnerSays, IsLeaf, IsInner
  <2>2. Live(h, P) /\ t.lev[P] # 0
    BY <1>2, Numbers DEF IsInner
  <2> QED
    BY <1>2, <2>1, <2>2, Numbers
<1>6. IsLeaf(h, o) => IsLeaf(h, b)
  BY <1>3, <1>4, <1>5
<1>7. ChildLast(h, f, d, o)
  <2>1. h[d].numChildren \in ChildIndex
    BY <1>1, SlotsAssumption DEF ChildIndex
  <2>2. Linked(h, d, o) => IsLeaf(h, Neighbour1(h, d)) /\ Neighbour1(h, d) # o
    BY <1>1, <1>4, <1>6 DEF Linked, Neighbour1
  <2>3. ChildLast(h, insertInnerNodeChildAt(h, d, o, h[d].numChildren), d, o)
    BY <1>1, <2>1, <2>2, ChildAppended
  <2> QED
    BY <1>1, <2>3
<1>8. /\ f \in Edits(h) /\ f # Fault /\ f \in Heap
      /\ f[d].numChildren = n + 1 /\ f[d].slotsinuse = n /\ f[d].keySlots = h[d].keySlots
      /\ f[d].isrootnode = h[d].isrootnode
      /\ \A x \in 0 .. n - 1 : f[d].firstChild[x] = h[d].firstChild[x]
      /\ \A m \in NodeIds \ {d} : Live(h, m) => SameBody(h[m], f[m])
      /\ \A m \in NodeIds : Live(h, m) => f[m].parent = IF m = o THEN d ELSE h[m].parent
      /\ \A m \in NodeIds : IsLeaf(h, m) =>
          /\ f[m].nextLeaf = IF IsLeaf(h, o) /\ m = b THEN o ELSE h[m].nextLeaf
          /\ f[m].prevLeaf = IF IsLeaf(h, o) /\ m = o THEN b ELSE h[m].prevLeaf
  BY <1>1, <1>7 DEF ChildLast, Linked, Neighbour1, Edits
<1>9. Stands(f, t, P, Under1(t, P), X)
  <2>1. \A m \in t.G : SameBody(h[m], f[m]) /\ f[m].parent = h[m].parent
    BY <1>5, <1>8
  <2>2. ASSUME NEW m \in t.G, t.lev[m] = 0
        PROVE  /\ \/ f[m].nextLeaf = h[m].nextLeaf
                  \/ Follows(t, m, f[m].nextLeaf)
                  \/ Follows(t, m, X)
               /\ \/ f[m].prevLeaf = h[m].prevLeaf
                  \/ Follows(t, f[m].prevLeaf, m)
                  \/ m = X /\ \E a : Follows(t, a, X)
    <3>1. f[m].prevLeaf = h[m].prevLeaf
      BY <1>5, <1>8, <2>2
    <3>2. f[m].nextLeaf = h[m].nextLeaf \/ Follows(t, m, X)
      BY <1>3, <1>5, <1>8, <2>2
    <3> QED
      BY <3>1, <3>2
  <2> QED
    BY <1>8, <2>1, <2>2, StandsKept
<1>10. IsInner(f, d)
  BY <1>1, <1>8, EditsKeep
<1>11. /\ g \in Edits(f) /\ g # Fault /\ g[d].numChildren = n
       /\ g[d].slotsinuse = n /\ g[d].keySlots = f[d].keySlots
       /\ g[d].firstChild = f[d].firstChild /\ g[d].isrootnode = f[d].isrootnode
       /\ \A m \in NodeIds \ {d} : g[m] = f[m]
  BY <1>8, <1>10, ChildDropped
<1> HIDE DEF g
<1>12. \A m \in t.G : g[m] = f[m] /\ f[m].parent = h[m].parent
  BY <1>5, <1>8, <1>11
<1>13. Stands(g, t, P, Under1(t, P), X)
  BY <1>9, <1>12, StandsSame
<1>14. g \in Edits(h)
  BY <1>8, <1>11, EditsCompose
<1>15. OldDropped(h, g, t, P, X, d, n)
  BY <1>8, <1>11, <1>12, <1>13, <1>14 DEF OldDropped
<1> QED
  BY <1>15 DEF g

-----------------------------------------------------------------------------
\* The end of split_parent: P's pairs and the new one are in the two new nodes.
SecondHalf(g, t, P, d, half) ==
    LET e == NodeSlots - half
    IN  /\ IsInner(g, d) /\ ~g[d].isrootnode /\ g[d].slotsinuse = e /\ g[d].numChildren = e + 1
        /\ \A x \in 0 .. e - 1 : g[d].keySlots[x] = t.ks[P][x + (half + 1)]
        /\ \A x \in 0 .. e : g[d].firstChild[x] = t.ch[P][x + (half + 1)]
Ended(h, g, t, l) ==
    LET P    == l.parent
        half == NodeSlots \div 2
    IN  /\ g \in Edits(h) /\ g # Fault
        /\ Settled(h, g, t, P, l.ppNode, l.N, l.Nprime)
        /\ \A m \in t.G : SameBody(h[m], g[m])
        /\ FirstHalf(g, t, P, l.pNode, half) /\ SecondHalf(g, t, P, l.ppNode, half)

\* After the loop of insert_in_parent the second half gets the new pair.
LEMMA SplitEnds ==
    ASSUME NEW h \in Heap, NEW t, NEW l, NEW r, Splitting(h, t, l, r), NodeSlots >= 3,
           l.i = NodeSlots, NEW o, o = h[l.parent].firstChild[NodeSlots],
           \A m \in {l.n} \cup l.leaked : Live(h, m),
           NEW f, f = AddToChildren(insertInnerNodeChildAt(h, l.ppNode, o, l.j), l.ppNode, -1)
    PROVE  Ended(h, PlaceNewPair(f, l.ppNode, l.k, l.N, l.Nprime, l.j), t, l)
<1> DEFINE P == l.parent
           half == NodeSlots \div 2
           s == NodeSlots
           d == l.ppNode
           n == l.j
           x0 == half + 1
           N == l.N
           M == l.Nprime
           k == l.k
           g == PlaceNewPair(f, d, k, N, M, n)
<1>1. /\ P # NULL /\ P \in t.G /\ P \in NodeIds /\ t.lev[P] > 0 /\ t.hi[P] = t.top
      /\ IsInner(h, P) /\ SearchTree(t) /\ Stands(h, t, P, Under1(t, P), N)
      /\ Climbing(h, t, l, r) /\ Halfway(h, t, l) /\ Copied(h, t, l)
      /\ s \in Nat /\ half \in Nat /\ half + 2 < s + 1
      /\ t.cnt[P] = s + 1 /\ t.ks[P][s] = k /\ t.ch[P][s] = N /\ t.ch[P][s + 1] = M /\ k \in Keys
      /\ \A m \in t.G : Live(h, m) /\ m \in NodeIds
      /\ o \in {l.n} \cup l.leaked /\ Live(h, o) /\ (IsLeaf(h, o) <=> t.lev[P] = 1)
  BY AtSplit
<1> HIDE DEF half, s
<1>2. /\ l.i > half + 1 /\ l.i \in Nat /\ s - x0 \in Nat /\ s - x0 >= 1 /\ s >= 1 /\ x0 \in Nat
      /\ s - x0 < s /\ (s - x0) + x0 = s /\ s = NodeSlots
  BY <1>1 DEF s
<1>3. /\ n = s - x0 /\ FirstHalf(h, t, P, l.pNode, half) /\ Filling(h, t, P, d, x0, n)
  <2>1. l.i = s
    BY DEF s
  <2>2. n = l.i - (half + 1) /\ FirstHalf(h, t, P, l.pNode, half) /\ Filling(h, t, P, d, x0, n)
    <3>1. half = NodeSlots \div 2 /\ half \in Nat /\ l.i \in Nat /\ l.i > half + 1
      BY <1>1, <1>2 DEF half
    <3>2. Copied(h, t, l)
      BY <1>1
    <3>3. l.parent = P /\ l.j = n /\ l.ppNode = d /\ half + 1 = x0
      OBVIOUS
    <3> HIDE DEF P, n, d, x0
    <3>4. /\ l.j = l.i - (half + 1) /\ FirstHalf(h, t, l.parent, l.pNode, half)
          /\ Filling(h, t, l.parent, l.ppNode, half + 1, l.j)
      BY <3>1, <3>2, CopiedAfter
    <3> QED
      BY <3>3, <3>4
  <2> QED
    BY <2>1, <2>2
<1>4. /\ n \in Nat /\ n >= 1 /\ n < NodeSlots /\ n <= NodeSlots /\ n + x0 = s /\ n - 1 \in 0 .. n - 1
      /\ (n - 1) + x0 = s - 1
  BY <1>2, <1>3
<1>5. /\ l.pNode \in NodeIds \ t.G /\ d \in NodeIds \ t.G /\ l.pNode # d
      /\ {l.pNode, d} \cap ({l.n} \cup l.leaked) = {} /\ ({l.n} \cup l.leaked) \cap t.G = {}
  BY <1>1 DEF Halfway, Climbing
<1> HIDE DEF n, x0
<1>6. OldDropped(h, f, t, P, N, d, n)
  <2> DEFINE f0 == insertInnerNodeChildAt(h, d, o, n)
  <2>1. f = AddToChildren(f0, d, -1)
    BY DEF n
  <2>2. o \notin t.G /\ o # d
    BY <1>1, <1>5
  <2> HIDE DEF P, N, d
  <2>3. N = t.ch[P][s]
    BY <1>1
  <2>4. OldDropped(h, AddToChildren(f0, d, -1), t, P, N, d, n)
    BY <1>1, <1>2, <1>3, <1>4, <1>5, <2>2, <2>3, OldChildDropped
  <2> QED
    BY <2>1, <2>4
<1>7. /\ f \in Edits(h) /\ f # Fault /\ Stands(f, t, P, Under1(t, P), N)
      /\ f[d].numChildren = n /\ f[d].slotsinuse = n /\ f[d].isrootnode = h[d].isrootnode
      /\ f[d].keySlots = h[d].keySlots
      /\ \A x \in 0 .. n - 1 : f[d].firstChild[x] = h[d].firstChild[x]
      /\ \A m \in NodeIds \ {d} : Live(h, m) => SameBody(h[m], f[m])
      /\ \A m \in t.G : f[m].parent = h[m].parent
  BY <1>6 DEF OldDropped
<1>8. f \in Heap /\ IsInner(f, P) /\ IsInner(f, d) /\ \A m \in t.G : Live(f, m)
  <2>1. IsInner(h, d)
    BY <1>3 DEF Filling
  <2>2. \A m : (Live(f, m) <=> Live(h, m)) /\ (IsInner(f, m) <=> IsInner(h, m))
    <3>1. f \in Edits(h) /\ f # Fault
      BY <1>7
    <3> QED
      BY <3>1, EditsKeep
  <2>3. f \in Heap
    BY <1>7 DEF Edits
  <2> HIDE DEF P, d
  <2> QED
    BY <1>1, <2>1, <2>2, <2>3
<1>9. Filling(f, t, P, d, x0, n)
  BY <1>3, <1>7, <1>8 DEF Filling
<1>10. f[d].firstChild[n - 1] = t.ch[P][s - 1]
  BY <1>4, <1>9 DEF Filling
<1>11. LET p == t.ch[P][s - 1]
       IN  /\ p \in t.G /\ N \in t.G /\ M \in t.G /\ p # N /\ N # M /\ p # M
           /\ p # P /\ N # P /\ M # P /\ t.lev[p] = t.lev[N] /\ t.lev[M] = t.lev[N]
  <2> HIDE DEF P, N, M
  <2>1. LET p == t.ch[P][s - 1]
            a == t.ch[P][s]
            b == t.ch[P][s + 1]
        IN  /\ p \in t.G /\ a \in t.G /\ b \in t.G /\ p # a /\ a # b /\ p # b
            /\ p # P /\ a # P /\ b # P /\ t.lev[p] = t.lev[a] /\ t.lev[b] = t.lev[a]
    BY <1>1, <1>2, TopChildren
  <2> QED
    BY <1>1, <2>1
<1>12. \A m \in t.G : m # P => (IsLeaf(f, m) <=> t.lev[m] = 0)
  <2>1. \A m \in t.G : m # P => Says(f, t, m)
    BY <1>7 DEF Stands
  <2> QED
    BY <2>1 DEF Says, LeafSays, InnerSays, IsLeaf, IsInner
<1>13. TripleLast(f, g, d, k, N, M)
  <2>1. /\ Live(f, N) /\ Live(f, M) /\ N # d /\ M # d /\ N # M
        /\ IsLeaf(f, N) <=> IsLeaf(f, M)
    BY <1>5, <1>8, <1>11, <1>12
  <2>2. IsLeaf(f, N) /\ n >= 1 =>
           IsLeaf(f, f[d].firstChild[n - 1]) /\ f[d].firstChild[n - 1] \notin {N, M}
    BY <1>10, <1>11, <1>12
  <2>3. k \in KeySlot
    BY <1>1 DEF KeySlot
  <2> HIDE DEF P, N, M, k, d
  <2> QED
    BY <1>4, <1>7, <1>8, <2>1, <2>2, <2>3, NewPairPlaced DEF g
<1>14. Ended(h, g, t, l)
  <2> HIDE DEF g
  <2>1. Settled(f, g, t, P, d, N, M)
    <3> DEFINE F == Under1(t, P)
    <3>1. /\ Stands(f, t, P, F, N) /\ N = t.ch[P][s] /\ M = t.ch[P][s + 1] /\ d \notin t.G
          /\ f[d].slotsinuse >= 1 /\ f[d].firstChild[f[d].slotsinuse - 1] = t.ch[P][s - 1]
      BY <1>1, <1>4, <1>5, <1>7, <1>10
    <3> HIDE DEF P, N, M, k, d, F
    <3> QED
      BY <1>1, <1>2, <1>8, <1>13, <3>1, HalvesPlaced
  <2>2. Settled(h, g, t, P, d, N, M)
    BY <1>7, <2>1 DEF Settled
  <2>3. /\ g \in Edits(f) /\ g # Fault
        /\ g[d].slotsinuse = n + 1 /\ g[d].numChildren = n + 2
        /\ \A i \in 0 .. n - 1 : /\ g[d].keySlots[i] = f[d].keySlots[i]
                                 /\ g[d].firstChild[i] = f[d].firstChild[i]
        /\ g[d].keySlots[n] = k /\ g[d].firstChild[n] = N /\ g[d].firstChild[n + 1] = M
        /\ g[d].isrootnode = f[d].isrootnode
        /\ \A m \in NodeIds \ {d} : Live(f, m) => SameBody(f[m], g[m])
    BY <1>7, <1>13 DEF TripleLast
  <2>4. g \in Edits(h)
    BY <1>7, <2>3, EditsCompose
  <2>5. \A m \in t.G \cup {l.pNode} : SameBody(h[m], g[m])
    <3>1. Live(h, l.pNode) /\ Live(f, l.pNode)
      <4>1. f \in Edits(h) /\ f # Fault
        BY <1>7
      <4>2. Live(h, l.pNode)
        BY <1>3 DEF FirstHalf, IsInner
      <4> QED
        BY <4>1, <4>2, EditsKeep
    <3> SUFFICES ASSUME NEW m \in t.G \cup {l.pNode} PROVE SameBody(h[m], g[m])
      OBVIOUS
    <3>2. m \in NodeIds \ {d} /\ Live(h, m) /\ Live(f, m)
      BY <1>1, <1>5, <1>8, <3>1
    <3>3. SameBody(h[m], f[m])
      BY <1>7, <3>2
    <3>4. SameBody(f[m], g[m])
      BY <2>3, <3>2
    <3> QED
      BY <3>3, <3>4 DEF SameBody
  <2>6. FirstHalf(g, t, P, l.pNode, half)
    <3> HIDE DEF P, d
    <3> QED
      BY <1>3, <2>3, <2>4, <2>5, FirstHalfKept
  <2>7. SecondHalf(g, t, P, d, half)
    <3>1. /\ NodeSlots - half = n + 1 /\ x0 = half + 1 /\ (n + 1) - 1 = n /\ n + 1 + 1 = n + 2
      BY <1>1, <1>2, <1>3 DEF s, x0
    <3>2. IsInner(g, d)
      BY <1>8, <2>3, EditsKeep
    <3>3. ASSUME NEW x \in 0 .. n
          PROVE  g[d].keySlots[x] = t.ks[P][x + x0]
      <4>1. x \in 0 .. n - 1 \/ x = n
        BY <1>4
      <4>2. t.ks[P][n + x0] = k
        BY <1>1, <1>4
      <4> HIDE DEF P, d, k, N, M
      <4>3. CASE x \in 0 .. n - 1
        <5>1. g[d].keySlots[x] = f[d].keySlots[x]
          BY <2>3, <4>3
        <5>2. f[d].keySlots[x] = t.ks[P][x + x0]
          BY <1>9, <4>3 DEF Filling
        <5> QED
          BY <5>1, <5>2
      <4>4. CASE x = n
        BY <2>3, <4>2, <4>4
      <4> QED
        BY <4>1, <4>3, <4>4
    <3>4. ASSUME NEW x \in 0 .. n + 1
          PROVE  g[d].firstChild[x] = t.ch[P][x + x0]
      <4>1. x \in 0 .. n - 1 \/ x = n \/ x = n + 1
        BY <1>4
      <4>2. t.ch[P][n + x0] = N /\ t.ch[P][(n + 1) + x0] = M
        <5>1. (n + 1) + x0 = s + 1
          BY <1>2, <1>4
        <5> QED
          BY <1>1, <1>4, <5>1
      <4> HIDE DEF P, d, k, N, M
      <4>3. CASE x \in 0 .. n - 1
        <5>1. g[d].firstChild[x] = f[d].firstChild[x]
          BY <2>3, <4>3
        <5>2. f[d].firstChild[x] = t.ch[P][x + x0]
          BY <1>9, <4>3 DEF Filling
        <5> QED
          BY <5>1, <5>2
      <4>4. CASE x = n
        BY <2>3, <4>2, <4>4
      <4>5. CASE x = n + 1
        BY <2>3, <4>2, <4>5
      <4> QED
        BY <4>1, <4>3, <4>4, <4>5
    <3>5. ~g[d].isrootnode
      BY <1>9, <2>3 DEF Filling
    <3>6. g[d].slotsinuse = n + 1 /\ g[d].numChildren = n + 2
      BY <2>3
    <3> HIDE DEF P, d
    <3>7. /\ \A x \in 0 .. (n + 1) - 1 : g[d].keySlots[x] = t.ks[P][x + (half + 1)]
          /\ \A x \in 0 .. n + 1 : g[d].firstChild[x] = t.ch[P][x + (half + 1)]
      BY <3>1, <3>3, <3>4
    <3> HIDE DEF n
    <3> QED
      BY <3>1, <3>2, <3>5, <3>6, <3>7 DEF SecondHalf
  <2> QED
    BY <2>2, <2>3, <2>4, <2>5, <2>6, <2>7 DEF Ended, half
<1> QED
  BY <1>14 DEF g, n

-----------------------------------------------------------------------------
\* An inner key of a node is inside its span.
LEMMA KeyInside ==
    ASSUME NEW t, SearchTree(t), NEW P \in t.G, t.lev[P] > 0, NEW i \in 0 .. t.cnt[P] - 1
    PROVE  t.ks[P][i] \in Keys /\ t.lo[P] < t.ks[P][i] /\ t.ks[P][i] < t.hi[P]
<1> DEFINE a == t.ch[P][i]
           b == t.ch[P][i + 1]
           k == t.ks[P][i]
<1>1. t.cnt[P] \in Nat /\ k \in Keys
  BY ChildSpans DEF SearchTree, Inner
<1>2. i \in 0 .. t.cnt[P] /\ i + 1 \in 0 .. t.cnt[P] /\ i # t.cnt[P] /\ i + 1 # 0 /\ (i + 1) - 1 = i
  BY <1>1
<1>3. /\ a \in t.G /\ b \in t.G /\ t.hi[a] = k /\ t.lo[b] = k
      /\ t.lo[P] <= t.lo[a] /\ t.hi[b] <= t.hi[P]
  BY <1>2, ChildSpans DEF IsChild
<1> HIDE DEF a, b, k
<1>4. /\ t.lo[a] \in Int /\ t.hi[a] \in Int /\ t.lo[b] \in Int /\ t.hi[b] \in Int
      /\ t.lo[P] \in Int /\ t.hi[P] \in Int /\ t.lo[a] < t.hi[a] /\ t.lo[b] < t.hi[b]
  BY <1>3, Numbers
<1>5. t.lo[P] < k /\ k < t.hi[P]
  BY <1>3, <1>4
<1> QED
  BY <1>1, <1>5 DEF k

\* What the halves a and b of a replaced node o hold in the tree u.
Parted(t, o, a, b, half, u) ==
    /\ u.lev[a] = t.lev[o] /\ u.lev[b] = t.lev[o] /\ u.cnt[a] = half
    /\ u.cnt[b] = t.cnt[o] - (half + 1)
    /\ \A i \in Nat : /\ u.ks[a][i] = t.ks[o][i] /\ u.ch[a][i] = t.ch[o][i]
                      /\ u.ks[b][i] = t.ks[o][i + (half + 1)]
                      /\ u.ch[b][i] = t.ch[o][i + (half + 1)]

\* What the tree says of the halves that replace a node.
LEMMA ReplaceParts ==
    ASSUME NEW t, NEW o, NEW a \in NodeIds, NEW b \in NodeIds, a # b, NEW k, NEW half \in Nat,
           NEW u, u = Replace(t, o, a, b, k, half)
    PROVE  Parted(t, o, a, b, half, u)
  BY DEF Replace, Parted

\* The two new nodes are halves of P.
LEMMA EndHalved ==
    ASSUME NEW h \in Heap, NEW t, NEW l, NEW r, Splitting(h, t, l, r), NodeSlots >= 3,
           l.i = NodeSlots, NEW g, Ended(h, g, t, l), NEW half, half = NodeSlots \div 2,
           NEW u, u = Replace(t, l.parent, l.pNode, l.ppNode, l.kp, half)
    PROVE  Halved(g, t, l.parent, l.pNode, l.ppNode, l.kp, half, u)
<1> DEFINE P == l.parent
           s == NodeSlots
           a == l.pNode
           b == l.ppNode
           k == l.kp
<1>1. /\ P # NULL /\ P \in t.G /\ P \in NodeIds /\ t.lev[P] > 0 /\ t.hi[P] = t.top
      /\ SearchTree(t) /\ Stands(h, t, P, Under1(t, P), l.N)
      /\ Halfway(h, t, l) /\ Copied(h, t, l) /\ s \in Nat /\ half \in Nat /\ half >= 1
      /\ half + 2 <= s + 1 /\ half + 2 < s + 1 /\ l.i \in Nat
      /\ t.cnt[P] = s + 1 /\ t.ch[P][s] = l.N /\ t.ch[P][s + 1] = l.Nprime
  BY AtSplit
<1>2. l.i > half + 1 /\ half \in 0 .. t.cnt[P] - 1 /\ s >= half + half
  BY <1>1
<1>3. k = t.ks[P][half]
  BY <1>1, <1>2, CopiedAfter
<1>4. /\ a \in NodeIds \ t.G /\ b \in NodeIds \ t.G /\ a # b
      /\ \A x \in 0 .. s - 1 : h[t.ch[P][x]].parent = IF x <= half THEN a ELSE b
  BY <1>1 DEF Halfway
<1>5. k \in Keys /\ t.lo[P] < k /\ k < t.hi[P]
  <2> HIDE DEF P, k
  <2> QED
    BY <1>1, <1>2, <1>3, KeyInside
<1>6. /\ g \in Edits(h) /\ g # Fault /\ Settled(h, g, t, P, b, l.N, l.Nprime)
      /\ FirstHalf(g, t, P, a, half) /\ SecondHalf(g, t, P, b, half) /\ g \in Heap
  BY DEF Ended, Edits
<1>15. Parted(t, P, a, b, half, u)
  <2>1. half \in Nat /\ l.pNode \in NodeIds /\ l.ppNode \in NodeIds /\ l.pNode # l.ppNode
    BY <1>1, <1>4
  <2> HIDE DEF s
  <2> QED
    BY <2>1, ReplaceParts
<1> HIDE DEF P, s, a, b, k
<1>7. ASSUME NEW m \in t.G \ {P}
      PROVE  /\ Says(g, t, m) /\ Fit(g, t, m)
             /\ g[m].parent = IF t.par[m] # P THEN t.par[m] ELSE IF t.ix[m] <= half THEN a ELSE b
  <2>1. /\ Says(g, t, m) /\ Fit(g, t, m)
        /\ g[m].parent = IF m \in {l.N, l.Nprime} THEN b ELSE h[m].parent
    BY <1>6 DEF Settled
  <2>2. /\ IsChild(t, P, s) /\ IsChild(t, P, s + 1)
        /\ t.ix[l.N] = s /\ t.ix[l.Nprime] = s + 1 /\ t.par[l.N] = P /\ t.par[l.Nprime] = P
    <3>1. s \in 0 .. t.cnt[P] /\ s + 1 \in 0 .. t.cnt[P]
      BY <1>1
    <3>2. IsChild(t, P, s) /\ IsChild(t, P, s + 1)
      BY <1>1, <3>1, ChildSpans
    <3> QED
      BY <1>1, <3>2 DEF IsChild
  <2>3. CASE t.par[m] # P
    <3>1. m \notin {l.N, l.Nprime} /\ m \notin Under1(t, P)
      BY <2>2, <2>3 DEF Under1
    <3>2. h[m].parent = t.par[m]
      BY <1>1, <3>1 DEF Stands
    <3> QED
      BY <2>1, <2>3, <3>1, <3>2
  <2>4. CASE t.par[m] = P
    <3>1. t.ix[m] \in 0 .. t.cnt[P] /\ t.ch[P][t.ix[m]] = m
      BY <1>1, <2>4 DEF SearchTree, Hung
    <3>2. t.ix[m] \in 0 .. s - 1 \/ t.ix[m] = s \/ t.ix[m] = s + 1
      BY <1>1, <3>1
    <3>3. CASE t.ix[m] \in 0 .. s - 1
      <4>1. m \notin {l.N, l.Nprime}
        BY <1>1, <2>2, <3>3
      <4> QED
        BY <1>4, <2>1, <2>4, <3>1, <3>3, <4>1
    <3>4. CASE t.ix[m] \in {s, s + 1}
      <4>1. m \in {l.N, l.Nprime} /\ ~(t.ix[m] <= half)
        BY <1>1, <3>1, <3>4
      <4> QED
        BY <2>1, <2>4, <4>1
    <3> QED
      BY <3>2, <3>3, <3>4
  <2> QED
    BY <2>1, <2>3, <2>4
<1>8. /\ u.lev[a] = t.lev[P] /\ u.lev[b] = t.lev[P] /\ u.cnt[a] = half /\ u.cnt[b] = (s + 1) - (half + 1)
      /\ \A i \in Nat : /\ u.ks[a][i] = t.ks[P][i] /\ u.ch[a][i] = t.ch[P][i]
                        /\ u.ks[b][i] = t.ks[P][i + (half + 1)] /\ u.ch[b][i] = t.ch[P][i + (half + 1)]
  <2>2. /\ u.lev[a] = t.lev[P] /\ u.lev[b] = t.lev[P] /\ u.cnt[a] = half
        /\ u.cnt[b] = t.cnt[P] - (half + 1)
        /\ \A i \in Nat : /\ u.ks[a][i] = t.ks[P][i] /\ u.ch[a][i] = t.ch[P][i]
                          /\ u.ks[b][i] = t.ks[P][i + (half + 1)]
                          /\ u.ch[b][i] = t.ch[P][i + (half + 1)]
    BY <1>15 DEF Parted
  <2> QED
    BY <1>1, <2>2
<1>9. t.lev[P] # 0 /\ (s + 1) - (half + 1) = s - half /\ s - half \in Nat
  BY <1>1, <1>2, Numbers
<1>10. Says(g, u, a) /\ HalfFull(g, u, a)
  <2>1. \A i \in 0 .. half : i \in Nat
    BY <1>1
  <2>2. \A i \in 0 .. half - 1 : i \in 0 .. half
    BY <1>1
  <2>3. InnerSays(g, u, a)
    BY <1>6, <1>8, <2>1, <2>2 DEF FirstHalf, InnerSays
  <2>4. HalfFull(g, u, a)
    BY <1>1, <1>6, <1>8, <1>9 DEF FirstHalf, HalfFull
  <2> QED
    BY <1>8, <1>9, <2>3, <2>4 DEF Says
<1>11. Says(g, u, b) /\ HalfFull(g, u, b)
  <2> DEFINE e == s - half
  <2>1. e \in Nat /\ u.cnt[b] = e /\ e = NodeSlots - half /\ e >= half
    BY <1>1, <1>2, <1>8, <1>9 DEF s
  <2> HIDE DEF e
  <2>2. \A i \in 0 .. e : i \in Nat
    BY <2>1
  <2>3. \A i \in 0 .. e - 1 : i \in Nat
    BY <2>1
  <2>4. InnerSays(g, u, b)
    <3>1. /\ IsInner(g, b) /\ g[b].slotsinuse = e /\ g[b].numChildren = e + 1
          /\ \A i \in 0 .. e - 1 : g[b].keySlots[i] = t.ks[P][i + (half + 1)]
          /\ \A i \in 0 .. e : g[b].firstChild[i] = t.ch[P][i + (half + 1)]
      BY <1>6, <2>1 DEF SecondHalf
    <3>2. /\ \A i \in 0 .. e - 1 : g[b].keySlots[i] = u.ks[b][i]
          /\ \A i \in 0 .. e : g[b].firstChild[i] = u.ch[b][i]
      BY <1>8, <2>2, <2>3, <3>1
    <3> QED
      BY <2>1, <3>1, <3>2 DEF InnerSays
  <2>5. HalfFull(g, u, b)
    BY <1>1, <1>6, <1>8, <1>9, <2>1 DEF SecondHalf, HalfFull
  <2> QED
    BY <1>8, <1>9, <2>4, <2>5 DEF Says
<1>12. \A m \in t.G : t.lev[m] = 0 => After(g, t, NULL, m) /\ Before(g, t, NULL, m)
  BY <1>6 DEF Settled
<1>13. u = Replace(t, P, a, b, k, half) /\ IsFiniteSet(t.G)
  BY <1>1 DEF P, a, b, k, Stands
<1>14. Halved(g, t, P, a, b, k, half, u)
  <2>1. t.lev[P] > 0 => half >= 1 /\ half + 2 <= t.cnt[P] /\ k = t.ks[P][half]
    BY <1>1, <1>3
  <2> QED
    BY <1>1, <1>4, <1>5, <1>6, <1>7, <1>9, <1>10, <1>11, <1>12, <1>13, <2>1 DEF Halved
<1> QED
  BY <1>14 DEF P, a, b, k

-----------------------------------------------------------------------------
\* split_parent ends: its halves wait for their own parent.
LEMMA SplitParentEndKeepsShape ==
    ASSUME AppendInv, SplitParentEnd, NodeSlots >= 3
    PROVE  Grown'
<1> DEFINE p    == heap[local.parent]
           P    == local.parent
           pp   == local.ppNode
           last == p.firstChild[local.i]
           h1   == IF last = NULL THEN heap ELSE insertInnerNodeChildAt(heap, pp, last, local.j)
           h0   == AddToChildren(h1, pp, -1)
           h2   == IF local.added THEN h1
                   ELSE PlaceNewPair(h0, pp, local.k, local.N, local.Nprime, local.j)
           l    == [parent |-> p.parent, N |-> local.pNode, k |-> local.kp, Nprime |-> pp,
                    n |-> local.n, leaked |-> local.leaked \cup {local.parent}]
           half == NodeSlots \div 2
<1>1. /\ pc = "split_parent" /\ local.i >= p.slotsinuse /\ Go(h2, "insert_in_parent", l)
      /\ UNCHANGED <<root, totalkeycount, call>>
  BY DEF SplitParentEnd
<1>2. /\ root # NULL /\ heap \in Heap
      /\ \A m \in {local.n} \cup local.leaked : Live(heap, m)
      /\ \E t : /\ Splitting(heap, t, local, root)
                /\ totalkeycount = Cardinality(Pairs(heap, t))
  <2>1. root # NULL /\ heap \in Heap
        /\ \E t : /\ Shape(heap, t, pc, local, call, root)
                  /\ totalkeycount = Cardinality(Pairs(heap, t))
    BY <1>1, Shaped
  <2>2. \A m \in {local.n} \cup local.leaked : Live(heap, m)
    BY <1>1, RootThere DEF AppendInv, RootInv, RootSafe, RootApart
  <2> QED
    BY <1>1, <2>1, <2>2 DEF Shape
<1>3. PICK t : /\ Splitting(heap, t, local, root)
               /\ totalkeycount = Cardinality(Pairs(heap, t))
  BY <1>2
<1>4. /\ P # NULL /\ P \in t.G /\ P \in NodeIds /\ t.lev[P] > 0 /\ t.hi[P] = t.top
      /\ IsInner(heap, P) /\ Live(heap, P) /\ SearchTree(t)
      /\ Stands(heap, t, P, Under1(t, P), local.N) /\ Climbing(heap, t, local, root)
      /\ Crown(t, root) /\ Halfway(heap, t, local) /\ Copied(heap, t, local)
      /\ NodeSlots \in Nat /\ half \in Nat /\ local.i \in Nat /\ local.i <= NodeSlots
      /\ heap[P].slotsinuse = NodeSlots
      /\ Live(heap, heap[P].firstChild[NodeSlots])
  BY <1>2, <1>3, AtSplit
<1>5. local.i = NodeSlots /\ last # NULL /\ ~local.added
  <2>1. local.i = NodeSlots
    BY <1>1, <1>4
  <2>2. ~local.added
    BY <1>4 DEF Copied
  <2> QED
    BY <1>4, <2>1, <2>2, NodeIdsAssumption DEF Live
<1> HIDE DEF half
<1>6. Ended(heap, h2, t, local)
  <2> DEFINE o == heap[local.parent].firstChild[NodeSlots]
             f == AddToChildren(insertInnerNodeChildAt(heap, local.ppNode, o, local.j),
                                local.ppNode, -1)
  <2>1. h2 = PlaceNewPair(f, local.ppNode, local.k, local.N, local.Nprime, local.j)
    BY <1>5
  <2> HIDE DEF h2
  <2>2. o = heap[local.parent].firstChild[NodeSlots]
    OBVIOUS
  <2>3. f = AddToChildren(insertInnerNodeChildAt(heap, local.ppNode, o, local.j), local.ppNode, -1)
    OBVIOUS
  <2> HIDE DEF o, f
  <2>4. Ended(heap, PlaceNewPair(f, local.ppNode, local.k, local.N, local.Nprime, local.j), t, local)
    BY <1>2, <1>3, <1>5, <2>2, <2>3, SplitEnds
  <2> QED
    BY <2>1, <2>4
<1> HIDE DEF h2
<1> DEFINE u == Replace(t, P, local.pNode, pp, local.kp, half)
<1>7. Halved(h2, t, P, local.pNode, pp, local.kp, half, u)
  <2>1. half = NodeSlots \div 2 /\ u = Replace(t, local.parent, local.pNode, local.ppNode, local.kp, half)
    BY DEF half
  <2> HIDE DEF u
  <2> QED
    BY <1>2, <1>3, <1>5, <1>6, <2>1, EndHalved
<1>8. Stands(h2, u, t.par[P], {local.pNode, pp}, local.pNode)
  BY <1>7, HalvesStand
<1>9. /\ h2 \in Heap /\ h2 \in Edits(heap) /\ h2 # Fault
      /\ \A m \in t.G : SameBody(heap[m], h2[m])
  BY <1>6 DEF Ended, Edits
<1>10. /\ local.pNode \in NodeIds \ t.G /\ pp \in NodeIds \ t.G /\ local.pNode # pp
       /\ local.kp \in Keys /\ t.lo[P] < local.kp /\ local.kp < t.hi[P]
       /\ HalfFull(h2, u, local.pNode) /\ HalfFull(h2, u, pp)
       /\ \A m \in t.G \ {P} : Says(h2, t, m)
  BY <1>7 DEF Halved
<1>11. t.par[P] # P /\ p.parent = t.par[P]
  <2>1. t.par[P] # P
    <3>1. t.par[P] # NULL => t.lev[t.par[P]] = t.lev[P] + 1 /\ t.lev[P] \in Nat
      BY <1>4, LastChild, Numbers
    <3> QED
      BY <1>4, <3>1
  <2>2. P \notin Under1(t, P)
    BY <2>1 DEF Under1
  <2> QED
    BY <1>4, <2>1, <2>2 DEF Stands
<1>12. /\ Live(h2, P) /\ (IsLeaf(h2, P) <=> t.lev[P] = 0) /\ Live(h2, local.n)
  <2>1. IsInner(h2, P) /\ Live(h2, local.n)
    <3> HIDE DEF P
    <3> QED
      BY <1>2, <1>4, <1>9, EditsKeep
  <2>2. t.lev[P] # 0
    BY <1>4, Numbers
  <2> QED
    BY <2>1, <2>2 DEF IsInner, IsLeaf
<1>13. /\ ({local.n} \cup (local.leaked \cup {P})) \cap t.G \subseteq {P}
       /\ P \in {local.n} \cup (local.leaked \cup {P})
       /\ local.pNode \notin {local.n} \cup (local.leaked \cup {P})
       /\ pp \notin {local.n} \cup (local.leaked \cup {P})
  BY <1>4 DEF Climbing, Halfway
<1>14. Climbing(h2, u, l, root)
  <2> DEFINE K == local.leaked \cup {P}
  <2>1. /\ l.parent = t.par[P] /\ l.N = local.pNode /\ l.Nprime = pp /\ l.k = local.kp
        /\ l.n = local.n /\ l.leaked = K
    BY <1>11
  <2>2. SearchTree(u) /\ u = Replace(t, P, local.pNode, pp, local.kp, half)
    BY <1>8 DEF Stands
  <2>3. t.par[P] # NULL => Says(h2, t, t.par[P])
    <3>1. t.par[P] # NULL => t.par[P] \in t.G
      BY <1>4, Numbers
    <3> QED
      BY <1>10, <1>11, <3>1
  <2>4. /\ ({local.n} \cup K) \cap t.G \subseteq {P} /\ P \in {local.n} \cup K
        /\ local.pNode \notin {local.n} \cup K /\ pp \notin {local.n} \cup K
    BY <1>13
  <2> HIDE DEF l, u, K, P, pp
  <2> QED
    BY <1>4, <1>9, <1>10, <1>12, <2>1, <2>2, <2>3, <2>4, ReplaceClimbs
<1>15. Shape(h2, u, "insert_in_parent", l, call', root')
  <2>1. l.parent = t.par[P] /\ l.N = local.pNode /\ l.Nprime = pp
    BY <1>11
  <2> HIDE DEF l, u
  <2> QED
    BY <1>1, <1>8, <1>14, <2>1 DEF Shape, Rising
<1>16. Pairs(h2, u) = Pairs(heap, t)
  <2>1. /\ u.G = (t.G \ {P}) \cup {local.pNode, pp}
        /\ \A m \in NodeIds : u.lev[m] = IF m \in {local.pNode, pp} THEN t.lev[P] ELSE t.lev[m]
    BY <1>4, ReplaceFields
  <2> HIDE DEF u
  <2>2. t.lev[P] # 0 /\ t.G \subseteq NodeIds
    BY <1>4, Numbers
  <2>3. {m \in u.G : u.lev[m] = 0} = {m \in t.G : t.lev[m] = 0}
    BY <1>10, <2>1, <2>2
  <2>4. \A m \in t.G : t.lev[m] = 0 => h2[m].slotsinuse = heap[m].slotsinuse
    BY <1>9 DEF SameBody
  <2> QED
    BY <2>3, <2>4, PairsKept
<1> HIDE DEF l, u
<1> QED
  BY <1>1, <1>2, <1>3, <1>9, <1>15, <1>16, GoGrows

-----------------------------------------------------------------------------
\* The scan for duplicates is well defined; past the last pair of a leaf that no leaf
\* follows it finds nothing.
LEMMA NothingRepeated ==
    ASSUME NEW h \in Heap, NEW l, IsLeaf(h, l), Readable(h, l), h[l].nextLeaf = NULL,
           NEW loc, loc = h[l].slotsinuse, NEW k, NEW d, NEW junk \in BOOLEAN
    PROVE  DuplicateFrom(h, l, loc, k, d, junk) = "none"
<1> DEFINE start(cur) == IF cur = l THEN loc ELSE 0
           here(cur)  == keyequal(h[cur].keySlots[start(cur)], k, junk)
           again(cur) == \E j \in start(cur) .. h[cur].slotsinuse - 1 :
                            /\ h[cur].dataSlots[j] = d
                            /\ \A m \in start(cur) .. j : keyequal(h[cur].keySlots[m], k, junk)
           Body(f) == [cur \in Pointer |->
              IF cur = NULL THEN "none"
              ELSE IF ~(IsLeaf(h, cur) /\ Readable(h, cur)) THEN "fault"
              ELSE IF ~here(cur) THEN "none"
              ELSE IF again(cur) THEN "pair"
              ELSE f[h[cur].nextLeaf]]
<1> HIDE DEF start, here, again
<1> DEFINE on(cur) == /\ cur # NULL /\ IsLeaf(h, cur) /\ Readable(h, cur)
                      /\ here(cur) /\ ~again(cur)
           E == [cur \in Pointer |-> IF on(cur) THEN {h[cur].nextLeaf} ELSE {}]
           B == [cur \in Pointer |->
                   IF cur = NULL \/ on(cur) THEN {}
                   ELSE IF ~(IsLeaf(h, cur) /\ Readable(h, cur)) THEN {"fault"}
                   ELSE IF ~here(cur) THEN {} ELSE {"pair"}]
<1>1. E \in [Pointer -> SUBSET Pointer]
  <2>1. \A cur \in Pointer : on(cur) => h[cur].nextLeaf \in Pointer
    BY LiveTypes DEF leafNode, IsLeaf, Live
  <2> HIDE DEF on
  <2> QED
    BY <2>1
<1>2. B \in [Pointer -> SUBSET {"pair", "fault"}]
  OBVIOUS
<1>3. PICK f \in [Pointer -> SUBSET {"pair", "fault"}] :
         \A n \in Pointer : f[n] = B[n] \cup UNION {f[c] : c \in E[n]}
  <2> HIDE DEF E, B
  <2>1. \E f \in [Pointer -> SUBSET {"pair", "fault"}] : Collects(f, Pointer, E, B)
    BY <1>1, <1>2, SetRecursion
  <2> QED
    BY <2>1 DEF Collects
<1> DEFINE said(S) == IF "pair" \in S THEN "pair" ELSE IF "fault" \in S THEN "fault" ELSE "none"
           g == [n \in Pointer |-> said(f[n])]
<1>4. ASSUME NEW n \in Pointer PROVE g[n] = Body(g)[n]
  <2>1. CASE on(n)
    <3>1. h[n].nextLeaf \in Pointer
      BY <2>1, LiveTypes DEF leafNode, IsLeaf, Live
    <3>2. f[n] = f[h[n].nextLeaf]
      <4>1. E[n] = {h[n].nextLeaf} /\ B[n] = {}
        BY <2>1
      <4> HIDE DEF on, E, B
      <4>2. f[n] = B[n] \cup UNION {f[c] : c \in E[n]}
        BY <1>3
      <4> QED
        BY <4>1, <4>2
    <3>3. Body(g)[n] = g[h[n].nextLeaf]
      BY <2>1
    <3> HIDE DEF on, E, B
    <3> QED
      BY <3>1, <3>2, <3>3
  <2>2. CASE ~on(n)
    <3>1. f[n] = B[n]
      BY <1>3, <2>2
    <3>2. g[n] = said(B[n])
      BY <3>1
    <3>3. CASE n = NULL
      BY <3>2, <3>3
    <3>4. CASE n # NULL /\ ~(IsLeaf(h, n) /\ Readable(h, n))
      BY <3>2, <3>4
    <3>5. CASE n # NULL /\ IsLeaf(h, n) /\ Readable(h, n) /\ ~here(n)
      BY <3>2, <3>5
    <3>6. CASE n # NULL /\ IsLeaf(h, n) /\ Readable(h, n) /\ here(n) /\ again(n)
      BY <3>2, <3>6
    <3> QED
      BY <2>2, <3>3, <3>4, <3>5, <3>6
  <2> QED
    BY <2>1, <2>2
<1>5. g = Body(g)
  <2> HIDE DEF said
  <2>1. g = [n \in Pointer |-> g[n]] /\ Body(g) = [n \in Pointer |-> Body(g)[n]]
    OBVIOUS
  <2> QED
    BY <1>4, <2>1
<1> DEFINE scan == CHOOSE f1 : f1 = Body(f1)
<1>6. scan = Body(scan)
  <2> HIDE DEF g, Body
  <2> QED
    BY <1>5
<1>7. DuplicateFrom(h, l, loc, k, d, junk) = scan[l]
  BY DEF DuplicateFrom, start, here, again
<1>8. l \in Pointer /\ NULL \in Pointer /\ l # NULL
  BY NodeIdsAssumption DEF Pointer, IsLeaf, Live
<1>9. ~again(l)
  <2>1. loc \in Nat
    BY LiveTypes, NodeTypes DEF node, IsLeaf
  <2> QED
    BY <2>1 DEF again, start
<1>10. scan[NULL] = "none"
  <2> HIDE DEF scan
  <2> QED
    BY <1>6, <1>8
<1>11. Body(scan)[l] = IF ~here(l) THEN "none" ELSE scan[NULL]
  <2> HIDE DEF scan
  <2> QED
    BY <1>8, <1>9
<1> HIDE DEF scan, Body
<1> QED
  BY <1>6, <1>7, <1>10, <1>11

\* No step of a search or an insertion is undefined.
LEMMA NothingUndefined ==
    ASSUME AppendInv
    PROVE  ~Undefined
<1> SUFFICES ASSUME Undefined PROVE FALSE
  OBVIOUS
<1>1. TypeInv /\ pc \in InsertSteps
  BY DEF AppendInv, RootInv, InsertInv, Filled
<1>2. CASE pc = "find"
  <2>1. \E t : Shape(heap, t, pc, local, call, root)
    BY <1>2, Shaped
  <2>2. Readable(heap, local.at)
    BY <1>2, <2>1, AtFind
  <2> QED
    BY <1>2, <2>2 DEF Undefined, Unbalanced, Underflowing
<1>3. CASE pc = "insert"
  <2>1. heap \in Heap /\ \E t : Shape(heap, t, pc, local, call, root)
    BY <1>3, Shaped
  <2>2. PICK t : Shape(heap, t, pc, local, call, root)
    BY <2>1
  <2>3. /\ Resting(heap, t, root) /\ SearchTree(t) /\ local.at \in t.G /\ t.lev[local.at] = 0
        /\ t.hi[local.at] = t.top /\ call.key \in Keys /\ call.key >= t.top
        /\ IsLeaf(heap, local.at) /\ Readable(heap, local.at) /\ Says(heap, t, local.at)
    BY <1>3, <2>2, AtInsert
  <2>4. heap[local.at].nextLeaf = NULL
    <3>1. After(heap, t, NULL, local.at)
      BY <2>3, RestingNode
    <3>2. ASSUME NEW b, Follows(t, local.at, b) PROVE FALSE
      <4>1. b \in t.G /\ t.lo[b] = t.top
        BY <2>3, <3>2 DEF Follows
      <4>2. t.lo[b] \in Int /\ t.hi[b] \in Int /\ t.lo[b] < t.hi[b] /\ t.hi[b] <= t.top
        BY <2>3, <4>1, Numbers
      <4> QED
        BY <4>1, <4>2
    <3> QED
      BY <3>1, <3>2 DEF After
  <2>5. findKeyLoc(heap[local.at], call.key) = heap[local.at].slotsinuse
    BY <2>1, <2>3, LastKeys
  <2>6. ASSUME NEW junk \in Indeterminate
        PROVE  PairResult(heap, local.at, call.key, call.data, junk) # "fault"
    <3>1. junk \in BOOLEAN
      BY WorkloadAssumption
    <3>2. DuplicateFrom(heap, local.at, findKeyLoc(heap[local.at], call.key), call.key,
                        call.data, junk) = "none"
      BY <2>1, <2>3, <2>4, <2>5, <3>1, NothingRepeated
    <3> QED
      BY <2>3, <3>2 DEF PairResult
  <2> QED
    BY <1>3, <2>6 DEF Undefined, Unbalanced, Underflowing
<1>4. CASE pc = "insert_in_parent"
  <2>1. /\ heap \in Heap /\ local.k \in Keys /\ Within(heap)
        /\ \E t : Rising(heap, t, local, root) /\ SearchTree(t)
    BY <1>4, AtClimb
  <2>2. PICK t : Rising(heap, t, local, root) /\ SearchTree(t)
    BY <2>1
  <2>3. local.k # Junk
    BY <2>1, JunkAssumption
  <2>4. ASSUME local.parent # NULL
        PROVE  /\ IsInner(heap, local.parent) /\ Readable(heap, local.parent)
               /\ heap[local.parent].slotsinuse >= NodeSlots =>
                     ~(heap[local.parent].numChildren < NodeSlots + 1)
    <3> DEFINE P == local.parent
               s == heap[P].slotsinuse
    <3>1. Behind(heap, t, local)
      BY <2>2, <2>4 DEF Rising, Climbing
    <3>2. /\ P \in NodeIds /\ IsInner(heap, P) /\ s \in Nat /\ heap[P].numChildren = s + 1
          /\ \A i \in 0 .. s - 1 : heap[P].keySlots[i] = t.ks[P][i]
          /\ \A i \in 0 .. s - 1 : t.ks[P][i] \in Keys
      BY <2>1, <2>2, <3>1, BehindNumbers
    <3>3. \A i \in 0 .. s - 1 : heap[P].keySlots[i] # Junk
      BY <3>2, JunkAssumption
    <3>4. Live(heap, P) /\ ~heap[P].isleafnode /\ s <= NodeSlots
      BY <2>1, <3>2 DEF Within, Room, IsInner, Live
    <3>5. Readable(heap, P)
      BY <3>3, <3>4 DEF Readable
    <3>6. ASSUME s >= NodeSlots PROVE ~(heap[P].numChildren < NodeSlots + 1)
      <4>1. NodeSlots \in Nat /\ s \in Nat /\ heap[P].numChildren = s + 1
        BY <3>2, SlotsAssumption
      <4> HIDE DEF s, P
      <4> QED
        BY <3>6, <4>1
    <3> QED
      BY <3>2, <3>5, <3>6
  <2> QED
    BY <1>4, <2>3, <2>4, Zenon DEF Undefined, Unbalanced, Underflowing
<1> QED
  BY <1>1, <1>2, <1>3, <1>4, Zenon DEF InsertSteps, Undefined, Unbalanced, Underflowing

\* Every step of a workload that only appends keeps the shape of the tree.
LEMMA NextKeepsShape ==
    ASSUME AppendInv, Inserts \subseteq {"append", "fill"}, Erases = {}, DeletePairs = {},
           NodeSlots >= 3, Next
    PROVE  Grown'
<1>1. CASE Calls
  BY <1>1, CallsKeepShape
<1>2. ~Undefined /\ ~Stopped
  BY NothingUndefined DEF Stopped, AppendInv, Grown
<1>3. CASE Steps
  <2>1. CASE FindChild \/ FindNextLeaf \/ FindLeaf
    BY <2>1, FindChildKeepsShape, FindNextLeafKeepsShape, FindLeafKeepsShape
  <2>2. CASE SplitFullLeaf \/ NewRoot \/ InsertInParent
    BY <2>2, SplitFullLeafKeepsShape, NewRootKeepsShape, InsertInParentKeepsShape
  <2>3. CASE SplitParent \/ SplitParentLoop \/ SplitParentEnd
    BY <2>3, SplitParentKeepsShape, SplitParentLoopKeepsShape, SplitParentEndKeepsShape
  <2>4. ASSUME NEW junk, InsertPair(junk) PROVE Grown'
    BY <2>4, InsertPairKeepsShape
  <2>5. ASSUME Get \/ \E junk : InsertDuplicate(junk) PROVE Grown'
    BY <2>5, AnswersKeepShape
  <2>6. InsertInv
    BY DEF AppendInv, RootInv
  <2> QED
    BY <1>2, <1>3, <2>1, <2>2, <2>3, <2>4, <2>5, <2>6, NothingIsDeleted, Zenon DEF Steps
<1> QED
  BY <1>1, <1>2, <1>3 DEF Next

\* The inductive invariant holds of the empty tree.
LEMMA AppendStarts ==
    ASSUME Init
    PROVE  AppendInv
<1>1. InsertInv
  BY InitTypes DEF Init, InsertInv, Filled, Within, InsertSteps, NoCall, Fault
<1> QED
  BY <1>1 DEF Init, AppendInv, Grown, RootInv, RootSafe

\* Every step of a workload that only appends keeps it.
LEMMA AppendStays ==
    ASSUME AppendInv, Inserts \subseteq {"append", "fill"}, Erases = {}, DeletePairs = {},
           NodeSlots >= 3, [Next]_vars
    PROVE  AppendInv'
<1>1. CASE Next
  <2>1. TypeInv' /\ Filled' /\ RootSafe' /\ Grown'
    BY <1>1, NextTypes, NextFills, NextKeepsRoot, NextKeepsShape DEF AppendInv, RootInv, InsertInv
  <2> QED
    BY <2>1 DEF AppendInv, RootInv, InsertInv
<1>2. CASE UNCHANGED vars
  BY <1>2 DEF vars, AppendInv, Grown, RootInv, RootSafe, InsertInv, TypeInv, TypeOK, Standing,
              Filled, SplitCount
<1> QED
  BY <1>1, <1>2

\* It holds of every tree that keys are only appended to.
LEMMA AppendInvHolds ==
    ASSUME Inserts \subseteq {"append", "fill"}, Erases = {}, DeletePairs = {}, NodeSlots >= 3
    PROVE  Spec => []AppendInv
<1>1. Init => AppendInv
  BY AppendStarts
<1>2. AppendInv /\ [Next]_vars => AppendInv'
  BY AppendStays
<1> QED
  BY <1>1, <1>2, PTL DEF Spec

-----------------------------------------------------------------------------
\* The tree between two calls.
Still(t) ==
    /\ heap \in Heap /\ Within(heap) /\ root # NULL /\ root \in t.G
    /\ Resting(heap, t, root) /\ SearchTree(t) /\ IsFiniteSet(t.G)
    /\ heap[root].isrootnode /\ heap[root].parent = NULL
    /\ totalkeycount = Cardinality(Pairs(heap, t))

\* Such a tree stands between two calls.
LEMMA AtRest ==
    ASSUME AppendInv, Idle
    PROVE  \E t : Still(t)
<1>1. root # NULL /\ pc = "idle" /\ heap \in Heap /\ Within(heap)
  BY Globals DEF Idle, AppendInv, RootInv, InsertInv, Filled
<1>2. PICK t : Shape(heap, t, pc, local, call, root) /\ totalkeycount = Cardinality(Pairs(heap, t))
  BY <1>1 DEF AppendInv, Grown
<1>3. Resting(heap, t, root)
  BY <1>1, <1>2 DEF Shape
<1>4. heap[root].isrootnode /\ heap[root].parent = NULL
  BY <1>1 DEF AppendInv, RootInv, RootSafe, Rooted
<1>5. SearchTree(t) /\ IsFiniteSet(t.G) /\ root \in t.G
  BY <1>3 DEF Resting, Stands, Crown
<1> QED
  BY <1>1, <1>2, <1>3, <1>4, <1>5 DEF Still

\* A node of it.
LEMMA StillNode ==
    ASSUME NEW t, Still(t), NEW m \in t.G
    PROVE  /\ m \in NodeIds /\ m \in Pointer /\ m # NULL /\ t.lev[m] \in Nat
           /\ t.lev[m] = 0 => LeafSays(heap, t, m) /\ IsLeaf(heap, m) /\ ~IsInner(heap, m)
           /\ t.lev[m] > 0 =>
                 /\ InnerSays(heap, t, m) /\ IsInner(heap, m) /\ ~IsLeaf(heap, m)
                 /\ t.cnt[m] \in Nat /\ t.cnt[m] >= 1
                 /\ heap[m].slotsinuse = t.cnt[m] /\ heap[m].numChildren = t.cnt[m] + 1
                 /\ Children(m) = {t.ch[m][i] : i \in 0 .. t.cnt[m]}
                 /\ heap[m].firstChild[0] = t.ch[m][0]
                 /\ \A i \in 0 .. t.cnt[m] : IsChild(t, m, i) /\ t.ch[m][i] \in t.G
<1>1. /\ m \in NodeIds /\ m \in Pointer /\ m # NULL /\ t.lev[m] \in Nat /\ Says(heap, t, m)
  BY RestingNode, Numbers DEF Still, Pointer
<1>2. ASSUME t.lev[m] = 0 PROVE LeafSays(heap, t, m) /\ IsLeaf(heap, m) /\ ~IsInner(heap, m)
  BY <1>1, <1>2 DEF Says, LeafSays, IsLeaf, IsInner
<1>3. ASSUME t.lev[m] > 0
      PROVE  /\ InnerSays(heap, t, m) /\ IsInner(heap, m) /\ ~IsLeaf(heap, m)
             /\ t.cnt[m] \in Nat /\ t.cnt[m] >= 1
             /\ heap[m].slotsinuse = t.cnt[m] /\ heap[m].numChildren = t.cnt[m] + 1
             /\ Children(m) = {t.ch[m][i] : i \in 0 .. t.cnt[m]}
             /\ heap[m].firstChild[0] = t.ch[m][0]
             /\ \A i \in 0 .. t.cnt[m] : IsChild(t, m, i) /\ t.ch[m][i] \in t.G
  <2>1. InnerSays(heap, t, m) /\ IsInner(heap, m) /\ ~IsLeaf(heap, m)
    BY <1>1, <1>3 DEF Says, InnerSays, IsLeaf, IsInner
  <2>2. /\ t.cnt[m] \in Nat /\ t.cnt[m] >= 1
        /\ \A i \in 0 .. t.cnt[m] : IsChild(t, m, i) /\ t.ch[m][i] \in t.G
    BY <1>3, ChildSpans DEF Still
  <2>3. /\ heap[m].slotsinuse = t.cnt[m] /\ heap[m].numChildren = t.cnt[m] + 1
        /\ \A i \in 0 .. t.cnt[m] : heap[m].firstChild[i] = t.ch[m][i]
    BY <2>1 DEF InnerSays
  <2>4. heap[m].numChildren - 1 = t.cnt[m] /\ 0 \in 0 .. t.cnt[m]
    BY <2>2, <2>3
  <2>5. Children(m) = {t.ch[m][i] : i \in 0 .. t.cnt[m]}
    BY <2>3, <2>4 DEF Children
  <2> QED
    BY <2>1, <2>2, <2>3, <2>4, <2>5
<1> QED
  BY <1>1, <1>2, <1>3

\* The nodes below the root are those of the tree.
LEMMA TreeNodes ==
    ASSUME NEW t, Still(t)
    PROVE  Tree \subseteq t.G
<1> DEFINE S == {m \in t.G : NodesBelow[m] \subseteq t.G}
<1>1. \A n \in Pointer : NodesBelow[n] =
         {n} \cup IF IsInner(heap, n) THEN UNION {NodesBelow[c] : c \in Children(n)} ELSE {}
  BY NodesBelowUnfolds DEF Still
<1>2. ASSUME NEW m \in t.G, t.lev[m] = 0 PROVE m \in S
  BY <1>1, <1>2, StillNode
<1>3. ASSUME NEW m \in t.G, t.lev[m] > 0, \A i \in 0 .. t.cnt[m] : t.ch[m][i] \in S PROVE m \in S
  <2>1. m \in Pointer /\ IsInner(heap, m) /\ Children(m) = {t.ch[m][i] : i \in 0 .. t.cnt[m]}
    BY <1>3, StillNode
  <2>2. NodesBelow[m] = {m} \cup UNION {NodesBelow[c] : c \in Children(m)}
    BY <1>1, <2>1
  <2>3. \A c \in Children(m) : NodesBelow[c] \subseteq t.G
    BY <1>3, <2>1
  <2> QED
    BY <2>2, <2>3
<1>4. t.G \subseteq S
  <2> HIDE DEF S
  <2> QED
    BY <1>2, <1>3, ByLevel DEF Still
<1> QED
  BY <1>4 DEF Tree, Still

\* The nodes are linked.
LEMMA StillShape ==
    ASSUME NEW t, Still(t)
    PROVE  TreeShape
<1> DEFINE S == {m \in t.G : WellLinked[m]}
<1>1. ASSUME NEW m \in t.G, t.lev[m] = 0 PROVE m \in S
  BY <1>1, StillNode, WellLinkedUnfolds
<1>2. ASSUME NEW m \in t.G, t.lev[m] > 0, \A i \in 0 .. t.cnt[m] : t.ch[m][i] \in S PROVE m \in S
  <2>1. /\ m \in NodeIds /\ m # NULL /\ IsInner(heap, m) /\ t.cnt[m] \in Nat
        /\ heap[m].slotsinuse = t.cnt[m] /\ heap[m].numChildren = t.cnt[m] + 1
        /\ Children(m) = {t.ch[m][i] : i \in 0 .. t.cnt[m]}
        /\ \A i \in 0 .. t.cnt[m] : IsChild(t, m, i) /\ t.ch[m][i] \in t.G
    BY <1>2, StillNode
  <2>2. heap[m].slotsinuse <= NodeSlots
    BY <2>1 DEF Still, Within, Room, IsInner, Live
  <2>3. ASSUME NEW i \in 0 .. t.cnt[m]
        PROVE  LET c == t.ch[m][i]
               IN  Live(heap, c) /\ heap[c].parent = m /\ ~heap[c].isrootnode /\ WellLinked[c]
    <3> DEFINE c == t.ch[m][i]
    <3>1. c \in t.G /\ t.par[c] = m /\ WellLinked[c]
      BY <1>2, <2>1 DEF IsChild
    <3>2. heap[c].parent = t.par[c] /\ Fit(heap, t, c)
      BY <3>1, RestingNode DEF Still
    <3>3. IsLeaf(heap, c) \/ IsInner(heap, c)
      BY <3>1, StillNode
    <3> HIDE DEF c
    <3>4. Live(heap, c) /\ heap[c].parent = m /\ ~heap[c].isrootnode
      BY <2>1, <3>1, <3>2, <3>3 DEF Fit, HalfFull, IsLeaf, IsInner
    <3> QED
      BY <3>1, <3>4 DEF c
  <2>4. WellHere(m) /\ \A c \in Children(m) : WellLinked[c]
    BY <2>1, <2>2, <2>3 DEF WellHere
  <2> QED
    BY <2>1, <2>4, WellLinkedUnfolds
<1>3. t.G \subseteq S
  <2> HIDE DEF S
  <2> QED
    BY <1>1, <1>2, ByLevel DEF Still
<1> QED
  BY <1>3 DEF TreeShape, Still

\* The keys of a leaf lie in its span.
LEMMA LeafKeys ==
    ASSUME NEW t, Still(t), NEW l \in t.G, t.lev[l] = 0
    PROVE  /\ t.lo[l] \in Int /\ t.hi[l] \in Int /\ t.top \in Int /\ t.bot \in Int
           /\ heap[l].slotsinuse \in Nat /\ heap[l].slotsinuse >= 1 /\ heap[l].slotsinuse <= LeafSlots
           /\ t.bot <= t.lo[l] /\ t.lo[l] < t.hi[l] /\ t.hi[l] <= t.top
           /\ \A i \in 0 .. heap[l].slotsinuse - 1 :
                 /\ heap[l].keySlots[i] \in Int
                 /\ t.lo[l] <= heap[l].keySlots[i] /\ heap[l].keySlots[i] < t.hi[l]
           /\ \A i, j \in 0 .. heap[l].slotsinuse - 1 :
                 i < j => heap[l].keySlots[i] < heap[l].keySlots[j]
           /\ heap[l].keySlots[0] \in Int
           /\ t.lo[l] <= heap[l].keySlots[0] /\ heap[l].keySlots[0] < t.hi[l]
<1>1. LeafSays(heap, t, l) /\ IsLeaf(heap, l)
  BY StillNode
<1>2. heap[l].slotsinuse \in Nat /\ heap[l].slotsinuse >= 1 /\ heap[l].slotsinuse <= LeafSlots
  <2>1. heap[l].slotsinuse \in Nat /\ heap[l].slotsinuse >= 1
    BY <1>1, LiveTypes, NodeTypes DEF Still, node, IsLeaf, LeafSays
  <2> QED
    BY <1>1, <2>1 DEF Still, Within, Room, IsLeaf, Live
<1>3. 0 \in 0 .. heap[l].slotsinuse - 1
  BY <1>2
<1> QED
  BY <1>1, <1>2, <1>3, Numbers, KeysAssumption DEF LeafSays, Still

-----------------------------------------------------------------------------
\* The leaves below a node have their spans inside its own.
LEMMA LeavesInside ==
    ASSUME NEW t, SearchTree(t), NEW m \in t.G, NEW l \in Under(t, m)
    PROVE  t.hi[l] <= t.hi[m]
<1> DEFINE S == {n \in t.G : \A x \in Under(t, n) : t.hi[x] <= t.hi[n]}
<1>1. ASSUME NEW n \in t.G, t.lev[n] = 0 PROVE n \in S
  <2>1. Under(t, n) = {n} /\ t.hi[n] \in Int
    BY <1>1, UnderNodes, Numbers
  <2> QED
    BY <2>1
<1>2. ASSUME NEW n \in t.G, t.lev[n] > 0, \A i \in 0 .. t.cnt[n] : t.ch[n][i] \in S PROVE n \in S
  <2>1. ASSUME NEW x \in Under(t, n) PROVE t.hi[x] <= t.hi[n]
    <3>1. Under(t, n) = UNION {Under(t, t.ch[n][i]) : i \in 0 .. t.cnt[n]}
      BY <1>2, UnderNodes
    <3>2. PICK i \in 0 .. t.cnt[n] : x \in Under(t, t.ch[n][i])
      BY <2>1, <3>1
    <3>3. t.hi[x] <= t.hi[t.ch[n][i]] /\ t.hi[t.ch[n][i]] <= t.hi[n] /\ t.ch[n][i] \in t.G
      BY <1>2, <3>2, ChildSpans
    <3>4. x \in t.G
      BY <2>1 DEF Under
    <3>5. t.hi[x] \in Int /\ t.hi[t.ch[n][i]] \in Int /\ t.hi[n] \in Int
      BY <3>3, <3>4, Numbers
    <3> QED
      BY <3>3, <3>5
  <2> QED
    BY <2>1
<1>3. t.G \subseteq S
  <2> HIDE DEF S
  <2> QED
    BY <1>1, <1>2, ByLevel
<1> QED
  BY <1>3

\* The keys below a node lie in its span.
LEMMA KeysInside ==
    ASSUME NEW t, Still(t), NEW m \in t.G, NEW k \in KeysBelow(m)
    PROVE  k \in Int /\ t.lo[m] <= k /\ k < t.hi[m]
<1>1. LeavesBelow[m] = Under(t, m)
  BY LeavesBelowAre DEF Still
<1>2. PICK l \in Under(t, m) : k \in KeysIn(l)
  BY <1>1 DEF KeysBelow
<1>3. l \in t.G /\ t.lev[l] = 0 /\ t.lo[m] <= t.lo[l]
  BY <1>2 DEF Under
<1>4. PICK i \in 0 .. heap[l].slotsinuse - 1 : k = heap[l].keySlots[i]
  BY <1>2 DEF KeysIn
<1>5. k \in Int /\ t.lo[l] <= k /\ k < t.hi[l] /\ t.lo[l] \in Int /\ t.hi[l] \in Int
  BY <1>3, <1>4, LeafKeys
<1>6. t.hi[l] <= t.hi[m]
  BY <1>2, LeavesInside DEF Still
<1>7. t.lo[m] \in Int /\ t.hi[m] \in Int
  BY Numbers DEF Still
<1> QED
  BY <1>3, <1>5, <1>6, <1>7

\* The separators that splits put into inner nodes lead find to every key.
LEMMA StillOrder ==
    ASSUME NEW t, Still(t)
    PROVE  SearchOrder
<1>1. TreeShape
  BY StillShape
<1>2. ASSUME NEW n \in t.G, heap[n].isleafnode,
             NEW i \in 0 .. heap[n].slotsinuse - 1, NEW j \in 0 .. heap[n].slotsinuse - 1, i < j
      PROVE  heap[n].keySlots[i] <= heap[n].keySlots[j]
  <2>1. t.lev[n] = 0
    BY <1>2, StillNode DEF IsInner
  <2>2. /\ heap[n].keySlots[i] < heap[n].keySlots[j]
        /\ heap[n].keySlots[i] \in Int /\ heap[n].keySlots[j] \in Int
    BY <1>2, <2>1, LeafKeys
  <2> QED
    BY <2>2
<1>3. ASSUME NEW n \in t.G, ~heap[n].isleafnode, NEW i \in 0 .. heap[n].slotsinuse - 1
      PROVE  /\ \A k \in KeysBelow(heap[n].firstChild[i]) : k < heap[n].keySlots[i]
             /\ \A k \in KeysBelow(heap[n].firstChild[i + 1]) : heap[n].keySlots[i] <= k
  <2>1. t.lev[n] > 0
    BY <1>3, StillNode DEF IsLeaf
  <2>2. /\ t.cnt[n] \in Nat /\ heap[n].slotsinuse = t.cnt[n] /\ InnerSays(heap, t, n)
        /\ \A x \in 0 .. t.cnt[n] : IsChild(t, n, x)
    BY <2>1, StillNode
  <2> DEFINE a == t.ch[n][i]
             b == t.ch[n][i + 1]
  <2>3. i \in 0 .. t.cnt[n] - 1 /\ i \in 0 .. t.cnt[n] /\ i + 1 \in 0 .. t.cnt[n]
        /\ i # t.cnt[n] /\ i + 1 # 0 /\ (i + 1) - 1 = i
    BY <2>2
  <2>4. /\ heap[n].keySlots[i] = t.ks[n][i]
        /\ heap[n].firstChild[i] = a /\ heap[n].firstChild[i + 1] = b
    BY <2>2, <2>3 DEF InnerSays
  <2>5. a \in t.G /\ b \in t.G /\ t.hi[a] = t.ks[n][i] /\ t.lo[b] = t.ks[n][i]
    BY <2>2, <2>3 DEF IsChild
  <2> HIDE DEF a, b
  <2>6. \A k \in KeysBelow(a) : k < t.ks[n][i]
    BY <2>5, KeysInside
  <2>7. \A k \in KeysBelow(b) : t.ks[n][i] <= k
    BY <2>5, KeysInside
  <2> QED
    BY <2>4, <2>6, <2>7
<1>4. \A n \in Tree : n \in t.G
  BY TreeNodes
<1> QED
  BY <1>1, <1>2, <1>3, <1>4 DEF SearchOrder

\* The first path from a node has as many nodes as there are levels.
LEMMA PathLength ==
    ASSUME NEW t, Still(t), NEW m \in t.G
    PROVE  Depth(m) = t.lev[m] + 1
<1> DEFINE S == {n \in t.G : /\ FirstPath[n] \subseteq {x \in t.G : t.lev[x] <= t.lev[n]}
                             /\ IsFiniteSet(FirstPath[n])
                             /\ Cardinality(FirstPath[n]) = t.lev[n] + 1}
<1>1. \A n \in Pointer : FirstPath[n] =
         {n} \cup IF IsInner(heap, n) THEN FirstPath[heap[n].firstChild[0]] ELSE {}
  BY FirstPathUnfolds DEF Still
<1>2. ASSUME NEW n \in t.G, t.lev[n] = 0 PROVE n \in S
  <2>1. FirstPath[n] = {n}
    BY <1>1, <1>2, StillNode
  <2>2. Cardinality({n}) = 1 /\ IsFiniteSet({n})
    BY FS_Singleton
  <2> QED
    BY <1>2, <2>1, <2>2
<1>3. ASSUME NEW n \in t.G, t.lev[n] > 0, \A i \in 0 .. t.cnt[n] : t.ch[n][i] \in S PROVE n \in S
  <2> DEFINE c == t.ch[n][0]
  <2>1. /\ n \in Pointer /\ IsInner(heap, n) /\ heap[n].firstChild[0] = c /\ 0 \in 0 .. t.cnt[n]
        /\ t.lev[n] \in Nat
    BY <1>3, StillNode
  <2>2. IsChild(t, n, 0) /\ c \in S
    BY <1>3, <2>1, StillNode
  <2>3. c \in t.G /\ t.lev[c] + 1 = t.lev[n] /\ t.lev[c] \in Nat
    BY <2>2, StillNode DEF IsChild
  <2>4. FirstPath[n] = FirstPath[c] \cup {n}
    BY <1>1, <2>1
  <2> HIDE DEF c
  <2>5. /\ FirstPath[c] \subseteq {x \in t.G : t.lev[x] <= t.lev[c]}
        /\ IsFiniteSet(FirstPath[c]) /\ Cardinality(FirstPath[c]) = t.lev[c] + 1
    BY <2>2
  <2>6. n \notin FirstPath[c]
    BY <2>1, <2>3, <2>5
  <2>7. IsFiniteSet(FirstPath[n]) /\ Cardinality(FirstPath[n]) = Cardinality(FirstPath[c]) + 1
    BY <2>4, <2>5, <2>6, FS_AddElement
  <2>8. Cardinality(FirstPath[n]) = t.lev[n] + 1
    BY <2>3, <2>5, <2>7
  <2>9. \A x \in t.G : t.lev[x] \in Nat
    BY StillNode
  <2>10. FirstPath[n] \subseteq {x \in t.G : t.lev[x] <= t.lev[n]}
    BY <2>3, <2>4, <2>5, <2>9
  <2> QED
    BY <2>7, <2>8, <2>10
<1>4. t.G \subseteq S
  <2> HIDE DEF S
  <2> QED
    BY <1>2, <1>3, ByLevel DEF Still
<1> QED
  BY <1>4 DEF Depth

\* Splits keep the leaves at one depth and the halves full enough.
LEMMA StillBalanced ==
    ASSUME NEW t, Still(t)
    PROVE  Balanced
<1>1. TreeShape
  BY StillShape
<1>2. ASSUME NEW n \in t.G, ~heap[n].isleafnode, NEW c \in Children(n)
      PROVE  Depth(c) = Depth(heap[n].firstChild[0])
  <2>1. t.lev[n] > 0
    BY <1>2, StillNode DEF IsLeaf
  <2>2. PICK i \in 0 .. t.cnt[n] : c = t.ch[n][i]
    BY <2>1, StillNode
  <2>3. /\ IsChild(t, n, i) /\ IsChild(t, n, 0) /\ heap[n].firstChild[0] = t.ch[n][0]
    BY <2>1, StillNode
  <2> DEFINE d == t.ch[n][0]
  <2>4. c \in t.G /\ d \in t.G /\ t.lev[c] + 1 = t.lev[n] /\ t.lev[d] + 1 = t.lev[n]
    BY <2>2, <2>3 DEF IsChild
  <2>5. heap[n].firstChild[0] = d
    BY <2>3
  <2> HIDE DEF d
  <2>6. Depth(c) = t.lev[c] + 1 /\ Depth(d) = t.lev[d] + 1
    BY <2>4, PathLength
  <2> QED
    BY <2>4, <2>5, <2>6
<1>3. ASSUME NEW n \in t.G, n # root
      PROVE  IF heap[n].isleafnode THEN heap[n].slotsinuse >= LeafSlots \div 2
                                   ELSE heap[n].numChildren >= NodeSlots \div 2 + 1
  <2>1. t.par[n] # NULL
    BY <1>3 DEF Still, Resting, Crown
  <2>2. Fit(heap, t, n) /\ t.lev[n] \in Nat
    BY RestingNode, StillNode DEF Still
  <2>3. HalfFull(heap, t, n)
    BY <2>1, <2>2 DEF Fit
  <2>4. CASE t.lev[n] = 0
    BY <2>3, <2>4, StillNode DEF HalfFull, IsLeaf
  <2>5. CASE t.lev[n] > 0
    <3>1. heap[n].numChildren = t.cnt[n] + 1 /\ t.cnt[n] \in Nat /\ ~heap[n].isleafnode
      BY <2>5, StillNode DEF IsInner
    <3>2. t.cnt[n] >= NodeSlots \div 2
      BY <2>2, <2>3, <2>5 DEF HalfFull
    <3>3. NodeSlots \div 2 \in Int
      BY SlotsAssumption
    <3> HIDE DEF Still
    <3> QED
      BY <3>1, <3>2, <3>3
  <2> QED
    BY <2>2, <2>4, <2>5
<1>4. \A n \in Tree : n \in t.G
  BY TreeNodes
<1> QED
  BY <1>1, <1>2, <1>3, <1>4 DEF Balanced

-----------------------------------------------------------------------------
\* The leaves a node's first key puts after another.
LEMMA LaterLeaf ==
    ASSUME NEW t, Still(t), NEW l \in t.G, t.lev[l] = 0, NEW m \in t.G, t.lev[m] = 0
    PROVE  heap[m].keySlots[0] > heap[l].keySlots[0] <=> t.hi[l] <= t.lo[m]
<1>1. /\ heap[l].keySlots[0] \in Int /\ t.lo[l] <= heap[l].keySlots[0]
      /\ heap[l].keySlots[0] < t.hi[l] /\ t.lo[l] \in Int /\ t.hi[l] \in Int
  BY LeafKeys
<1>2. /\ heap[m].keySlots[0] \in Int /\ t.lo[m] <= heap[m].keySlots[0]
      /\ heap[m].keySlots[0] < t.hi[m] /\ t.lo[m] \in Int /\ t.hi[m] \in Int
  BY LeafKeys
<1>3. CASE l = m
  BY <1>1, <1>3
<1>4. CASE l # m
  <2>1. t.hi[l] <= t.lo[m] \/ t.hi[m] <= t.lo[l]
    BY <1>4 DEF Still, SearchTree, Apart
  <2> HIDE DEF Still
  <2> QED
    BY <1>1, <1>2, <2>1
<1> QED
  BY <1>3, <1>4

\* The leaf a pointer of the chain leads to.
LEMMA ChainLinks ==
    ASSUME NEW t, Still(t), NEW l \in t.G, t.lev[l] = 0
    PROVE  /\ \/ t.hi[l] = t.top /\ heap[l].nextLeaf = NULL
              \/ heap[l].nextLeaf # NULL /\ Follows(t, l, heap[l].nextLeaf)
           /\ \/ t.lo[l] = t.bot /\ heap[l].prevLeaf = NULL
              \/ heap[l].prevLeaf # NULL /\ Follows(t, heap[l].prevLeaf, l)
<1>1. After(heap, t, NULL, l) /\ Before(heap, t, NULL, l) /\ l # NULL
  BY RestingNode, StillNode DEF Still
<1>2. \A b : Follows(t, l, b) => b # NULL
  BY StillNode DEF Follows
<1>3. \A a : Follows(t, a, l) => a # NULL
  BY StillNode DEF Follows
<1> QED
  BY <1>1, <1>2, <1>3 DEF After, Before

\* Splits keep the chain of leaves complete.
LEMMA StillChain ==
    ASSUME NEW t, Still(t)
    PROVE  LeafChain
<1>1. TreeShape /\ TreeLeaves = LeavesOf(t)
  BY StillShape, TreeAtRest DEF Still
<1>2. ASSUME NEW l \in TreeLeaves
      PROVE  LET after == {m \in TreeLeaves : heap[m].keySlots[0] > heap[l].keySlots[0]}
             IN  IF after = {} THEN heap[l].nextLeaf = NULL
                 ELSE /\ heap[l].nextLeaf \in after
                      /\ \A m \in after :
                            heap[heap[l].nextLeaf].keySlots[0] <= heap[m].keySlots[0]
  <2> DEFINE after == {m \in TreeLeaves : heap[m].keySlots[0] > heap[l].keySlots[0]}
             b == heap[l].nextLeaf
  <2>1. l \in t.G /\ t.lev[l] = 0
    BY <1>1, <1>2 DEF LeavesOf
  <2>2. \A m : m \in after <=> m \in t.G /\ t.lev[m] = 0 /\ t.hi[l] <= t.lo[m]
    BY <1>1, <2>1, LaterLeaf DEF LeavesOf
  <2> HIDE DEF after
  <2>3. CASE t.hi[l] = t.top /\ b = NULL
    <3>1. ASSUME NEW m \in after PROVE FALSE
      <4>1. m \in t.G /\ t.lev[m] = 0 /\ t.top <= t.lo[m]
        BY <2>2, <2>3, <3>1
      <4> QED
        BY <4>1, LeafKeys
    <3> QED
      BY <2>3, <3>1 DEF after
  <2>4. CASE b # NULL /\ Follows(t, l, b)
    <3> HIDE DEF b
    <3>1. b \in t.G /\ t.lev[b] = 0 /\ t.lo[b] = t.hi[l] /\ t.lo[b] \in Int /\ t.hi[l] \in Int
      BY <2>1, <2>4, LeafKeys DEF Follows
    <3>2. b \in after
      BY <2>2, <3>1
    <3>3. ASSUME NEW m \in after PROVE heap[b].keySlots[0] <= heap[m].keySlots[0]
      <4>1. m \in t.G /\ t.lev[m] = 0 /\ t.hi[l] <= t.lo[m]
        BY <2>2, <3>3
      <4>2. /\ t.lo[m] \in Int /\ t.hi[m] \in Int /\ t.lo[m] < t.hi[m]
            /\ heap[m].keySlots[0] \in Int /\ t.lo[m] <= heap[m].keySlots[0]
            /\ heap[m].keySlots[0] < t.hi[m]
        BY <4>1, LeafKeys
      <4>3. heap[b].keySlots[0] \in Int /\ t.lo[b] <= heap[b].keySlots[0]
            /\ heap[b].keySlots[0] < t.hi[b] /\ t.hi[b] \in Int
        BY <3>1, LeafKeys
      <4>4. CASE m = b
        BY <4>3, <4>4
      <4>5. CASE m # b
        <5>1. ~(heap[b].keySlots[0] > heap[m].keySlots[0])
          <6>1. heap[b].keySlots[0] > heap[m].keySlots[0] <=> t.hi[m] <= t.lo[b]
            BY <3>1, <4>1, LaterLeaf
          <6> HIDE DEF Still
          <6> QED
            BY <3>1, <4>1, <4>2, <6>1
        <5> QED
          BY <4>2, <4>3, <5>1
      <4> QED
        BY <4>4, <4>5
    <3> QED
      BY <3>2, <3>3 DEF b, after
  <2> QED
    BY <2>1, <2>3, <2>4, ChainLinks
<1> QED
  BY <1>1, <1>2 DEF LeafChain

\* Splits keep prevLeaf the inverse of nextLeaf.
LEMMA StillBackwards ==
    ASSUME NEW t, Still(t)
    PROVE  ChainBackwards
<1>1. TreeShape /\ TreeLeaves = LeavesOf(t) /\ SearchTree(t)
  BY StillShape, TreeAtRest DEF Still
<1>2. ASSUME NEW l \in TreeLeaves, NEW m \in TreeLeaves
      PROVE  heap[l].nextLeaf = m <=> heap[m].prevLeaf = l
  <2>1. l \in t.G /\ t.lev[l] = 0 /\ m \in t.G /\ t.lev[m] = 0 /\ l # NULL /\ m # NULL
    BY <1>1, <1>2, StillNode DEF LeavesOf
  <2>2. ASSUME heap[l].nextLeaf = m PROVE heap[m].prevLeaf = l
    <3>1. Follows(t, l, m)
      BY <2>1, <2>2, ChainLinks
    <3>2. t.lo[m] # t.bot
      <4>1. t.lo[m] = t.hi[l]
        BY <3>1 DEF Follows
      <4> QED
        BY <2>1, <4>1, LeafKeys
    <3>3. Follows(t, heap[m].prevLeaf, m)
      BY <2>1, <3>2, ChainLinks
    <3>4. /\ heap[m].prevLeaf \in t.G /\ t.lev[heap[m].prevLeaf] = 0
          /\ t.hi[heap[m].prevLeaf] = t.hi[l]
      BY <3>1, <3>3 DEF Follows
    <3> QED
      BY <1>1, <2>1, <3>4, Unique
  <2>3. ASSUME heap[m].prevLeaf = l PROVE heap[l].nextLeaf = m
    <3>1. Follows(t, l, m)
      BY <2>1, <2>3, ChainLinks
    <3>2. t.hi[l] # t.top
      <4>1. t.lo[m] = t.hi[l]
        BY <3>1 DEF Follows
      <4> QED
        BY <2>1, <4>1, LeafKeys
    <3>3. Follows(t, l, heap[l].nextLeaf)
      BY <2>1, <3>2, ChainLinks
    <3>4. /\ heap[l].nextLeaf \in t.G /\ t.lev[heap[l].nextLeaf] = 0
          /\ t.lo[heap[l].nextLeaf] = t.lo[m]
      BY <3>1, <3>3 DEF Follows
    <3> QED
      BY <1>1, <2>1, <3>4, Unique
  <2> QED
    BY <2>2, <2>3
<1> QED
  BY <1>1, <1>2 DEF ChainBackwards

\* No key is in the leaves twice.
LEMMA StillUnique ==
    ASSUME NEW t, Still(t)
    PROVE  PairsUnique
<1>1. Entries = Pairs(heap, t)
  BY TreeAtRest DEF Still
<1>2. IsFiniteSet(Entries)
  <2>1. IsFiniteSet(LeafIndex)
    <3>1. LeafSlots - 1 \in Int /\ 0 \in Int
      BY SlotsAssumption
    <3> QED
      BY <3>1, FS_Interval, Zenon DEF LeafIndex
  <2>2. IsFiniteSet(t.G \X LeafIndex)
    BY <2>1, FS_Product DEF Still
  <2>3. Entries \in SUBSET (t.G \X LeafIndex)
    BY <1>1 DEF Pairs
  <2> QED
    BY <2>2, <2>3, FS_Subset
<1> DEFINE pair(e) == <<heap[e[1]].keySlots[e[2]], heap[e[1]].dataSlots[e[2]]>>
           f == [e \in Entries |-> pair(e)]
<1>3. ASSUME NEW e1 \in Entries, NEW e2 \in Entries, pair(e1) = pair(e2) PROVE e1 = e2
  <2>1. /\ e1 = <<e1[1], e1[2]>> /\ e1[1] \in t.G /\ t.lev[e1[1]] = 0
        /\ e1[2] \in LeafIndex /\ e1[2] < heap[e1[1]].slotsinuse
    BY <1>1 DEF Pairs
  <2>2. /\ e2 = <<e2[1], e2[2]>> /\ e2[1] \in t.G /\ t.lev[e2[1]] = 0
        /\ e2[2] \in LeafIndex /\ e2[2] < heap[e2[1]].slotsinuse
    BY <1>1 DEF Pairs
  <2>3. heap[e1[1]].keySlots[e1[2]] = heap[e2[1]].keySlots[e2[2]]
    BY <1>3
  <2> DEFINE l == e1[1]
             i == e1[2]
             m == e2[1]
             j == e2[2]
  <2> HIDE DEF l, i, m, j
  <2>4. /\ l \in t.G /\ t.lev[l] = 0 /\ i \in LeafIndex /\ i < heap[l].slotsinuse
        /\ m \in t.G /\ t.lev[m] = 0 /\ j \in LeafIndex /\ j < heap[m].slotsinuse
        /\ heap[l].keySlots[i] = heap[m].keySlots[j]
    BY <2>1, <2>2, <2>3 DEF l, i, m, j
  <2>5. heap[l].slotsinuse \in Nat /\ heap[m].slotsinuse \in Nat
    BY <2>4, LeafKeys
  <2>6. i \in 0 .. heap[l].slotsinuse - 1 /\ j \in 0 .. heap[m].slotsinuse - 1
        /\ i \in Int /\ j \in Int
    <3> HIDE DEF Still
    <3> QED
      BY <2>4, <2>5, SlotsAssumption DEF LeafIndex
  <2>7. /\ heap[l].keySlots[i] \in Int
        /\ t.lo[l] <= heap[l].keySlots[i] /\ heap[l].keySlots[i] < t.hi[l]
        /\ t.lo[l] \in Int /\ t.hi[l] \in Int
    BY <2>4, <2>6, LeafKeys
  <2>8. /\ t.lo[m] <= heap[m].keySlots[j] /\ heap[m].keySlots[j] < t.hi[m]
        /\ t.lo[m] \in Int /\ t.hi[m] \in Int
    BY <2>4, <2>6, LeafKeys
  <2>9. l = m
    <3>1. l # m => t.hi[l] <= t.lo[m] \/ t.hi[m] <= t.lo[l]
      BY <2>4 DEF Still, SearchTree, Apart
    <3> HIDE DEF Still
    <3> QED
      BY <2>4, <2>7, <2>8, <3>1
  <2>10. i = j
    <3>1. /\ i < j => heap[l].keySlots[i] < heap[l].keySlots[j]
          /\ j < i => heap[l].keySlots[j] < heap[l].keySlots[i]
      BY <2>4, <2>6, <2>9, LeafKeys
    <3>2. heap[l].keySlots[i] = heap[l].keySlots[j]
      BY <2>4, <2>9
    <3> HIDE DEF Still
    <3> QED
      BY <2>6, <2>7, <3>1, <3>2
  <2> QED
    BY <2>1, <2>2, <2>9, <2>10 DEF l, i, m, j
<1>4. Contents = {pair(e) : e \in Entries}
  BY DEF Contents
<1> HIDE DEF pair
<1>5. f \in Surjection(Entries, Contents)
  BY <1>4 DEF Surjection
<1>6. f \in Injection(Entries, Contents)
  <2>1. f \in [Entries -> Contents]
    BY <1>4
  <2>2. \A a, b \in Entries : f[a] = f[b] => a = b
    BY <1>3
  <2> HIDE DEF f
  <2> QED
    BY <2>1, <2>2 DEF Injection, IsInjective
<1>7. Cardinality(Contents) = Cardinality(Entries)
  <2> HIDE DEF f
  <2> QED
    BY <1>2, <1>5, <1>6, FS_Surjection
<1> QED
  BY <1>7 DEF PairsUnique

\* What the inductive invariant says between two calls.
LEMMA AppendedTree ==
    ASSUME AppendInv
    PROVE  /\ NeverUndefined /\ TreeShape /\ SearchOrder /\ Balanced /\ LeafChain
           /\ ChainBackwards /\ KeyCount /\ PairsUnique
<1>1. NeverUndefined
  BY DEF AppendInv, Grown, NeverUndefined
<1>2. CASE ~Idle
  BY <1>1, <1>2 DEF TreeShape, SearchOrder, Balanced, LeafChain, ChainBackwards, KeyCount, PairsUnique
<1>3. CASE Idle
  <2>1. PICK t : Still(t)
    BY <1>3, AtRest
  <2>2. KeyCount
    BY <2>1, StillShape, TreeAtRest DEF KeyCount, Still
  <2> QED
    BY <1>1, <2>1, <2>2, StillShape, StillOrder, StillBalanced, StillChain, StillBackwards,
       StillUnique
<1> QED
  BY <1>2, <1>3

-----------------------------------------------------------------------------
\* No call of such a workload uses freed or null memory, writes outside an array or
\* branches on an indeterminate key: in particular insert_in_parent finds the parent of
\* what it split allocated and full of initialised keys, and the loop that looks for
\* duplicates stops inside the leaf.
THEOREM AppendingIsDefined ==
    ASSUME Inserts \subseteq {"append", "fill"}, Erases = {}, DeletePairs = {}, NodeSlots >= 3
    PROVE  Spec => []NeverUndefined
<1>1. Spec => []AppendInv
  BY AppendInvHolds
<1>2. AppendInv => NeverUndefined
  BY AppendedTree
<1> QED
  BY <1>1, <1>2, PTL

\* Between two calls the nodes form a tree, although insert_in_parent rebuilds every inner
\* node on a path: children and parent pointers agree, counts fit, no child is lost,
\* shared or freed, and only the root is flagged isrootnode.
THEOREM AppendingKeepsShape ==
    ASSUME Inserts \subseteq {"append", "fill"}, Erases = {}, DeletePairs = {}, NodeSlots >= 3
    PROVE  Spec => []TreeShape
<1>1. Spec => []AppendInv
  BY AppendInvHolds
<1>2. AppendInv => TreeShape
  BY AppendedTree
<1> QED
  BY <1>1, <1>2, PTL

\* Between two calls the separators of every inner node divide the keys below it, so that
\* find comes to the leaf of each key, however many levels the splits have made.
THEOREM AppendingKeepsOrder ==
    ASSUME Inserts \subseteq {"append", "fill"}, Erases = {}, DeletePairs = {}, NodeSlots >= 3
    PROVE  Spec => []SearchOrder
<1>1. Spec => []AppendInv
  BY AppendInvHolds
<1>2. AppendInv => SearchOrder
  BY AppendedTree
<1> QED
  BY <1>1, <1>2, PTL

\* Between two calls all leaves are at one depth and every node but the root is at least
\* half full: both halves of every split are (bt_leafnodemin, bt_innernodemin).
THEOREM AppendingKeepsBalance ==
    ASSUME Inserts \subseteq {"append", "fill"}, Erases = {}, DeletePairs = {}, NodeSlots >= 3
    PROVE  Spec => []Balanced
<1>1. Spec => []AppendInv
  BY AppendInvHolds
<1>2. AppendInv => Balanced
  BY AppendedTree
<1> QED
  BY <1>1, <1>2, PTL

\* Between two calls nextLeaf leads through all leaves in ascending order, also across the
\* cut where insert_in_parent links the leaves of two new parents by hand.
THEOREM AppendingKeepsChain ==
    ASSUME Inserts \subseteq {"append", "fill"}, Erases = {}, DeletePairs = {}, NodeSlots >= 3
    PROVE  Spec => []LeafChain
<1>1. Spec => []AppendInv
  BY AppendInvHolds
<1>2. AppendInv => LeafChain
  BY AppendedTree
<1> QED
  BY <1>1, <1>2, PTL

\* Between two calls prevLeaf is the inverse of nextLeaf, although a split sets the links of
\* one pair of leaves in three places.
THEOREM AppendingKeepsBackLinks ==
    ASSUME Inserts \subseteq {"append", "fill"}, Erases = {}, DeletePairs = {}, NodeSlots >= 3
    PROVE  Spec => []ChainBackwards
<1>1. Spec => []AppendInv
  BY AppendInvHolds
<1>2. AppendInv => ChainBackwards
  BY AppendedTree
<1> QED
  BY <1>1, <1>2, PTL

\* Between two calls totalkeycount is the number of entries in the leaves: insert counts in
\* three places and the splits lose or copy no pair.
THEOREM AppendingCountsKeys ==
    ASSUME Inserts \subseteq {"append", "fill"}, Erases = {}, DeletePairs = {}, NodeSlots >= 3
    PROVE  Spec => []KeyCount
<1>1. Spec => []AppendInv
  BY AppendInvHolds
<1>2. AppendInv => KeyCount
  BY AppendedTree
<1> QED
  BY <1>1, <1>2, PTL

\* Between two calls no pair is in the tree twice, although every split copies all the pairs
\* of the nodes it replaces.
THEOREM AppendingKeepsPairsUnique ==
    ASSUME Inserts \subseteq {"append", "fill"}, Erases = {}, DeletePairs = {}, NodeSlots >= 3
    PROVE  Spec => []PairsUnique
<1>1. Spec => []AppendInv
  BY AppendInvHolds
<1>2. AppendInv => PairsUnique
  BY AppendedTree
<1> QED
  BY <1>1, <1>2, PTL
=============================================================================
