------------------------------- MODULE BTree -------------------------------
(***************************************************************************)
(* The class nwt::btree of src/src/btree.h: insert, erase, delete_pair and  *)
(* get, with the splits, merges and redistributions below them.  One call   *)
(* runs at a time, as in src/src/test.cc, in steps: a level of find, an     *)
(* insertion into one node, an iteration of a loop, a call of a recursive   *)
(* function.  pc says where the call is, local holds its local variables.   *)
(*                                                                         *)
(* Undefined behaviour (a use of freed or null memory, a write outside an   *)
(* array, a branch on an indeterminate key, a failed assert) ends in        *)
(* pc = "undefined", from which nothing follows.                            *)
(***************************************************************************)
EXTENDS BTreeNodes

CONSTANTS
    Inserts,     \* which insertions the caller makes: "append", "fill", "retry", "repeat",
                 \* "any"
    Erases,      \* which keys the caller erases: "last", "first", "held", "sought",
                 \* "absent", "any"
    DeletePairs, \* which keys the caller passes to delete_pair, in the same words
    PayloadsOf,  \* the data values the caller stores under a key
    Lookups,     \* the keys the caller looks up, and "sought" may erase
    Indeterminate, \* the outcomes of comparing an uninitialised key slot with a key
    Reserve      \* node identifiers kept unused for one insertion (a bound)

ASSUME WorkloadAssumption ==
    /\ Inserts \subseteq {"append", "fill", "retry", "repeat", "any"}
    /\ Erases \subseteq {"last", "first", "held", "sought", "absent", "any"}
    /\ DeletePairs \subseteq {"last", "first", "held", "sought", "absent", "any"}
    /\ PayloadsOf \in [Keys -> SUBSET Payloads]
    /\ Lookups \subseteq Keys
    /\ Indeterminate \subseteq BOOLEAN
    /\ Reserve \in Nat \ {0}

VARIABLES heap, root, headleaf, totalkeycount, pc, call, local, result

vars == <<heap, root, headleaf, totalkeycount, pc, call, local, result>>

NoCall == [op |-> "none", key |-> Junk, data |-> EmptyData]
NoResult == [code |-> "none", data |-> EmptyData]

Init ==
    /\ heap = Fault
    /\ root = NULL
    /\ headleaf = NULL
    /\ totalkeycount = 0
    /\ pc = "idle"
    /\ call = NoCall
    /\ local = [at |-> NULL]
    /\ result = NoResult

-----------------------------------------------------------------------------
\* Control: go on to step p with heap h, unless computing h was undefined.
Go(h, p, l) ==
    IF h = Fault
    THEN pc' = "undefined" /\ UNCHANGED <<heap, local>>
    ELSE heap' = h /\ pc' = p /\ local' = l

\* The call returns.
Return(h, code, data) ==
    /\ Go(h, "idle", [at |-> NULL])
    /\ result' = IF h = Fault THEN result ELSE [code |-> code, data |-> data]

\* Identifiers for new nodes: without a node and with no pointer left to them.
UnusedIds ==
    {n \in NodeIds : heap[n] = Free} \ (PointedTo(heap, NodeIds) \cup {root, headleaf})
FirstId  == Least(UnusedIds)
SecondId == Least(UnusedIds \ {FirstId})
CanAllocate == UnusedIds # {} /\ UnusedIds \ {FirstId} # {}

\* The leaves and entries below a node, as far as they are still there.
LeavesBelow ==
    LET below[n \in Pointer] ==
          IF ~Live(heap, n) THEN {}
          ELSE IF heap[n].isleafnode THEN {n}
          ELSE UNION {below[heap[n].firstChild[i]] : i \in 0 .. heap[n].numChildren - 1}
    IN  below
TreeLeaves == IF root = NULL THEN {} ELSE LeavesBelow[root]
Entries    == {e \in TreeLeaves \X LeafIndex : e[2] < heap[e[1]].slotsinuse}
HeldKeys   == {heap[e[1]].keySlots[e[2]] : e \in Entries} \ {Junk}
Contents   == {<<heap[e[1]].keySlots[e[2]], heap[e[1]].dataSlots[e[2]]>> : e \in Entries}

-----------------------------------------------------------------------------
\* The caller.
Stored   == {k \in Keys : PayloadsOf[k] # {}}
Appended == LET held == HeldKeys                                 \* i++ in test.cc
            IN  Least({k \in Stored : \A h \in held : k > h})

\* Keys are appended, at any time or until the first other call: the tree is filled,
\* then drained.  A pair in the tree is inserted again: the last one inserted, if its
\* leaf has room, or any.
MayInsert(k, d) ==
    /\ d \in PayloadsOf[k]
    /\ \/ /\ \/ "append" \in Inserts
             \/ "fill" \in Inserts /\ call.op \in {"none", "insert"}
          /\ (\A h \in HeldKeys : k > h) /\ Appended = k
       \/ "retry" \in Inserts /\ call.op = "insert" /\ call.key = k
          /\ \E e \in Entries : /\ heap[e[1]].keySlots[e[2]] = k
                                /\ heap[e[1]].dataSlots[e[2]] = d
                                /\ ~isfull(heap[e[1]])
       \/ "repeat" \in Inserts /\ <<k, d>> \in Contents
       \/ "any" \in Inserts

\* The least, the greatest, any key or one of a few in the tree; a key that never was there.
MayErase(k, kinds) ==
    \/ "last"  \in kinds /\ LET held == HeldKeys IN k \in held /\ \A h \in held : k >= h
    \/ "first" \in kinds /\ LET held == HeldKeys IN k \in held /\ \A h \in held : k <= h
    \/ "held"  \in kinds /\ k \in HeldKeys
    \/ "sought" \in kinds /\ k \in Lookups \cap HeldKeys
    \/ "absent" \in kinds /\ k \in Lookups \ Stored
    \/ "any"   \in kinds

\* A call on a tree that has a root starts with find(k).
Start(op, k, d) ==
    /\ call' = [op |-> op, key |-> k, data |-> d]
    /\ pc' = "find"
    /\ local' = [at |-> root]
    /\ result' = NoResult
    /\ UNCHANGED <<heap, root, headleaf, totalkeycount>>

MakeRoot(k, d) ==
    /\ pc = "idle" /\ root = NULL
    /\ MayInsert(k, d) /\ Cardinality(UnusedIds) >= Reserve
    /\ call' = [op |-> "insert", key |-> k, data |-> d]
    /\ root' = FirstId
    /\ headleaf' = FirstId
    /\ totalkeycount' = totalkeycount + 1
    /\ Return(insertleafAt(new(heap, FirstId, [NewLeaf EXCEPT !.isrootnode = TRUE]),
                           FirstId, k, d, 0), "ok", EmptyData)

CallInsert(k, d) ==
    /\ pc = "idle" /\ root # NULL
    /\ MayInsert(k, d) /\ Cardinality(UnusedIds) >= Reserve
    /\ Start("insert", k, d)

CallErase(k) ==
    /\ pc = "idle" /\ root # NULL /\ MayErase(k, Erases)
    /\ Start("erase", k, EmptyData)

CallDeletePair(k, d) ==
    /\ pc = "idle" /\ root # NULL /\ MayErase(k, DeletePairs)
    /\ d \in IF k \in Stored THEN PayloadsOf[k] ELSE Payloads
    /\ Start("delete_pair", k, d)

CallGet(k) ==
    /\ pc = "idle" /\ root # NULL /\ k \in Lookups
    /\ Start("get", k, EmptyData)

\* find returns NULL on an empty tree, so that get and erase report no key.
CallOnEmptyTree(op, k) ==
    /\ pc = "idle" /\ root = NULL
    /\ \/ op = "get" /\ k \in Lookups
       \/ op = "erase" /\ "any" \in Erases
       \/ op = "delete_pair" /\ "any" \in DeletePairs
    /\ call' = [op |-> op, key |-> k, data |-> EmptyData]
    /\ result' = [code |-> "absent", data |-> EmptyData]
    /\ UNCHANGED <<heap, root, headleaf, totalkeycount, pc, local>>

-----------------------------------------------------------------------------
\* find
FindChild ==
    /\ pc = "find" /\ IsInner(heap, local.at) /\ Readable(heap, local.at)
    /\ LET n     == heap[local.at]
           above == SlotsAbove(n, call.key)
           to    == IF above = {} THEN getChild(n, n.slotsinuse)
                    ELSE IF n.numChildren <= n.slotsinuse THEN local.at  \* loops for ever
                    ELSE IF getChild(n, Least(above)) # NULL THEN getChild(n, Least(above))
                    ELSE getChild(n, n.numChildren - 1)
       IN  local' = [at |-> to]
    /\ UNCHANGED <<heap, root, headleaf, totalkeycount, pc, call, result>>

\* Fault model: find does not notice the end of the chain.
StopsAtKeyOnly(r, k) == (\E i \in 0 .. r.slotsinuse - 1 : r.keySlots[i] >= k) \/ ~isfull(r)

StopsAt(r, k) ==
    (\E i \in 0 .. r.slotsinuse - 1 : r.keySlots[i] >= k) \/ ~isfull(r) \/ r.nextLeaf = NULL

FindNextLeaf ==
    /\ pc = "find" /\ IsLeaf(heap, local.at) /\ Readable(heap, local.at)
    /\ ~StopsAt(heap[local.at], call.key)
    /\ local' = [at |-> heap[local.at].nextLeaf]
    /\ UNCHANGED <<heap, root, headleaf, totalkeycount, pc, call, result>>

FindLeaf ==
    /\ pc = "find" /\ IsLeaf(heap, local.at) /\ Readable(heap, local.at)
    /\ StopsAt(heap[local.at], call.key)
    /\ pc' = call.op
    /\ UNCHANGED <<heap, root, headleaf, totalkeycount, call, local, result>>

Get ==
    /\ pc = "get"
    /\ LET r  == heap[local.at]
           at == findKeyEqual(r, call.key)
       IN  IF at < r.slotsinuse THEN Return(heap, "ok", r.dataSlots[at])
                                ELSE Return(heap, "absent", EmptyData)
    /\ UNCHANGED <<root, headleaf, totalkeycount, call>>

-----------------------------------------------------------------------------
\* insert
InsertPair(junk) ==
    /\ pc = "insert"
    /\ PairResult(heap, local.at, call.key, call.data, junk) = "inserted"
    /\ totalkeycount' = totalkeycount + 1
    /\ Return(insertleafpair(heap, local.at, call.key, call.data, junk), "ok", EmptyData)
    /\ UNCHANGED <<root, headleaf, call>>

InsertDuplicate(junk) ==
    /\ pc = "insert"
    /\ PairResult(heap, local.at, call.key, call.data, junk) = "duplicate"
    /\ Return(heap, "duplicate", EmptyData)
    /\ UNCHANGED <<root, headleaf, totalkeycount, call>>

\* A full leaf is split.  (insert tests the leaf against bt_innernodemax: see
\* SlotsAssumption.)
SplitFullLeaf ==
    /\ pc = "insert" /\ isfull(heap[local.at])
    /\ CanAllocate
    /\ LET n     == local.at
           ln    == FirstId
           lp    == SecondId
           split == SplitLeaf(heap[n], call.key, call.data)
       IN  Go(new(new(heap, ln, [split.ln EXCEPT !.nextLeaf = lp]),
                  lp, [split.lp EXCEPT !.prevLeaf = ln]),
              "insert_in_parent",
              [parent |-> heap[n].parent, N |-> ln, k |-> split.lp.keySlots[0], Nprime |-> lp,
               n |-> n, leaked |-> {}])
    /\ totalkeycount' = totalkeycount + 1
    /\ UNCHANGED <<root, headleaf, call, result>>

\* The end of insert after a split: the old leaf is freed.  A split inner node is
\* never freed; its identifier is reused once no other node points to it.
InsertEnds(h) ==
    LET h1     == freeNode(h, local.n)
        unseen == local.leaked \ PointedTo(h1, NodeIds \ local.leaked)
    IN  Return([n \in NodeIds |-> IF n \in unseen THEN Free ELSE h1[n]], "ok", EmptyData)

\* Fault model: the new root is not flagged.
NewRootUnflagged ==
    /\ pc = "insert_in_parent" /\ local.parent = NULL
    /\ CanAllocate
    /\ LET tnode == FirstId
           h1    == insertInnerNodeKeyAt(new(heap, tnode, NewInner), tnode, local.k, 0)
           h2    == insertInnerNodeChildAt(h1, tnode, local.N, 0)
       IN  /\ InsertEnds(insertInnerNodeChildAt(h2, tnode, local.Nprime, 1))
           /\ root' = tnode
    /\ UNCHANGED <<headleaf, totalkeycount, call>>

\* insert_in_parent without a parent.
NewRoot ==
    /\ pc = "insert_in_parent" /\ local.parent = NULL
    /\ CanAllocate
    /\ LET tnode == FirstId
           h1    == new(heap, tnode, [NewInner EXCEPT !.isrootnode = TRUE])
           h2    == insertInnerNodeKeyAt(h1, tnode, local.k, 0)
           h3    == insertInnerNodeChildAt(h2, tnode, local.N, 0)
       IN  /\ InsertEnds(insertInnerNodeChildAt(h3, tnode, local.Nprime, 1))
           /\ root' = tnode
    /\ UNCHANGED <<headleaf, totalkeycount, call>>

\* insert_in_parent when the parent has room: its last child counts as gone, N and
\* then, except at the first slot, Nprime are inserted.
InsertInParent ==
    /\ pc = "insert_in_parent" /\ IsInner(heap, local.parent)
    /\ Readable(heap, local.parent) /\ local.k # Junk
    /\ heap[local.parent].numChildren < NodeSlots + 1
    /\ heap[local.parent].slotsinuse < NodeSlots
    /\ LET p   == local.parent
           loc == PairLocation(heap[p], local.k)
           h1  == insertinnernodepair(AddToChildren(heap, p, -1), p, local.k, local.N)
       IN  InsertEnds(IF loc >= 1 THEN insertInnerNodeChildAt(h1, p, local.Nprime, loc + 1)
                                  ELSE h1)
    /\ UNCHANGED <<root, headleaf, totalkeycount, call>>

\* insert_in_parent when the parent is full: two new inner nodes are filled by the loop.
SplitParent ==
    /\ pc = "insert_in_parent" /\ IsInner(heap, local.parent)
    /\ Readable(heap, local.parent) /\ local.k # Junk
    /\ heap[local.parent].numChildren >= NodeSlots + 1
    /\ CanAllocate
    /\ Go(new(new(heap, FirstId, NewInner), SecondId, NewInner), "split_parent",
          [parent |-> local.parent, N |-> local.N, k |-> local.k, Nprime |-> local.Nprime,
           n |-> local.n, leaked |-> local.leaked, pNode |-> FirstId, ppNode |-> SecondId,
           i |-> 0, slot |-> 0, j |-> 0, added |-> FALSE, kp |-> Junk])
    /\ UNCHANGED <<root, headleaf, totalkeycount, call, result>>

\* An iteration of that loop.
PlaceNewPair(h, dest, k, N, Nprime, at) ==
    insertInnerNodeChildAt(
        insertInnerNodeChildAt(insertInnerNodeKeyAt(h, dest, k, at), dest, N, at),
        dest, Nprime, at + 1)

PlaceOldPair(h, dest, p, i, at) ==
    insertInnerNodeChildAt(insertInnerNodeKeyAt(h, dest, KeyAt(p, i), at),
                           dest, p.firstChild[i], at)

\* Fault model: the key that goes up stays in pNode too.
CutNothing(h, pNode, p, i) ==
    IF ~IsInner(h, pNode) \/ ~Live(h, p.firstChild[i]) THEN Fault
    ELSE IF h[p.firstChild[i]].isleafnode
         THEN LinkLeaves(h, p.firstChild[i - 1], p.firstChild[i]) ELSE h

\* The split point is reached: the last key of pNode goes up, the leaves are joined.
CutFirstHalf(h, pNode, p, i) ==
    IF ~IsInner(h, pNode) \/ ~Live(h, p.firstChild[i]) THEN Fault
    ELSE LET h1 == [h EXCEPT ![pNode].slotsinuse = Dec(@)]
         IN  IF h[p.firstChild[i]].isleafnode
             THEN LinkLeaves(h1, p.firstChild[i - 1], p.firstChild[i]) ELSE h1

SplitParentLoop ==
    /\ pc = "split_parent" /\ local.i < heap[local.parent].slotsinuse
    /\ LET p    == heap[local.parent]
           half == p.slotsinuse \div 2
           here == p.keySlots[local.i] > local.k /\ local.slot = local.i
           low  == local.i < half + 1
           h1   == IF here THEN PlaceNewPair(heap, local.pNode, local.k, local.N, local.Nprime,
                                             IF low THEN local.slot ELSE local.j)
                           ELSE heap
           j1   == IF here /\ ~low THEN local.j + 1 ELSE local.j
           i    == IF here /\ local.i > 0 THEN local.i - 1 ELSE local.i
           h2   == IF i < half + 1 /\ local.slot = i
                   THEN PlaceOldPair(h1, local.pNode, p, i, local.slot) ELSE h1
           h3   == IF i > half THEN PlaceOldPair(h2, local.ppNode, p, i, j1) ELSE h2
           h4   == IF i = half + 1 THEN CutFirstHalf(h3, local.pNode, p, i) ELSE h3
       IN  Go(h4, "split_parent",
              [local EXCEPT
                 !.i = i + 1, !.slot = @ + 1, !.j = IF i > half THEN j1 + 1 ELSE j1,
                 !.added = @ \/ here,
                 !.kp = IF i = half + 1 THEN KeyAt(h3[local.pNode], i - 1) ELSE @])
    /\ UNCHANGED <<root, headleaf, totalkeycount, call, result>>

\* The end of that loop: the last child, and N and Nprime if k is above every key;
\* then the separator goes into the parent's parent.
SplitParentEnd ==
    /\ pc = "split_parent" /\ local.i >= heap[local.parent].slotsinuse
    /\ LET p    == heap[local.parent]
           pp   == local.ppNode
           last == p.firstChild[local.i]
           h1   == IF last = NULL THEN heap ELSE insertInnerNodeChildAt(heap, pp, last, local.j)
           h2   == IF local.added THEN h1
                   ELSE PlaceNewPair(AddToChildren(h1, pp, -1), pp, local.k, local.N,
                                     local.Nprime, local.j)
       IN  Go(h2, "insert_in_parent",
              [parent |-> p.parent, N |-> local.pNode, k |-> local.kp, Nprime |-> pp,
               n |-> local.n, leaked |-> local.leaked \cup {local.parent}])
    /\ UNCHANGED <<root, headleaf, totalkeycount, call, result>>

-----------------------------------------------------------------------------
\* erase and delete_pair
Found(junk) ==
    keyequal(KeyAt(heap[local.at], findKeyEqual(heap[local.at], call.key)), call.key, junk)

\* The keys move down, the data do not; the slot read may be one past those in use.
Erase(junk) ==
    /\ pc = "erase" /\ Found(junk)
    /\ LET l  == local.at
           at == findKeyEqual(heap[l], call.key)
           h1 == [heap EXCEPT ![l].keySlots = ShiftOut(@, heap[l].slotsinuse, at),
                              ![l].slotsinuse = Dec(@)]
       IN  IF heap[l].isrootnode THEN Return(h1, "ok", EmptyData)
           ELSE Go(h1, "balance", local) /\ UNCHANGED result
    /\ totalkeycount' = totalkeycount - 1
    /\ UNCHANGED <<root, headleaf, call>>

EraseAbsent(junk) ==
    /\ pc = "erase" /\ ~Found(junk)
    /\ Return(heap, "absent", EmptyData)
    /\ UNCHANGED <<root, headleaf, totalkeycount, call>>

DeletePair ==
    /\ pc = "delete_pair" /\ Deletes(heap, local.at, call.key)
    /\ Go(deleteleafpair(heap, local.at, call.key), "balance", local)
    /\ totalkeycount' = totalkeycount - 1
    /\ UNCHANGED <<root, headleaf, call, result>>

DeletePairAbsent ==
    /\ pc = "delete_pair" /\ ~Deletes(heap, local.at, call.key)
    /\ Return(heap, "absent", EmptyData)
    /\ UNCHANGED <<root, headleaf, totalkeycount, call>>

-----------------------------------------------------------------------------
\* balancetree
leaf      == heap[local.at]
parentloc == findInnerNodeLoc(heap, leaf.parent, local.at)
UsesPrev  == leaf.prevLeaf # NULL /\ parentloc > 0
Neighbour == IF UsesPrev THEN leaf.prevLeaf ELSE leaf.nextLeaf
Fits      == heap[Neighbour].slotsinuse + leaf.slotsinuse < LeafSlots
Unbalanced ==
    /\ pc = "balance" /\ LocDefined(heap, leaf.parent, local.at)
    /\ isunderflow(leaf) /\ Neighbour # NULL

BalanceNothing ==
    /\ pc = "balance" /\ LocDefined(heap, leaf.parent, local.at)
    /\ ~isunderflow(leaf) \/ Neighbour = NULL
    /\ Return(heap, "ok", EmptyData)
    /\ UNCHANGED <<root, headleaf, totalkeycount, call>>

MergeLeaf ==
    /\ Unbalanced /\ IsLeaf(heap, Neighbour) /\ Readable(heap, Neighbour) /\ Fits
    /\ Go(heap, "merge_leaf",
          [at |-> local.at, to |-> Neighbour, i |-> 0,
           loc |-> IF UsesPrev THEN parentloc ELSE -1])
    /\ UNCHANGED <<root, headleaf, totalkeycount, call, result>>

MergeLeafLoop(junk) ==
    /\ pc = "merge_leaf" /\ local.i < leaf.slotsinuse
    /\ Go(insertleafpair(heap, local.to, leaf.keySlots[local.i], leaf.dataSlots[local.i], junk),
          "merge_leaf", [local EXCEPT !.i = @ + 1])
    /\ UNCHANGED <<root, headleaf, totalkeycount, call, result>>

\* Fault model: always the key after the leaf.
MergedKeyAfter == KeyAt(heap[leaf.parent], parentloc)

\* The key that separates the leaf: the one before it when it was merged into the
\* previous leaf (indeterminate if loc is the number of children), else the one after.
MergedKey ==
    LET p == heap[leaf.parent]
    IN  IF local.loc >= 0
        THEN IF local.loc = p.numChildren THEN Junk ELSE KeyAt(p, local.loc - 1)
        ELSE IF parentloc < p.numChildren THEN KeyAt(p, parentloc) ELSE KeyAt(p, parentloc + 1)

MergeLeafEnd ==
    /\ pc = "merge_leaf" /\ local.i >= leaf.slotsinuse
    /\ LocDefined(heap, leaf.parent, local.at) /\ parentloc >= 0
    /\ Go(heap, "delete_inner", [N |-> leaf.parent, kP |-> MergedKey, P |-> local.at])
    /\ UNCHANGED <<root, headleaf, totalkeycount, call, result>>

Borrows == Unbalanced /\ IsLeaf(heap, Neighbour) /\ Readable(heap, Neighbour) /\ ~Fits
           /\ leaf.slotsinuse < heap[Neighbour].slotsinuse

\* deleteleafpair counts the moved key down, and upkeycount counts it up again.
BorrowFromPrev(junk) ==
    /\ Borrows /\ UsesPrev
    /\ LET prev == leaf.prevLeaf
           last == heap[prev].slotsinuse - 1
           k    == heap[prev].keySlots[last]
           h1   == insertleafpair(heap, local.at, k, heap[prev].dataSlots[last], junk)
           h2   == IF h1 = Fault THEN Fault
                   ELSE replacekey(h1, leaf.parent, KeyAt(heap[leaf.parent], parentloc - 1),
                                   h1[local.at].keySlots[0])
       IN  /\ Return(deleteleafpair(h2, prev, k), "ok", EmptyData)
           /\ totalkeycount' = IF Deletes(heap, prev, k) THEN totalkeycount ELSE totalkeycount + 1
    /\ UNCHANGED <<root, headleaf, call>>

BorrowFromNext(junk) ==
    /\ Borrows /\ ~UsesPrev
    /\ LET next == leaf.nextLeaf
           k    == heap[next].keySlots[0]
           h1   == insertleafpair(heap, local.at, k, heap[next].dataSlots[0], junk)
           h2   == replacekey(h1, heap[next].parent, k, heap[next].keySlots[1])
       IN  /\ Return(deleteleafpair(h2, next, k), "ok", EmptyData)
           /\ totalkeycount' = IF Deletes(heap, next, k) THEN totalkeycount ELSE totalkeycount + 1
    /\ UNCHANGED <<root, headleaf, call>>

-----------------------------------------------------------------------------
\* deleteInnerNode
InnerLoc == findInnerNodeLoc(heap, local.N, local.P)
KeyLoc   == findInnerNodeKey(heap[local.N], local.kP)

\* The child is taken out of the chain of leaves and freed, and its key removed.  A
\* key that is not found makes the loop write before the array.  At a location beyond
\* the children nothing is removed.  (It is never -1: that is the answer for a leaf that
\* is not found, and MergeLeafEnd has just found this one.)
DeleteChild ==
    /\ pc = "delete_inner" /\ LocDefined(heap, local.N, local.P) /\ local.kP # Junk
    /\ LET N     == local.N
           loc   == InnerLoc
           child == heap[N].firstChild
           cur   == child[loc]
           h1    == IF ~Live(heap, cur) THEN Fault
                    ELSE IF loc > 0 /\ heap[cur].isleafnode
                    THEN IF IsLeaf(heap, child[loc - 1])
                         THEN [heap EXCEPT ![child[loc - 1]].nextLeaf = heap[cur].nextLeaf]
                         ELSE Fault
                    ELSE heap
           h2    == freeNode(h1, cur)
       IN  IF loc >= heap[N].numChildren
           THEN Go(IF IsInner(heap, N) THEN heap ELSE Fault, "rebalance", [at |-> N])
           ELSE Go(IF ~IsInner(h2, N) \/ KeyLoc = -1 THEN Fault
                   ELSE [h2 EXCEPT ![N].keySlots = ShiftOut(@, heap[N].slotsinuse, KeyLoc)],
                   "shift_children", [N |-> N, loc |-> loc, i |-> loc])
    /\ UNCHANGED <<root, headleaf, totalkeycount, call, result>>

\* Fault model: the leaf that moves is not linked with the one before it.
MoveChildUnlinked(h, N, i, alone) ==
    LET c == h[N].firstChild[i + 1]
    IN  IF ~IsInner(h, N) \/ ~Live(h, c) THEN Fault ELSE [h EXCEPT ![N].firstChild[i] = c]

\* Child i + 1 moves to i; the leaf moved is linked with the one before it.
MoveChild(h, N, i, alone) ==
    LET c == h[N].firstChild[i + 1]
        h1 == [h EXCEPT ![N].firstChild[i] = c]
    IN  IF ~IsInner(h, N) \/ ~Live(h, c) THEN Fault
        ELSE IF ~h[c].isleafnode THEN h1
        ELSE IF i >= 1 THEN LinkLeaves(h1, h[N].firstChild[i - 1], c)
        ELSE IF alone THEN [h1 EXCEPT ![c].prevLeaf = NULL] ELSE h1

ShiftChild ==
    /\ pc = "shift_children" /\ local.i < heap[local.N].slotsinuse - 1
    /\ Go(MoveChild(heap, local.N, local.i, TRUE), "shift_children", [local EXCEPT !.i = @ + 1])
    /\ UNCHANGED <<root, headleaf, totalkeycount, call, result>>

ShiftLastChild ==
    /\ pc = "shift_children" /\ local.i >= heap[local.N].slotsinuse - 1
    /\ LET N     == local.N
           moves == /\ heap[N].numChildren > heap[N].slotsinuse
                    /\ local.loc + 1 < heap[N].numChildren
           h1    == IF moves THEN MoveChild(heap, N, local.i, FALSE) ELSE heap
           h2    == IF moves /\ h1 # Fault
                    THEN [h1 EXCEPT ![N].firstChild[local.i + 1] = NULL] ELSE h1
           h3    == IF h2 = Fault THEN Fault ELSE [h2 EXCEPT ![N].slotsinuse = Dec(@)]
       IN  Go(AddToChildren(h3, N, -1), "rebalance", [at |-> N])
    /\ UNCHANGED <<root, headleaf, totalkeycount, call, result>>

\* The root with a single child gives way to it.
CollapseRoot ==
    /\ pc = "rebalance" /\ heap[local.at].isrootnode /\ heap[local.at].numChildren = 1
    /\ LET child == heap[local.at].firstChild[0]
       IN  /\ Return(IF ~Live(heap, child) THEN Fault
                     ELSE freeNode([heap EXCEPT ![child].parent = NULL,
                                                ![child].isrootnode = TRUE], local.at),
                     "ok", EmptyData)
           /\ root' = child
    /\ UNCHANGED <<headleaf, totalkeycount, call>>

\* An underflowing inner node: its siblings and the slot of the key between them.
child     == heap[local.at]
parent    == heap[child.parent]
ChildLoc  == findInnerNodeLoc(heap, child.parent, local.at)
next      == IF ChildLoc + 1 < parent.numChildren THEN parent.firstChild[ChildLoc + 1] ELSE NULL
prev      == IF ChildLoc - 1 >= 0 THEN parent.firstChild[ChildLoc - 1] ELSE NULL
Separator == KeyAt(parent, IF ChildLoc = parent.numChildren - 1 THEN ChildLoc - 1 ELSE ChildLoc)
FitsIn(n) == heap[n].numChildren + child.numChildren <= NodeSlots + 1
Underflowing ==
    /\ pc = "rebalance" /\ ~child.isrootnode /\ isunderflow(child)
    /\ child.parent # NULL /\ LocDefined(heap, child.parent, local.at)

\* The node is the root, or is full enough, or has no sibling.
RebalanceNothing ==
    /\ pc = "rebalance"
    /\ child.isrootnode => child.numChildren # 1
    /\ ~child.isrootnode /\ isunderflow(child) => Underflowing /\ next = NULL /\ prev = NULL
    /\ Return(heap, "ok", EmptyData)
    /\ UNCHANGED <<root, headleaf, totalkeycount, call>>

\* Merge into next: the last child under the separator, then the pairs from the last.
MergeIntoNext ==
    /\ Underflowing /\ IsInner(heap, next) /\ FitsIn(next)
    /\ Go(insertInnerNodeChildAt(insertInnerNodeKeyAt(heap, next, Separator, 0), next,
                                 getChild(child, child.numChildren - 1), 0),
          "merge_next", [at |-> local.at, to |-> next, i |-> child.slotsinuse - 1,
                         kp |-> Separator])
    /\ UNCHANGED <<root, headleaf, totalkeycount, call, result>>

MergeIntoNextLoop ==
    /\ pc = "merge_next" /\ local.i >= 0
    /\ Go(insertInnerNodeChildAt(insertInnerNodeKeyAt(heap, local.to, KeyAt(child, local.i), 0),
                                 local.to, child.firstChild[local.i], 0),
          "merge_next", [local EXCEPT !.i = @ - 1])
    /\ UNCHANGED <<root, headleaf, totalkeycount, call, result>>

\* Merge into prev: the separator and the first child, then the pairs in order.
MergeIntoPrev ==
    /\ Underflowing /\ next = NULL /\ IsInner(heap, prev) /\ FitsIn(prev)
    /\ Go(insertInnerNodeChildAt(
              insertInnerNodeKeyAt(heap, prev, Separator, heap[prev].slotsinuse),
              prev, child.firstChild[0], heap[prev].numChildren),
          "merge_prev", [at |-> local.at, to |-> prev, i |-> 0, kp |-> Separator])
    /\ UNCHANGED <<root, headleaf, totalkeycount, call, result>>

MergeIntoPrevLoop ==
    /\ pc = "merge_prev" /\ local.i < child.slotsinuse
    /\ Go(insertInnerNodeChildAt(
              insertInnerNodeKeyAt(heap, local.to, KeyAt(child, local.i),
                                   heap[local.to].slotsinuse),
              local.to, child.firstChild[local.i + 1], heap[local.to].numChildren),
          "merge_prev", [local EXCEPT !.i = @ + 1])
    /\ UNCHANGED <<root, headleaf, totalkeycount, call, result>>

\* After either merge deleteInnerNode calls itself on the parent.
MergeInnerEnd ==
    /\ \/ pc = "merge_next" /\ local.i < 0
       \/ pc = "merge_prev" /\ local.i >= child.slotsinuse
    /\ Go(heap, "delete_inner", [N |-> child.parent, kP |-> local.kp, P |-> local.at])
    /\ UNCHANGED <<root, headleaf, totalkeycount, call, result>>

RedistributeFromNext ==
    /\ Underflowing /\ IsInner(heap, next) /\ ~FitsIn(next)
    /\ LET h1 == insertInnerNodeKeyAt(heap, local.at, Separator, child.slotsinuse)
           h2 == insertInnerNodeChildAt(h1, local.at, heap[next].firstChild[0],
                                        child.numChildren)
           h3 == replacekey(h2, heap[next].parent, Separator, heap[next].keySlots[0])
           n  == heap[next].slotsinuse
       IN  Return(IF h3 = Fault \/ n > NodeSlots THEN Fault
                  ELSE AddToChildren(
                         [h3 EXCEPT
                            ![next].keySlots   = ShiftOut(@, n, 0),
                            ![next].firstChild =
                                ShiftOut(@, IF heap[next].numChildren > n THEN n + 1 ELSE n, 0),
                            ![next].slotsinuse = Dec(@)], next, -1),
                  "ok", EmptyData)
    /\ UNCHANGED <<root, headleaf, totalkeycount, call>>

-----------------------------------------------------------------------------
\* The steps that are undefined before they compute a heap.
Undefined ==
    /\ \/ pc = "find" /\ ~Readable(heap, local.at)
       \/ /\ pc = "delete_pair"    \* keySlots[-1] may equal the key
          /\ leaf.slotsinuse >= 1 /\ find_lowerkey(leaf, call.key) = -1
       \/ pc = "insert" /\ \E junk \in Indeterminate :
             PairResult(heap, local.at, call.key, call.data, junk) = "fault"
       \/ /\ pc = "insert_in_parent" /\ local.parent # NULL
          /\ \/ ~(IsInner(heap, local.parent) /\ Readable(heap, local.parent))
             \/ local.k = Junk
             \/ /\ heap[local.parent].numChildren < NodeSlots + 1
                /\ heap[local.parent].slotsinuse >= NodeSlots
       \/ pc = "balance" /\ ~LocDefined(heap, leaf.parent, local.at)
       \/ Unbalanced /\ ~(IsLeaf(heap, Neighbour) /\ Readable(heap, Neighbour))
       \/ /\ Unbalanced /\ IsLeaf(heap, Neighbour) /\ Readable(heap, Neighbour) /\ ~Fits
          /\ leaf.slotsinuse >= heap[Neighbour].slotsinuse
       \/ /\ pc = "merge_leaf" /\ local.i >= leaf.slotsinuse
          /\ ~LocDefined(heap, leaf.parent, local.at) \/ parentloc < 0
       \/ /\ pc = "delete_inner"
          /\ ~LocDefined(heap, local.N, local.P) \/ local.kP = Junk
       \/ /\ pc = "rebalance" /\ ~child.isrootnode /\ isunderflow(child)
          /\ child.parent = NULL \/ ~LocDefined(heap, child.parent, local.at)
       \/ Underflowing /\ next # NULL /\ ~IsInner(heap, next)
       \/ /\ Underflowing /\ next = NULL /\ prev # NULL     \* next->parent
          /\ ~IsInner(heap, prev) \/ ~FitsIn(prev)
    /\ pc' = "undefined"
    /\ UNCHANGED <<heap, root, headleaf, totalkeycount, call, local, result>>

Stopped == pc = "undefined" /\ UNCHANGED vars

-----------------------------------------------------------------------------
Calls ==
    \E k \in Keys :
        \/ \E d \in PayloadsOf[k] : MakeRoot(k, d) \/ CallInsert(k, d)
        \/ \E d \in Payloads : CallDeletePair(k, d)
        \/ CallErase(k) \/ CallGet(k)
        \/ \E op \in {"get", "erase", "delete_pair"} : CallOnEmptyTree(op, k)

Steps ==
    \/ FindChild \/ FindNextLeaf \/ FindLeaf \/ Get
    \/ SplitFullLeaf \/ NewRoot \/ InsertInParent
    \/ SplitParent \/ SplitParentLoop \/ SplitParentEnd
    \/ DeletePair \/ DeletePairAbsent
    \/ BalanceNothing \/ MergeLeaf \/ MergeLeafEnd
    \/ \E junk \in Indeterminate :
          \/ InsertPair(junk) \/ InsertDuplicate(junk) \/ Erase(junk) \/ EraseAbsent(junk)
          \/ MergeLeafLoop(junk) \/ BorrowFromPrev(junk) \/ BorrowFromNext(junk)
    \/ DeleteChild \/ ShiftChild \/ ShiftLastChild \/ CollapseRoot \/ RebalanceNothing
    \/ MergeIntoNext \/ MergeIntoNextLoop \/ MergeIntoPrev \/ MergeIntoPrevLoop
    \/ MergeInnerEnd \/ RedistributeFromNext
    \/ Undefined

Next == Calls \/ Steps \/ Stopped

\* Safety; LiveSpec of BTreeLive adds that a call, once made, keeps running.
Spec == Init /\ [][Next]_vars
=============================================================================
