--------------------------- MODULE BTreeIterator ---------------------------
(***************************************************************************)
(* The class iterator of src/src/btree.h, used by the caller of the tree    *)
(* between two calls.  An iterator is a leaf and a slot; it comes from      *)
(* begin, from end, or from a leaf that find returned (find and the         *)
(* constructor are public; getNext was to return such a pair).  Its methods *)
(* check nothing: a step from null or freed memory is undefined.            *)
(***************************************************************************)
EXTENDS BTreeProps

CONSTANTS
    Begins,      \* when the caller calls begin: "unsplit", "always", "never"
    Holds        \* the caller keeps its iterator while it changes the tree

ASSUME IteratorAssumption == Begins \in {"unsplit", "always", "never"} /\ Holds \in BOOLEAN

VARIABLE it      \* the caller's iterator

itvars == <<vars, it>>

iterator(l, s) == [currnode |-> l, currslot |-> s]
NoIterator == [currnode |-> NULL, currslot |-> -1]
Held == it # NoIterator

\* begin starts at headleaf.  end starts at tailleaf, which the constructor sets to
\* NULL and nothing ever assigns.
begin == iterator(headleaf, 0)
end   == iterator(NULL, 0)

\* Fault model: the last slot of a leaf is not noticed.
advanceLate(p) ==
    LET l == heap[p.currnode]
    IN  IF p.currslot < l.slotsinuse THEN iterator(p.currnode, p.currslot + 1)
        ELSE IF l.nextLeaf # NULL THEN iterator(l.nextLeaf, 0)
        ELSE iterator(p.currnode, l.slotsinuse)

\* operator++: the next slot, the next leaf, or one past the last slot of the last leaf.
advance(p) ==
    LET l == heap[p.currnode]
    IN  IF p.currslot + 1 < l.slotsinuse THEN iterator(p.currnode, p.currslot + 1)
        ELSE IF l.nextLeaf # NULL THEN iterator(l.nextLeaf, 0)
        ELSE iterator(p.currnode, l.slotsinuse)

\* Fault model: the leaf before is entered at its first slot.
retreatFirst(p) ==
    LET before == heap[p.currnode].prevLeaf
    IN  IF p.currslot > 0 THEN iterator(p.currnode, p.currslot - 1)
        ELSE IF before # NULL THEN iterator(before, 0)
        ELSE iterator(p.currnode, 0)

\* operator--: the slot before, the last slot of the leaf before, or slot 0.
retreat(p) ==
    LET before == heap[p.currnode].prevLeaf
    IN  IF p.currslot > 0 THEN iterator(p.currnode, p.currslot - 1)
        ELSE IF before # NULL THEN iterator(before, Dec(heap[before].slotsinuse))
        ELSE iterator(p.currnode, 0)

-----------------------------------------------------------------------------
IterInit == Init /\ it = NoIterator

\* The leaf is the root, as makeroot left it.
Unsplit == root = headleaf

Begin ==
    /\ pc = "idle" /\ ~Held
    /\ Begins = "always" \/ (Begins = "unsplit" /\ Unsplit)
    /\ it' = begin
    /\ UNCHANGED vars

End ==
    /\ pc = "idle" /\ ~Held /\ Unsplit
    /\ it' = end
    /\ UNCHANGED vars

\* The caller has called find and makes an iterator of the leaf it returns.
Seek ==
    /\ pc = "get" /\ ~Held
    /\ it' = iterator(local.at, 0)
    /\ Return(heap, "ok", EmptyData)
    /\ UNCHANGED <<root, headleaf, totalkeycount, call>>

Forward ==
    /\ pc = "idle" /\ Held /\ IsLeaf(heap, it.currnode)
    /\ it' = advance(it)
    /\ UNCHANGED vars

\* operator-- reads slotsinuse of the leaf before.
BackDefined ==
    LET l == it.currnode
    IN  /\ IsLeaf(heap, l)
        /\ it.currslot = 0 /\ heap[l].prevLeaf # NULL => IsLeaf(heap, heap[l].prevLeaf)

Backward ==
    /\ pc = "idle" /\ Held /\ BackDefined
    /\ it' = retreat(it)
    /\ UNCHANGED vars

\* A step, forward or backward, that reads null or freed memory.
StepUndefined ==
    /\ pc = "idle" /\ Held
    /\ ~IsLeaf(heap, it.currnode) \/ ~BackDefined
    /\ pc' = "undefined"
    /\ UNCHANGED <<heap, root, headleaf, totalkeycount, call, local, result, it>>

Drop ==
    /\ pc = "idle" /\ Held
    /\ it' = NoIterator
    /\ UNCHANGED vars

\* A step of the tree.  Unless it Holds on to it, the caller has dropped its iterator
\* before it changes the tree.
TreeStep ==
    /\ Next
    /\ Held /\ ~Holds => call'.op = "get" \/ pc = "undefined"
    /\ UNCHANGED it

IterNext ==
    Begin \/ End \/ Seek \/ Forward \/ Backward \/ StepUndefined \/ Drop \/ TreeStep

IterSpec == IterInit /\ [][IterNext]_itvars

-----------------------------------------------------------------------------
KeyUnder(p) == heap[p.currnode].keySlots[p.currslot]
OnEntry(p)  == IsLeaf(heap, p.currnode) /\ p.currslot \in 0 .. heap[p.currnode].slotsinuse - 1

\* One past the last slot of the last leaf, where operator++ stops ("this is end()").
PastLast(p) ==
    /\ IsLeaf(heap, p.currnode)
    /\ heap[p.currnode].nextLeaf = NULL /\ p.currslot = heap[p.currnode].slotsinuse

\* The keys after, and before, the position p.
KeysAfter(p)  == IF PastLast(p) THEN {} ELSE {k \in HeldKeys : k > KeyUnder(p)}
KeysBefore(p) == IF PastLast(p) THEN HeldKeys ELSE {k \in HeldKeys : k < KeyUnder(p)}

\* An iterator from begin (of a tree that was never split) or from find stays inside the
\* tree: on an entry of one of its leaves, or past the last one, and wherever there is a
\* key before it, operator-- can go there.  (At the least key it may read freed memory:
\* LinksLeadToLeaves of BTreeClaims.)  Both operators trust the chain that splits,
\* borrows and merges leave behind.
IteratorInside ==
    Idle /\ Held /\ it # end =>
        /\ it.currnode \in TreeLeaves
        /\ OnEntry(it) \/ PastLast(it)
        /\ KeysBefore(it) # {} => BackDefined

\* operator++ goes to the next greater key of the whole tree, wherever it is, and past
\* the last one; operator-- goes to the next smaller key, and stays at the least: an
\* iteration skips no key and repeats none, across leaves and parents.
StepsInOrder ==
    [][ /\ Forward =>
            IF KeysAfter(it) = {} THEN PastLast(it')
            ELSE OnEntry(it') /\ KeyUnder(it') = Least(KeysAfter(it))
        /\ Backward =>
            IF KeysBefore(it) = {} THEN it' = it
            ELSE /\ OnEntry(it') /\ KeyUnder(it') \in KeysBefore(it)
                 /\ \A k \in KeysBefore(it) : k <= KeyUnder(it')
      ]_itvars

-----------------------------------------------------------------------------
\* What comments of src/src/btree.h say of begin and end, and the code does not do.

\* "Constructs a read/data-write iterator that points to the first slot in the first
\* leaf of the B+ tree" (begin).
BeginIsFirst ==
    [][Begin /\ root # NULL => it'.currnode \in TreeLeaves /\ KeysBefore(it') = {}]_itvars

\* "... points to the first invalid slot in the last leaf of the B+ tree" (end): an
\* iteration that has passed the last entry compares equal to end().
EndIsPastLast == Idle /\ Held /\ it # end => ~PastLast(it)
=============================================================================
