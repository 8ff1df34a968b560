---------------------------- MODULE BTreeClaims ----------------------------
(***************************************************************************)
(* What comments of src/src/btree.h and src/server.h say of the tree and    *)
(* the code does not do.  Each is refuted by a run of its own.              *)
(***************************************************************************)
EXTENDS BTreeProps

\* "keep track of the next and previous nodes" (leafNode): whatever a leaf of the tree is
\* linked to is a leaf of the tree, whatever has been deleted.
LinksLeadToLeaves ==
    Idle => \A l \in TreeLeaves :
               {heap[l].nextLeaf, heap[l].prevLeaf} \ {NULL} \subseteq TreeLeaves

\* "Contents of the retrieved record are copied" (get, src/server.h): the payload
\* beside a key, which get returns, is one that was stored under that key.
PayloadsKept ==
    Idle => \A p \in Contents : p[2] \in PayloadsOf[p[1]]

\* "Delete the first key that matches k" (erase): a key leaves a leaf only if that
\* leaf holds k.
EraseMatches ==
    [][pc = "erase" /\ totalkeycount' # totalkeycount
          => call.key \in KeysIn(local.at)]_vars

\* "Delete key, data pair from index" (delete_pair): the pair that goes is the pair
\* that was named.
PairMatches ==
    [][pc = "delete_pair" /\ totalkeycount' # totalkeycount
          => heap[local.at].dataSlots[findKeyEqual(heap[local.at], call.key)] = call.data]_vars
=============================================================================
