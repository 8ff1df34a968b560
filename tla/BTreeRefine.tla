---------------------------- MODULE BTreeRefine ----------------------------
(***************************************************************************)
(* nwt::btree implements Multimap.  In the middle of a call the tree is in  *)
(* pieces, so what the caller can rely on is what the tree held when the    *)
(* last call returned: the history variable committed.                      *)
(***************************************************************************)
EXTENDS BTreeProps

VARIABLE committed

RefineInit == Init /\ committed = {}
RefineNext == Next /\ committed' = IF pc' = "idle" THEN Contents' ELSE committed
RefineSpec == RefineInit /\ [][RefineNext]_<<vars, committed>>

Abstract == INSTANCE Multimap WITH contents <- committed, busy <- (pc # "idle")

\* Every call of insert, erase, delete_pair and get answers, and changes the contents,
\* as one atomic step of the multimap does, whatever splits and merges it causes.
ImplementsMultimap == Abstract!Spec

\* "Insert is a pair into the tree" (comment of insert, src/src/btree.h): an insertion
\* takes no other key out of it.
InsertKeepsOthers ==
    [][call.op = "insert" =>
          {p[1] : p \in committed} \subseteq {p[1] : p \in committed'}]_<<vars, committed>>

\* "Delete the first key that matches k" (comment of erase): a deletion takes no other
\* key out of the tree.
DeletionKeepsOthers ==
    [][call.op \in {"erase", "delete_pair"} =>
          {p[1] : p \in committed} \ {call.key} \subseteq {p[1] : p \in committed'}]_<<vars, committed>>

NoData(r) == [r EXCEPT !.data = EmptyData]
AbstractKeys == INSTANCE Multimap
    WITH contents <- {<<p[1], EmptyData>> : p \in committed}, busy <- (pc # "idle"),
         call <- NoData(call), result <- NoData(result)

\* The same with the payloads left out: every call answers as the set of keys says.
\* (erase and insertleafDataAt mix up the payloads of a leaf.)
ImplementsKeySet == AbstractKeys!Spec
=============================================================================
