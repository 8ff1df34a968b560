--------------------------- MODULE IndexDirectory ---------------------------
(***************************************************************************)
(* The list of src/bptree.cc implements Directory: what the threads see of  *)
(* create, openIndex and closeIndex, with the walk along the links, the     *)
(* lock and the counts left out.                                            *)
(***************************************************************************)
EXTENDS IndexRegistry

\* What the list and the index states are in the directory.
Indexes  == {<<dbLookup[i].name, dbLookup[i].type>> : i \in DOMAIN dbLookup}
Owner(n) == IF \E t \in Threads : Open(t, n) THEN CHOOSE t \in Threads : Open(t, n) ELSE NULL
Owners   == [n \in Names |-> Owner(n)]

\* Openers that were refused stay in the count of the link, beside the owner.
Owned(n)  == IF \E t \in Threads : Open(t, n) THEN 1 ELSE 0
Refused   == {n \in Names : \E i \in DOMAIN dbLookup :
                 dbLookup[i].name = n /\ dbLookup[i].numOpenThreads > Owned(n)}

Dir == INSTANCE Directory
       WITH indexes <- Indexes, owner <- Owners, refused <- Refused, Requests <- Call

\* Every call answers as if it took effect at one moment (create, openIndex, closeIndex):
\* whatever the interleaving, a name is created once and found by every later call, a call
\* to create that fails changes nothing the others can see, and openIndex refuses exactly
\* when a thread has the index open or an opener was refused before, never otherwise.
ImplementsDirectory == Dir!Spec
=============================================================================
