--------------------------- MODULE RecordsProofs ---------------------------
(***************************************************************************)
(* The record calls leave the list of indexes alone, and while a thread is  *)
(* in one of them the tree it works on is its own and of the type by which  *)
(* it casts: for any threads, names, keys and transaction numbers.          *)
(***************************************************************************)
EXTENDS Records, IndexRegistryProofs

Transactions == {NULL} \cup [tid : Tids, status : {1, -1}]
RecordCalls ==
    [op : {"get", "insert", "delete"}, name : Names, key : Keys, txn : Transactions,
     code : Codes \cup {"none", "SUCCESS", "FAILURE"}, nbt : Nat, type : KeyTypes]

RecTypes ==
    /\ txn \in [Threads -> Transactions]
    /\ rec \in [Threads -> {NoRec} \cup RecordCalls]

\* What a record call has read from its index state is still there: the thread itself is
\* the only one to change that state, and it is in the record call.
ReadHolds ==
    \A t \in Threads :
        rec[t] # NoRec => /\ Open(t, rec[t].name)
                          /\ rec[t].nbt = state[t][rec[t].name].nbt
                          /\ rec[t].type = state[t][rec[t].name].type

-----------------------------------------------------------------------------
\* A step of Records is a step of the registry or leaves all of it alone.
LEMMA RecordStep ==
    ASSUME [RecNext]_recvars
    PROVE  [Next]_vars
<1>1. CASE UNCHANGED recvars
  BY <1>1 DEF recvars, vars
<1>2. CASE \E t \in Threads : Registry(t)
  BY <1>2 DEF Registry, Next
<1>3. CASE RecNext /\ ~\E t \in Threads : Registry(t)
  BY <1>3 DEF RecNext, CallRecord, Leave, insertRecord, deleteRecord, getInt, getVarchar,
              getShort, getShortNoTransaction, Says, Crash, beginTransaction, endTransaction
<1> QED
  BY <1>1, <1>2, <1>3

\* What the registry guarantees it guarantees beside the record calls.
LEMMA RecordsAreRegistry == RecSpec => Spec
<1>1. RecInit => Init
  BY DEF RecInit
<1>2. [RecNext]_recvars => [Next]_vars
  BY RecordStep
<1> QED
  BY <1>1, <1>2, PTL DEF RecSpec, Spec

\* A step of a thread in the registry leaves the index states of the others alone.
LEMMA OthersKeep ==
    ASSUME Base, NEW t \in Threads, Calls(t) \/ Lock(t) \/ Body(t),
           NEW u \in Threads, u # t, NEW n \in Names
    PROVE  state'[u][n] = state[u][n]
<1>1. CASE OpenFirst(t)
  BY <1>1, OpenState
<1>2. CASE Close(t)
  BY <1>2, CloseState
<1>3. CASE UNCHANGED state
  BY <1>3
<1> QED
  BY <1>1, <1>2, <1>3, Steps DEF CreateLink, OpenRefused

-----------------------------------------------------------------------------
\* At first no record call runs.
LEMMA RecInitial == RecInit => RecTypes /\ ReadHolds
  BY DEF RecInit, RecTypes, ReadHolds, Transactions

\* The answer of a call is the only field of it that changes.
LEMMA SaysKeeps ==
    ASSUME RecTypes, ReadHolds, NEW t \in Threads, rec[t] # NoRec,
           NEW code \in Codes \cup {"SUCCESS", "FAILURE"}, Says(t, code)
    PROVE  RecTypes' /\ ReadHolds'
<1>1. rec[t] \in RecordCalls
  BY DEF RecTypes
<1>2. PICK r : r = [rec[t] EXCEPT !.code = code]
  OBVIOUS
<1>3. /\ r \in RecordCalls /\ r.name = rec[t].name
      /\ r.nbt = rec[t].nbt /\ r.type = rec[t].type
  BY <1>1, <1>2 DEF RecordCalls
<1>4. rec' = [rec EXCEPT ![t] = r]
  BY <1>2 DEF Says
<1>5. UNCHANGED <<state, txn>>
  BY DEF Says, vars
<1>6. RecTypes'
  BY <1>3, <1>4, <1>5 DEF RecTypes
<1>7. ReadHolds'
  BY <1>3, <1>4, <1>5 DEF RecTypes, ReadHolds, Open
<1> QED
  BY <1>6, <1>7

\* Every step keeps what the calls have read true.
LEMMA RecNextKeeps ==
    ASSUME Base, StateMatchesLink, RecTypes, ReadHolds, [RecNext]_recvars
    PROVE  RecTypes' /\ ReadHolds'
<1>1. CASE UNCHANGED recvars
  BY <1>1 DEF recvars, vars, RecTypes, ReadHolds, Open
<1> SUFFICES ASSUME NEW t \in Threads,
                    \/ Registry(t)
                    \/ \E op \in {"get", "insert", "delete"}, n \in Names, k \in Keys :
                          CallRecord(t, op, n, k)
                    \/ insertRecord(t) \/ deleteRecord(t)
                    \/ getInt(t) \/ getVarchar(t) \/ getShort(t) \/ getShortNoTransaction(t)
                    \/ Leave(t)
                    \/ beginTransaction(t) \/ endTransaction(t)
             PROVE  RecTypes' /\ ReadHolds'
  BY <1>1 DEF RecNext
<1>2. CASE Registry(t)
  <2>1. UNCHANGED <<txn, rec>> /\ rec[t] = NoRec
    BY <1>2 DEF Registry
  <2>2. RecTypes'
    BY <2>1 DEF RecTypes
  <2>3. ASSUME NEW u \in Threads, rec'[u] # NoRec
        PROVE  state'[u][rec[u].name] = state[u][rec[u].name]
    <3>1. u # t /\ rec[u].name \in Names
      BY <2>1, <2>3 DEF RecTypes, RecordCalls
    <3> QED
      BY <1>2, <3>1, OthersKeep DEF Registry
  <2>4. ReadHolds'
    BY <2>1, <2>3 DEF ReadHolds, Open
  <2> QED
    BY <2>2, <2>4
<1>3. ASSUME NEW op \in {"get", "insert", "delete"}, NEW n \in Names, NEW k \in Keys,
             CallRecord(t, op, n, k)
      PROVE  RecTypes' /\ ReadHolds'
  <2>1. PICK x \in {NULL, txn[t]} :
           rec' = [rec EXCEPT ![t] =
                      [op |-> op, name |-> n, key |-> k, txn |-> x, code |-> "none",
                       nbt |-> state[t][n].nbt, type |-> state[t][n].type]]
    BY <1>3 DEF CallRecord
  <2>2. Open(t, n) /\ UNCHANGED <<state, txn>>
    BY <1>3 DEF CallRecord, vars
  <2>3. state[t][n] \in STXDBState
    BY <2>2 DEF Base, TypeOK, Open, NoState
  <2>4. x \in Transactions
    BY DEF RecTypes, Transactions
  <2>5. PICK r : r = [op |-> op, name |-> n, key |-> k, txn |-> x, code |-> "none",
                      nbt |-> state[t][n].nbt, type |-> state[t][n].type]
    OBVIOUS
  <2>6. /\ r \in RecordCalls /\ r.name = n
        /\ r.nbt = state[t][n].nbt /\ r.type = state[t][n].type
    BY <2>3, <2>4, <2>5 DEF RecordCalls, STXDBState
  <2>7. rec' = [rec EXCEPT ![t] = r]
    BY <2>1, <2>5
  <2>8. RecTypes'
    BY <2>2, <2>6, <2>7 DEF RecTypes
  <2>9. ReadHolds'
    BY <2>2, <2>6, <2>7 DEF RecTypes, ReadHolds, Open
  <2> QED
    BY <2>8, <2>9
<1>4. CASE insertRecord(t) \/ deleteRecord(t) \/ getInt(t) \/ getVarchar(t) \/ getShort(t)
  <2>1. rec[t] # NoRec
    BY <1>4 DEF insertRecord, deleteRecord, getInt, getVarchar, getShort, InGet, In, NoRec
  <2>2. CASE \E code \in Codes \cup {"SUCCESS", "FAILURE"} : Says(t, code)
    BY <2>1, <2>2, SaysKeeps
  <2>3. CASE Crash
    BY <2>3 DEF Crash, vars, RecTypes, ReadHolds, Open
  <2> QED
    BY <1>4, <2>2, <2>3 DEF insertRecord, deleteRecord, getInt, getVarchar, getShort
<1>5. CASE getShortNoTransaction(t)
  BY <1>5 DEF getShortNoTransaction, Crash, vars, RecTypes, ReadHolds, Open
<1>6. CASE Leave(t)
  <2>1. rec' = [rec EXCEPT ![t] = NoRec] /\ UNCHANGED <<state, txn>>
    BY <1>6 DEF Leave, vars
  <2> QED
    BY <2>1 DEF RecTypes, ReadHolds, Open
<1>7. CASE beginTransaction(t) \/ endTransaction(t)
  <2>1. UNCHANGED <<state, rec>>
    BY <1>7 DEF beginTransaction, endTransaction, vars
  <2>2. txn' \in [Threads -> Transactions]
    <3>1. CASE beginTransaction(t)
      <4>1. PICK tid \in Tids : txn' = [txn EXCEPT ![t] = [tid |-> tid, status |-> 1]]
        BY <3>1 DEF beginTransaction
      <4> QED
        BY <4>1 DEF RecTypes, Transactions
    <3>2. CASE endTransaction(t)
      <4>1. txn[t] \in [tid : Tids, status : {1, -1}]
        BY <3>2 DEF endTransaction, RecTypes, Transactions
      <4>2. PICK x : x = [txn[t] EXCEPT !.status = -1]
        OBVIOUS
      <4>3. x \in Transactions
        BY <4>1, <4>2 DEF Transactions
      <4>4. txn' = [txn EXCEPT ![t] = x]
        BY <3>2, <4>2 DEF endTransaction
      <4> QED
        BY <4>3, <4>4 DEF RecTypes
    <3> QED
      BY <1>7, <3>1, <3>2
  <2> QED
    BY <2>1, <2>2 DEF RecTypes, ReadHolds, Open
<1> QED
  BY <1>2, <1>3, <1>4, <1>5, <1>6, <1>7

-----------------------------------------------------------------------------
\* What a record call has read stays true while it runs.
LEMMA RecordsRead ==
    RecSpec => [](Base /\ StateMatchesLink /\ RecTypes /\ ReadHolds)
<1>1. Base /\ StateMatchesLink /\ RecTypes /\ ReadHolds /\ [RecNext]_recvars
         => RecTypes' /\ ReadHolds'
  BY RecNextKeeps
<1> QED
  BY <1>1, RecInitial, RecordsAreRegistry, BaseHolds, StatesMatch, PTL DEF RecSpec

\* get casts the tree it has read to the type of that tree, whatever the other threads
\* create, open and close while it works.
THEOREM CastsAreRight == RecSpec => []CastsRight
<1>1. StateMatchesLink /\ RecTypes /\ ReadHolds => CastsRight
  <2> SUFFICES ASSUME StateMatchesLink, RecTypes, ReadHolds, NEW t \in Threads, rec[t] # NoRec
               PROVE  /\ rec[t].nbt \in DOMAIN dbLookup
                      /\ dbLookup[rec[t].nbt].type = rec[t].type
    BY DEF CastsRight
  <2>1. rec[t].name \in Names
    BY DEF RecTypes, RecordCalls
  <2> QED
    BY <2>1 DEF ReadHolds, StateMatchesLink
<1> QED
  BY <1>1, RecordsRead, PTL

\* No tree is worked on by two threads at once, though neither the record calls nor the
\* trees take a lock, as long as callers close only what they have open: the code gives
\* up sharing an index, which src/unittests.c asks for, and gets this in return.
THEOREM TreesAreUsedByOne ==
    ASSUME Closes \subseteq {"open"}
    PROVE  RecSpec => []TreeUsedByOne
<1>1. ExclusiveOpen /\ StateMatchesLink /\ RecTypes /\ ReadHolds => TreeUsedByOne
  <2> SUFFICES ASSUME ExclusiveOpen, StateMatchesLink, RecTypes, ReadHolds,
                      NEW t \in Threads, NEW u \in Threads,
                      rec[t] # NoRec, rec[u] # NoRec, rec[t].nbt = rec[u].nbt
               PROVE  t = u
    BY DEF TreeUsedByOne
  <2>1. rec[t].name \in Names /\ rec[u].name \in Names
    BY DEF RecTypes, RecordCalls
  <2>2. rec[t].name = rec[u].name
    BY <2>1 DEF ReadHolds, StateMatchesLink
  <2> QED
    BY <2>1, <2>2 DEF ReadHolds, ExclusiveOpen
<1> QED
  BY <1>1, RecordsRead, RecordsAreRegistry, OpenIsExclusive, PTL
=============================================================================
