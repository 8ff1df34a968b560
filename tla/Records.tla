------------------------------ MODULE Records ------------------------------
(***************************************************************************)
(* The record and transaction calls of src/bptree.cc, made by the threads   *)
(* that open and close indexes in IndexRegistry.  They take no lock: get    *)
(* reads nbt and type from the index state and then works on the tree, for  *)
(* as long as it takes, while other threads open and close.                 *)
(* insertRecord answers before it comes to a tree, so that the trees stay   *)
(* empty and get finds none of the keys.  The rest of insertRecord,         *)
(* getNext and the payload branch of deleteRecord do not compile.           *)
(***************************************************************************)
EXTENDS IndexRegistry

CONSTANTS
    SHORT, INT, VARCHAR, \* the key types
    Keys,                \* the keys that callers pass
    NoKey,               \* a Key that is all zeros
    Tids,                \* what rand() may return
    Codes                \* what a function that ends without a return may seem to answer

ASSUME RecordAssumption ==
    KeyTypes \subseteq {SHORT, INT, VARCHAR} /\ NoKey \notin Keys /\ 0 \in Tids

VARIABLES
    txn,         \* the transaction state of each thread, or NULL
    cursor,      \* tid, lastKey and keyNotFound of each thread's index states
    rec,         \* the record call each thread is in: arguments, what get read, the answer
    running      \* the process has not crashed

recvars == <<vars, txn, cursor, rec, running>>

NoRec      == [op |-> "none"]
NullCursor == [tid |-> 0, lastKey |-> NoKey, keyNotFound |-> 0]

RecInit ==
    /\ Init
    /\ txn = [t \in Threads |-> NULL]
    /\ cursor = [t \in Threads |-> [n \in Names |-> NullCursor]]
    /\ rec = [t \in Threads |-> NoRec]
    /\ running = TRUE

-----------------------------------------------------------------------------
\* A thread is in one call at a time.
Free(t) == running /\ pc[t] = "idle" /\ rec[t] = NoRec

\* create, openIndex, closeIndex: memset clears a new index state, cursor and all.
Registry(t) ==
    /\ running /\ rec[t] = NoRec
    /\ Calls(t) \/ Lock(t) \/ Body(t)
    /\ cursor' = [cursor EXCEPT ![t] =
           [n \in Names |-> IF Open(t, n)' /\ ~Open(t, n) THEN NullCursor ELSE @[n]]]
    /\ UNCHANGED <<txn, rec, running>>

\* Callers pass a state that is open, and their transaction or NULL.
CallRecord(t, op, n, k) ==
    /\ Free(t) /\ Open(t, n)
    /\ \E x \in {NULL, txn[t]} :
          rec' = [rec EXCEPT ![t] = [op |-> op, name |-> n, key |-> k, txn |-> x, code |-> "none",
                                     nbt |-> state[t][n].nbt, type |-> state[t][n].type]]
    /\ UNCHANGED <<vars, txn, cursor, running>>

In(t, op) == running /\ rec[t].op = op /\ rec[t].code = "none"

Says(t, code) ==
    /\ rec' = [rec EXCEPT ![t].code = code]
    /\ UNCHANGED <<vars, txn>>

Leave(t) ==
    /\ running /\ rec[t] # NoRec /\ rec[t].code # "none"
    /\ rec' = [rec EXCEPT ![t] = NoRec]
    /\ UNCHANGED <<vars, txn, cursor, running>>

Crash ==
    /\ running' = FALSE
    /\ UNCHANGED <<vars, txn, cursor, rec>>

-----------------------------------------------------------------------------
\* beginTransaction: nothing is asked of the transaction the thread may be in.
beginTransaction(t) ==
    /\ Free(t)
    /\ \E tid \in Tids : txn' = [txn EXCEPT ![t] = [tid |-> tid, status |-> 1]]
    /\ UNCHANGED <<vars, cursor, rec, running>>

\* abortTransaction and commitTransaction do the same.
endTransaction(t) ==
    /\ Free(t) /\ txn[t] # NULL
    /\ txn' = [txn EXCEPT ![t].status = -1]
    /\ UNCHANGED <<vars, cursor, rec, running>>

-----------------------------------------------------------------------------
\* insertRecord, deleteRecord

\* What p_setKeyDataFromKey does to the pointer it is given: the converted key is assigned
\* to its own copy of the pointer, so that the caller's keeps what it had.
p_setKeyDataFromKey(key, pointer) == pointer

insertRecord(t) ==
    /\ In(t, "insert")
    /\ p_setKeyDataFromKey(rec[t].key, NULL) = NULL
    /\ Says(t, "FAILURE") /\ UNCHANGED <<cursor, running>>

\* With no payload given: nothing is deleted.
deleteRecord(t) ==
    /\ In(t, "delete")
    /\ Says(t, "SUCCESS") /\ UNCHANGED <<cursor, running>>

-----------------------------------------------------------------------------
\* get

InGet(t, type) == In(t, "get") /\ rec[t].type = type

\* The tree answers ("", false); the answer of get does not look at the second part, and
\* the cursor is left alone.
getInt(t) ==
    /\ InGet(t, INT)
    /\ Says(t, "SUCCESS") /\ UNCHANGED <<cursor, running>>

\* The string is read from a pointer that nothing was assigned to.
getVarchar(t) ==
    /\ InGet(t, VARCHAR)
    /\ \/ Says(t, "SUCCESS") /\ UNCHANGED <<cursor, running>>
       \/ Crash

\* The cursor moves to the key; keyNotFound is set for a new transaction and cleared at
\* once.  Then the function ends without a return: it answers anything, or crashes.
getShort(t) ==
    /\ InGet(t, SHORT) /\ rec[t].txn # NULL
    /\ \/ /\ \E code \in Codes : Says(t, code)
          /\ cursor' = [cursor EXCEPT ![t][rec[t].name] =
                           [tid |-> rec[t].txn.tid, lastKey |-> rec[t].key, keyNotFound |-> 0]]
          /\ UNCHANGED running
       \/ Crash

getShortNoTransaction(t) == InGet(t, SHORT) /\ rec[t].txn = NULL /\ Crash

-----------------------------------------------------------------------------
RecNext ==
    \E t \in Threads :
        \/ Registry(t)
        \/ \E op \in {"get", "insert", "delete"}, n \in Names, k \in Keys : CallRecord(t, op, n, k)
        \/ insertRecord(t) \/ deleteRecord(t)
        \/ getInt(t) \/ getVarchar(t) \/ getShort(t) \/ getShortNoTransaction(t)
        \/ Leave(t)
        \/ beginTransaction(t) \/ endTransaction(t)

RecSpec == RecInit /\ [][RecNext]_recvars

-----------------------------------------------------------------------------
\* The record calls take no lock and the trees have none: still no two threads are in a
\* call on one tree, because openIndex gives one thread a state and that thread does not
\* close it while it is in the call.  This is the code's answer to src/unittests.c, where
\* the main thread (l. 326-341) and test_transaction_func (l. 96) mean to be in calls on
\* primary_index at once: the second of them never gets a state (AnyThreadOpens).
TreeUsedByOne ==
    \A t, u \in Threads :
        rec[t] # NoRec /\ rec[u] # NoRec /\ rec[t].nbt = rec[u].nbt => t = u

\* The type by which get casts nbt is that of the tree it points to, for as long as get
\* works on it: create appends links and closeIndex sets pointers to NULL meanwhile.
CastsRight ==
    \A t \in Threads :
        rec[t] # NoRec => /\ rec[t].nbt \in DOMAIN dbLookup
                          /\ dbLookup[rec[t].nbt].type = rec[t].type

-----------------------------------------------------------------------------
\* What src/server.h says and the code does not do.

Answers(t, op, code) == In(t, op) /\ rec'[t].code = code

\* "KEY_NOTFOUND if specified key value was not found in the DB" (get): the trees are
\* empty, so that get never finds the key.
NotFoundReported == [][\A t \in Threads : ~Answers(t, "get", "SUCCESS")]_recvars

\* "SUCCESS if successfully inserted record into DB" (insertRecord): insertRecord into an
\* empty tree does not fail.
InsertSucceeds == [][\A t \in Threads : ~Answers(t, "insert", "FAILURE")]_recvars

\* "The transaction state to be used (or NULL if not in a transaction)" (get): without a
\* transaction get on a SHORT index does not crash.
NullTransactionAllowed ==
    [][\A t \in Threads : InGet(t, SHORT) /\ rec[t].txn = NULL => running']_recvars

\* "Retrieve the record following the previous record retrieved by get or getNext": a get
\* that has answered SUCCESS leaves the cursor at its key.
GetMovesCursor ==
    \A t \in Threads :
        rec[t].op = "get" /\ rec[t].code = "SUCCESS" => cursor[t][rec[t].name].lastKey = rec[t].key

\* "TXN_EXISTS if there is already a transaction begun for this thread".
OneTransaction ==
    [][\A t \in Threads :
          txn[t] # NULL /\ txn'[t] # txn[t] /\ txn'[t].status = 1 => txn[t].status = -1]_recvars
=============================================================================
