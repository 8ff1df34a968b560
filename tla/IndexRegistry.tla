--------------------------- MODULE IndexRegistry ---------------------------
(***************************************************************************)
(* The list of indexes of src/bptree.cc: create, openIndex and closeIndex,  *)
(* called by several threads.  Each takes ILINK_LOCK, walks dbLookup to the *)
(* link with the name, acts, and releases the lock; each of these is a step *)
(* of its own.  An index state (STXDBState) belongs to the thread that      *)
(* opened it.                                                               *)
(***************************************************************************)
EXTENDS Integers, Sequences

CONSTANTS
    Threads,     \* the threads of the process
    Names,       \* the names indexes are given
    KeyTypes,    \* SHORT, INT, VARCHAR
    OtherTypes,  \* further values of the C enum that callers pass to create
    Closes,      \* whose states callers pass to closeIndex: "open", "closed"
    MaxOpens,    \* openIndex is not called on a link counted this often (a bound)
    NULL         \* no thread

ASSUME ThreadsAssumption == NULL \notin Threads
ASSUME TypesAssumption == KeyTypes # {} /\ KeyTypes \cap OtherTypes = {}
ASSUME ClosesAssumption == Closes \subseteq {"open", "closed"}

VARIABLES
    ILINK_LOCK,  \* the thread that holds the mutex, or NULL
    dbLookup,    \* the links, in the order of creation
    stderrfile,  \* error.log has been opened
    state,       \* the index states of each thread, by name
    pc,          \* where each thread is in its call
    call,        \* its call: function and arguments
    link,        \* its cursor: the position of a link in dbLookup
    ret          \* what its call is about to return

vars == <<ILINK_LOCK, dbLookup, stderrfile, state, pc, call, link, ret>>

-----------------------------------------------------------------------------
DBLink   == [name : Names, type : KeyTypes, numOpenThreads : Int]
\* nbt is the position of the index's link, 0 for NULL.
NoState  == [status |-> "none"]
STXDBState == [status : {"open", "closed"}, nbt : Nat, type : KeyTypes]
Call     == [op : {"create", "open", "close"}, name : Names, type : KeyTypes \cup OtherTypes]
NoCall   == [op |-> "none"]
ErrCode  == {"none", "SUCCESS", "DB_DNE", "DB_EXISTS", "FAILURE"}
Critical == {"search", "found", "absent", "unlock"}

Init ==
    /\ ILINK_LOCK = NULL
    /\ dbLookup = <<>>
    /\ stderrfile = FALSE
    /\ state = [t \in Threads |-> [n \in Names |-> NoState]]
    /\ pc = [t \in Threads |-> "idle"]
    /\ call = [t \in Threads |-> NoCall]
    /\ link = [t \in Threads |-> 1]
    /\ ret = [t \in Threads |-> "none"]

-----------------------------------------------------------------------------
\* The caller.
Start(t, c) ==
    /\ pc[t] = "idle"
    /\ call' = [call EXCEPT ![t] = c]
    /\ pc' = [pc EXCEPT ![t] = "lock"]
    /\ UNCHANGED <<ILINK_LOCK, dbLookup, stderrfile, state, link, ret>>

CallCreate(t, n, type) == Start(t, [op |-> "create", name |-> n, type |-> type])

\* closeIndex and openIndex have no type argument; a fixed one keeps Call uniform.
AnyType == CHOOSE type \in KeyTypes : TRUE
CallOpen(t, n) ==
    /\ \A i \in DOMAIN dbLookup :
          dbLookup[i].name = n => dbLookup[i].numOpenThreads < MaxOpens
    /\ Start(t, [op |-> "open", name |-> n, type |-> AnyType])

CallClose(t, n) ==
    /\ state[t][n].status \in Closes
    /\ Start(t, [op |-> "close", name |-> n, type |-> AnyType])

-----------------------------------------------------------------------------
\* Common to the three functions.

\* Fault model: the mutex does not exclude.
LockAlways(t) ==
    /\ pc[t] = "lock"
    /\ ILINK_LOCK' = t
    /\ pc' = [pc EXCEPT ![t] = "search"]
    /\ UNCHANGED <<dbLookup, stderrfile, state, call, link, ret>>

Lock(t) ==
    /\ pc[t] = "lock" /\ ILINK_LOCK = NULL
    /\ ILINK_LOCK' = t
    /\ pc' = [pc EXCEPT ![t] = "search"]
    /\ UNCHANGED <<dbLookup, stderrfile, state, call, link, ret>>

\* Fault model: the loop does not go on to the next link.
SearchFirst(t) ==
    /\ pc[t] = "search"
    /\ pc' = [pc EXCEPT ![t] = IF link[t] \notin DOMAIN dbLookup THEN "absent"
                              ELSE IF dbLookup[link[t]].name = call[t].name THEN "found" ELSE @]
    /\ UNCHANGED <<ILINK_LOCK, dbLookup, stderrfile, state, call, link, ret>>

\* One round of the loop over the links.
Search(t) ==
    /\ pc[t] = "search"
    /\ \/ /\ link[t] \notin DOMAIN dbLookup
          /\ pc' = [pc EXCEPT ![t] = "absent"] /\ UNCHANGED link
       \/ /\ link[t] \in DOMAIN dbLookup /\ dbLookup[link[t]].name = call[t].name
          /\ pc' = [pc EXCEPT ![t] = "found"] /\ UNCHANGED link
       \/ /\ link[t] \in DOMAIN dbLookup /\ dbLookup[link[t]].name # call[t].name
          /\ link' = [link EXCEPT ![t] = @ + 1] /\ UNCHANGED pc
    /\ UNCHANGED <<ILINK_LOCK, dbLookup, stderrfile, state, call, ret>>

At(t, step, op) == pc[t] = step /\ call[t].op = op

\* The function returns: the caller has the answer, the locals are gone.
Return(t) ==
    /\ pc' = [pc EXCEPT ![t] = "idle"]
    /\ call' = [call EXCEPT ![t] = NoCall]
    /\ link' = [link EXCEPT ![t] = 1]
    /\ ret' = [ret EXCEPT ![t] = "none"]

\* The function has its answer and releases the lock next.
Answer(t, code) ==
    /\ ret' = [ret EXCEPT ![t] = code]
    /\ pc' = [pc EXCEPT ![t] = "unlock"]
    /\ UNCHANGED <<ILINK_LOCK, call, link>>

Unlock(t) ==
    /\ pc[t] = "unlock"
    /\ ILINK_LOCK' = NULL
    /\ Return(t)
    /\ UNCHANGED <<dbLookup, stderrfile, state>>

-----------------------------------------------------------------------------
\* create

CreateExists(t) ==
    /\ At(t, "found", "create")
    /\ Answer(t, "DB_EXISTS")
    /\ UNCHANGED <<dbLookup, stderrfile, state>>

\* error.log, opened once, cannot be opened.
CreateNoErrorFile(t) ==
    /\ At(t, "absent", "create") /\ ~stderrfile
    /\ Answer(t, "FAILURE")
    /\ UNCHANGED <<dbLookup, stderrfile, state>>

\* The default branch of the switch returns without releasing the lock.
CreateBadType(t) ==
    /\ At(t, "absent", "create") /\ call[t].type \notin KeyTypes
    /\ stderrfile' = TRUE
    /\ Return(t)
    /\ UNCHANGED <<ILINK_LOCK, dbLookup, state>>

\* Fault model: the type is not looked at.
CreateLinkAnyType(t) ==
    /\ At(t, "absent", "create")
    /\ stderrfile' = TRUE
    /\ dbLookup' = Append(dbLookup, [name |-> call[t].name, type |-> call[t].type,
                                     numOpenThreads |-> 0])
    /\ Answer(t, "SUCCESS")
    /\ UNCHANGED state

CreateLink(t) ==
    /\ At(t, "absent", "create") /\ call[t].type \in KeyTypes
    /\ stderrfile' = TRUE
    /\ dbLookup' = Append(dbLookup, [name |-> call[t].name, type |-> call[t].type,
                                     numOpenThreads |-> 0])
    /\ Answer(t, "SUCCESS")
    /\ UNCHANGED state

-----------------------------------------------------------------------------
\* openIndex

\* Fault model: an index that was never created is opened.
OpenUncreated(t) ==
    /\ At(t, "absent", "open")
    /\ state' = [state EXCEPT ![t][call[t].name] =
                    [status |-> "open", nbt |-> 0, type |-> call[t].type]]
    /\ Answer(t, "SUCCESS")
    /\ UNCHANGED <<dbLookup, stderrfile>>

OpenAbsent(t) ==
    /\ At(t, "absent", "open")
    /\ Answer(t, "DB_DNE")
    /\ UNCHANGED <<dbLookup, stderrfile, state>>

Count(t, n) == dbLookup' = [dbLookup EXCEPT ![link[t]].numOpenThreads = n]

\* The first opener gets an index state; it keeps the name and the type of the link.
OpenFirst(t) ==
    /\ At(t, "found", "open") /\ dbLookup[link[t]].numOpenThreads + 1 = 1
    /\ Count(t, 1)
    /\ state' = [state EXCEPT ![t][call[t].name] =
                    [status |-> "open", nbt |-> link[t], type |-> dbLookup[link[t]].type]]
    /\ Answer(t, "SUCCESS")
    /\ UNCHANGED stderrfile

\* Fault model: every opener gets an index state.
OpenShared(t) ==
    /\ At(t, "found", "open") /\ dbLookup[link[t]].numOpenThreads + 1 # 1
    /\ Count(t, dbLookup[link[t]].numOpenThreads + 1)
    /\ state' = [state EXCEPT ![t][call[t].name] =
                    [status |-> "open", nbt |-> link[t], type |-> dbLookup[link[t]].type]]
    /\ Answer(t, "SUCCESS")
    /\ UNCHANGED stderrfile

\* Any further opener is counted all the same.
OpenRefused(t) ==
    /\ At(t, "found", "open") /\ dbLookup[link[t]].numOpenThreads + 1 # 1
    /\ Count(t, dbLookup[link[t]].numOpenThreads + 1)
    /\ Answer(t, "FAILURE")
    /\ UNCHANGED <<stderrfile, state>>

-----------------------------------------------------------------------------
\* closeIndex

\* Fault model: the opener is not taken off the count.
CloseUncounted(t) ==
    /\ At(t, "found", "close")
    /\ state' = [state EXCEPT ![t][call[t].name].status = "closed",
                              ![t][call[t].name].nbt = 0]
    /\ Answer(t, "SUCCESS")
    /\ UNCHANGED <<dbLookup, stderrfile>>

\* The link is found by the name in the index state (CloseFindsLink: the branch that
\* returns DB_DNE is dead); its count does not go below 0.
Close(t) ==
    /\ At(t, "found", "close")
    /\ LET n == dbLookup[link[t]].numOpenThreads - 1
       IN  Count(t, IF n < 0 THEN 0 ELSE n)
    /\ state' = [state EXCEPT ![t][call[t].name].status = "closed",
                              ![t][call[t].name].nbt = 0]
    /\ Answer(t, "SUCCESS")
    /\ UNCHANGED stderrfile

-----------------------------------------------------------------------------
Calls(t) ==
    \E n \in Names :
        \/ \E type \in KeyTypes \cup OtherTypes : CallCreate(t, n, type)
        \/ CallOpen(t, n)
        \/ CallClose(t, n)

\* What a thread does while it holds the lock.
Body(t) ==
    \/ Search(t)
    \/ CreateExists(t) \/ CreateNoErrorFile(t) \/ CreateBadType(t) \/ CreateLink(t)
    \/ OpenAbsent(t) \/ OpenFirst(t) \/ OpenRefused(t)
    \/ Close(t)
    \/ Unlock(t)

Next == \E t \in Threads : Calls(t) \/ Lock(t) \/ Body(t)

Spec == Init /\ [][Next]_vars

\* A thread that holds the lock is scheduled and does not stop inside the function.
\* Nothing is assumed of who gets a mutex that several threads wait for.
FairSpec == Spec /\ \A t \in Threads : WF_vars(Body(t))

-----------------------------------------------------------------------------
TypeOK ==
    /\ ILINK_LOCK \in Threads \cup {NULL}
    /\ dbLookup \in Seq(DBLink)
    /\ stderrfile \in BOOLEAN
    /\ state \in [Threads -> [Names -> {NoState} \cup STXDBState]]
    /\ pc \in [Threads -> {"idle", "lock"} \cup Critical]
    /\ call \in [Threads -> {NoCall} \cup Call]
    /\ link \in [Threads -> Nat \ {0}]
    /\ ret \in [Threads -> ErrCode]

\* Only the thread that holds ILINK_LOCK is between pthread_mutex_lock and _unlock.
MutualExclusion == \A t \in Threads : pc[t] \in Critical => ILINK_LOCK = t

\* create looks a name up and appends it in two steps: two threads that create the same
\* name at the same time still leave one link of that name.
UniqueNames ==
    \A i, j \in DOMAIN dbLookup : dbLookup[i].name = dbLookup[j].name => i = j

Open(t, n) == state[t][n].status = "open"

\* An open index state leads to the tree of its own name and knows the key type of that
\* tree: get and insertRecord cast nbt by state->type.
StateMatchesLink ==
    \A t \in Threads, n \in Names :
        Open(t, n) => /\ state[t][n].nbt \in DOMAIN dbLookup
                      /\ dbLookup[state[t][n].nbt].name = n
                      /\ dbLookup[state[t][n].nbt].type = state[t][n].type

\* closeIndex finds the link of every state a caller can pass: links are never removed,
\* and a state exists only for a name that is in the list.
CloseFindsLink == \A t \in Threads : ~At(t, "absent", "close")

\* The trees have no lock of their own: as long as callers close only what they have
\* open, no two threads have the same index open, through refused openings and all.  It
\* is openIndex that pays for it: it refuses the second thread, which src/server.h and
\* src/unittests.c want to be let in (AnyThreadOpens).
ExclusiveOpen ==
    \A t, u \in Threads, n \in Names : Open(t, n) /\ Open(u, n) => t = u

\* A call that has got the lock returns, whatever it finds and whatever the others do.
LockedCallsReturn == \A t \in Threads : pc[t] \in Critical ~> pc[t] = "idle"

-----------------------------------------------------------------------------
\* What src/server.h and src/unittests.c say and the code does not do.

\* "Creates a new index data structure to be used by any thread" (create), and
\* src/unittests.c opens primary_index in its main thread and, at the same time, in the
\* thread of test_transaction_func, and gives up if either answer is not SUCCESS: that
\* others have an index open is no reason to refuse it to a thread.
AnyThreadOpens ==
    \A t \in Threads :
        At(t, "unlock", "open") /\ ret[t] = "FAILURE" => Open(t, call[t].name)

\* The same promise, with less of it: openIndex refuses an index only while some thread
\* has it open.
RefusedOnlyWhileOpen ==
    \A t \in Threads :
        At(t, "unlock", "open") /\ ret[t] = "FAILURE"
            => \E u \in Threads : Open(u, call[t].name)

\* "FAILURE if could not create index for some other reason" (create): a call that has
\* returned, whatever its answer, has given the lock back.
NoLockAfterReturn == \A t \in Threads : pc[t] = "idle" => ILINK_LOCK # t

\* "DB_DNE is the DB never existed or was already closed" (closeIndex): closing succeeds
\* only on an open state.
CloseNeedsOpen ==
    [][\A t \in Threads :
          At(t, "found", "close") /\ ret'[t] = "SUCCESS" /\ pc'[t] = "unlock"
              => Open(t, call[t].name)]_vars
=============================================================================
