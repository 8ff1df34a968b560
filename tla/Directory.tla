----------------------------- MODULE Directory -----------------------------
(***************************************************************************)
(* What create, openIndex and closeIndex are to the threads that call them: *)
(* a set of named indexes, each open to one thread at a time, until a       *)
(* second one asks.  A call takes effect at one moment between its start    *)
(* and its return.                                                          *)
(*                                                                         *)
(* The answers are those of src/server.h.  One owner at a time, and none    *)
(* after a refusal, is what the code of openIndex comes to: src/server.h    *)
(* says "to be used by any thread", and src/unittests.c opens an index in   *)
(* two threads at once (AnyThreadOpens and RefusedOnlyWhileOpen of          *)
(* IndexRegistry).                                                          *)
(***************************************************************************)
CONSTANTS Threads, Names, KeyTypes, Requests, NoCall, NULL

VARIABLES
    indexes,     \* the indexes created: pairs of name and key type
    owner,       \* the thread that has the index of each name open, or NULL
    refused,     \* the names for which an opener has been refused
    call,        \* the call each thread is in
    ret          \* the answer to it, once it has taken effect

vars == <<indexes, owner, refused, call, ret>>

Init ==
    /\ indexes = {}
    /\ owner = [n \in Names |-> NULL]
    /\ refused = {}
    /\ call = [t \in Threads |-> NoCall]
    /\ ret = [t \in Threads |-> "none"]

Exists(n) == \E type \in KeyTypes : <<n, type>> \in indexes
Available(n) == owner[n] = NULL /\ n \notin refused
Pending(t, op) == call[t].op = op /\ ret[t] = "none"
Answer(t, code) == ret' = [ret EXCEPT ![t] = code] /\ UNCHANGED call

Start(t) ==
    /\ call[t] = NoCall
    /\ \E c \in Requests : call' = [call EXCEPT ![t] = c]
    /\ UNCHANGED <<indexes, owner, refused, ret>>

Create(t) ==
    /\ Pending(t, "create") /\ ~Exists(call[t].name)
    /\ call[t].type \in KeyTypes
    /\ indexes' = indexes \cup {<<call[t].name, call[t].type>>}
    /\ Answer(t, "SUCCESS") /\ UNCHANGED <<owner, refused>>

\* "DB_EXISTS if index with specified name already exists"
CreateExists(t) ==
    /\ Pending(t, "create") /\ Exists(call[t].name)
    /\ Answer(t, "DB_EXISTS") /\ UNCHANGED <<indexes, owner, refused>>

\* An index that is available is opened, whoever asks.
Open(t) ==
    /\ Pending(t, "open") /\ Exists(call[t].name) /\ Available(call[t].name)
    /\ owner' = [owner EXCEPT ![call[t].name] = t]
    /\ Answer(t, "SUCCESS") /\ UNCHANGED <<indexes, refused>>

\* "DB_DNE if the name given does not have an associated DB"
OpenAbsent(t) ==
    /\ Pending(t, "open") /\ ~Exists(call[t].name)
    /\ Answer(t, "DB_DNE") /\ UNCHANGED <<indexes, owner, refused>>

Close(t) ==
    /\ Pending(t, "close") /\ owner[call[t].name] = t
    /\ owner' = [owner EXCEPT ![call[t].name] = NULL]
    /\ Answer(t, "SUCCESS") /\ UNCHANGED <<indexes, refused>>

\* "FAILURE if could not create index for some other reason": the call changes nothing.
CreateFails(t) ==
    /\ Pending(t, "create") /\ ~Exists(call[t].name)
    /\ Answer(t, "FAILURE") /\ UNCHANGED <<indexes, owner, refused>>

\* "FAILURE if DB exists but could not be opened for some other reason": the reasons are
\* that a thread has it open, and that another opener was refused before.
OpenFails(t) ==
    /\ Pending(t, "open") /\ Exists(call[t].name) /\ ~Available(call[t].name)
    /\ refused' = refused \cup {call[t].name}
    /\ Answer(t, "FAILURE") /\ UNCHANGED <<indexes, owner>>

\* A thread may return from a create that fails and not look at the answer.
Return(t) ==
    /\ call[t] # NoCall
    /\ ret[t] # "none" \/ (call[t].op = "create" /\ ~Exists(call[t].name))
    /\ call' = [call EXCEPT ![t] = NoCall]
    /\ ret' = [ret EXCEPT ![t] = "none"]
    /\ UNCHANGED <<indexes, owner, refused>>

Next ==
    \E t \in Threads :
        \/ Start(t) \/ Return(t)
        \/ Create(t) \/ CreateExists(t) \/ CreateFails(t)
        \/ Open(t) \/ OpenAbsent(t) \/ OpenFails(t)
        \/ Close(t)

Spec == Init /\ [][Next]_vars
=============================================================================
