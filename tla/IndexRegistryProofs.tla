------------------------ MODULE IndexRegistryProofs ------------------------
(***************************************************************************)
(* The index registry keeps its types, its lock excludes, no two links      *)
(* share a name, states lead to the links of their names and, if callers    *)
(* close only what they have open, no two threads have the same index open  *)
(* and the list implements the directory: for any threads, names and key    *)
(* types, and any number of openings.                                       *)
(***************************************************************************)
EXTENDS IndexDirectory, SequenceTheorems, TLAPS

\* What a thread has learnt in its search stays true while it holds the lock.
Searched ==
    \A t \in Threads :
        /\ pc[t] \in {"idle", "lock"} => link[t] = 1
        /\ pc[t] = "search" =>
              \A i \in DOMAIN dbLookup : i < link[t] => dbLookup[i].name # call[t].name
        /\ pc[t] = "absent" => \A i \in DOMAIN dbLookup : dbLookup[i].name # call[t].name
        /\ pc[t] = "found"  => /\ link[t] \in DOMAIN dbLookup
                               /\ dbLookup[link[t]].name = call[t].name

InCall == \A t \in Threads : pc[t] # "idle" => call[t] \in Call

\* An index state is only ever made for a name in the list, and closeIndex is called
\* with an index state.
Registered ==
    \A t \in Threads :
        /\ \A n \in Names :
              state[t][n] # NoState => \E i \in DOMAIN dbLookup : dbLookup[i].name = n
        /\ pc[t] \in {"lock", "search", "found", "absent"} /\ call[t].op = "close"
              => state[t][call[t].name] \in STXDBState

\* The invariant behind the lock, the search and the list, whatever callers close.
Base ==
    /\ TypeOK
    /\ MutualExclusion
    /\ InCall
    /\ Searched
    /\ UniqueNames
    /\ Registered

\* Inside closeIndex, up to the count, the index is open.
Closing ==
    \A t \in Threads :
        pc[t] \in {"lock", "search", "found", "absent"} /\ call[t].op = "close"
            => Open(t, call[t].name)

\* A link that some state is open on is counted, and no count is negative.
Counted ==
    /\ \A i \in DOMAIN dbLookup : dbLookup[i].numOpenThreads >= 0
    /\ \A t \in Threads, n \in Names :
          Open(t, n) => dbLookup[state[t][n].nbt].numOpenThreads >= 1

\* The invariant behind exclusive opening.
Opening ==
    /\ StateMatchesLink
    /\ Counted
    /\ Closing
    /\ ExclusiveOpen

-----------------------------------------------------------------------------
\* Counting at one link leaves the names and types of all.
LEMMA CountLink ==
    ASSUME NEW s \in Seq(DBLink), NEW i \in DOMAIN s, NEW c \in Int,
           NEW r, r = [s EXCEPT ![i].numOpenThreads = c]
    PROVE  /\ r \in Seq(DBLink) /\ DOMAIN r = DOMAIN s
           /\ \A j \in DOMAIN s :
                 /\ r[j].name = s[j].name /\ r[j].type = s[j].type
                 /\ r[j].numOpenThreads = IF j = i THEN c ELSE s[j].numOpenThreads
<1>1. s[i] \in DBLink
  BY ElementOfSeq, LenProperties
<1>2. [s[i] EXCEPT !.numOpenThreads = c] \in DBLink
  BY <1>1 DEF DBLink
<1>3. r = [s EXCEPT ![i] = [s[i] EXCEPT !.numOpenThreads = c]]
  OBVIOUS
<1>4. r \in Seq(DBLink) /\ DOMAIN r = DOMAIN s
  BY <1>2, <1>3, ExceptSeq, LenProperties
<1>5. \A j \in DOMAIN s : s[j] \in DBLink
  BY ElementOfSeq, LenProperties
<1>6. \A j \in DOMAIN s : r[j] = IF j = i THEN [s[i] EXCEPT !.numOpenThreads = c] ELSE s[j]
  BY <1>3
<1> QED
  BY <1>1, <1>4, <1>5, <1>6 DEF DBLink

\* Appending a link leaves the links that were there where they were.
LEMMA AppendLink ==
    ASSUME NEW s \in Seq(DBLink), NEW l \in DBLink, NEW r, r = Append(s, l)
    PROVE  /\ r \in Seq(DBLink) /\ DOMAIN r = DOMAIN s \cup {Len(s) + 1}
           /\ \A j \in DOMAIN s : r[j] = s[j] /\ j < Len(s) + 1
           /\ r[Len(s) + 1] = l
<1>1. /\ r \in Seq(DBLink) /\ Len(r) = Len(s) + 1
      /\ \A j \in 1 .. Len(s) : r[j] = s[j]
      /\ r[Len(s) + 1] = l
  BY AppendProperties
<1>2. DOMAIN s = 1 .. Len(s) /\ DOMAIN r = 1 .. Len(r) /\ Len(s) \in Nat
  BY <1>1, LenProperties
<1> QED
  BY <1>1, <1>2

-----------------------------------------------------------------------------
\* The empty list.
LEMMA BaseInit == Init => Base
<1> SUFFICES ASSUME Init PROVE Base
  OBVIOUS
<1>1. TypeOK
  <2>1. dbLookup \in Seq(DBLink) /\ stderrfile \in BOOLEAN
    BY EmptySeq DEF Init
  <2>2. ILINK_LOCK \in Threads \cup {NULL}
    BY DEF Init
  <2>3. /\ state \in [Threads -> [Names -> {NoState} \cup STXDBState]]
        /\ pc \in [Threads -> {"idle", "lock"} \cup Critical]
        /\ call \in [Threads -> {NoCall} \cup Call]
        /\ link \in [Threads -> Nat \ {0}]
        /\ ret \in [Threads -> ErrCode]
    BY DEF Init, ErrCode
  <2> QED
    BY <2>1, <2>2, <2>3 DEF TypeOK
<1>2. MutualExclusion /\ InCall /\ Searched
  BY DEF Init, MutualExclusion, InCall, Searched, Critical
<1>3. UniqueNames /\ Registered
  BY DEF Init, UniqueNames, Registered
<1> QED
  BY <1>1, <1>2, <1>3 DEF Base

\* A call begins: nothing but the thread's own pc and call changes.
LEMMA BaseStart ==
    ASSUME Base, NEW t \in Threads, NEW c \in Call, Start(t, c),
           c.op = "close" => state[t][c.name] \in STXDBState
    PROVE  Base'
<1> USE DEF Base, Start
<1>1. TypeOK'
  BY DEF TypeOK
<1>2. MutualExclusion' /\ InCall'
  BY DEF TypeOK, MutualExclusion, InCall, Critical
<1>3. Searched' /\ UniqueNames'
  BY DEF TypeOK, Searched, UniqueNames
<1>4. Registered'
  BY DEF TypeOK, Registered
<1> QED
  BY <1>1, <1>2, <1>3, <1>4

\* A thread that gets the lock has learnt nothing yet.
LEMMA BaseLock ==
    ASSUME Base, NEW t \in Threads, Lock(t)
    PROVE  Base'
<1> USE DEF Base, Lock
<1>1. TypeOK'
  <2>1. ILINK_LOCK' \in Threads \cup {NULL}
    OBVIOUS
  <2>2. pc' \in [Threads -> {"idle", "lock"} \cup Critical]
    BY DEF TypeOK, Critical
  <2>3. /\ dbLookup' \in Seq(DBLink) /\ stderrfile' \in BOOLEAN
        /\ state' \in [Threads -> [Names -> {NoState} \cup STXDBState]]
    BY DEF TypeOK
  <2>4. /\ call' \in [Threads -> {NoCall} \cup Call]
        /\ link' \in [Threads -> Nat \ {0}]
        /\ ret' \in [Threads -> ErrCode]
    BY DEF TypeOK
  <2> QED
    BY <2>1, <2>2, <2>3, <2>4 DEF TypeOK
<1>2. MutualExclusion' /\ InCall'
  BY ThreadsAssumption DEF TypeOK, MutualExclusion, InCall, Critical
<1>3. Searched'
  <2>1. \A i \in DOMAIN dbLookup : ~(i < 1)
    BY LenProperties DEF TypeOK
  <2> QED
    BY <2>1 DEF TypeOK, Searched
<1>4. UniqueNames'
  BY DEF UniqueNames
<1>5. Registered'
  BY DEF TypeOK, Registered
<1> QED
  BY <1>1, <1>2, <1>3, <1>4, <1>5

\* The cursor passes only links of other names, and stops at one of the name or past
\* the last.
LEMMA BaseSearch ==
    ASSUME Base, NEW t \in Threads, Search(t)
    PROVE  Base'
<1> USE DEF Base, Search
<1>1. TypeOK'
  <2>1. PICK step \in {"idle", "lock"} \cup Critical : pc' = [pc EXCEPT ![t] = step]
    <3>1. pc[t] \in {"idle", "lock"} \cup Critical /\ pc = [pc EXCEPT ![t] = pc[t]]
      BY DEF TypeOK
    <3> QED
      BY <3>1 DEF Critical
  <2>2. PICK i \in Nat \ {0} : link' = [link EXCEPT ![t] = i]
    <3>1. link[t] \in Nat \ {0} /\ link[t] + 1 \in Nat \ {0} /\ link = [link EXCEPT ![t] = link[t]]
      BY DEF TypeOK
    <3> QED
      BY <3>1
  <2>3. pc' \in [Threads -> {"idle", "lock"} \cup Critical]
    BY <2>1 DEF TypeOK
  <2>4. link' \in [Threads -> Nat \ {0}]
    BY <2>2 DEF TypeOK
  <2> QED
    BY <2>3, <2>4 DEF TypeOK
<1>2. MutualExclusion' /\ InCall'
  BY DEF TypeOK, MutualExclusion, InCall, Critical
<1>3. Searched'
  <2>1. \A i \in DOMAIN dbLookup : i \in Nat /\ (link[t] \notin DOMAIN dbLookup => i < link[t])
    BY LenProperties DEF TypeOK
  <2>2. \A i \in Nat : i < link[t] + 1 => i < link[t] \/ i = link[t]
    BY DEF TypeOK
  <2>3. CASE link[t] \notin DOMAIN dbLookup
    BY <2>1, <2>3 DEF TypeOK, Searched
  <2>4. CASE link[t] \in DOMAIN dbLookup /\ dbLookup[link[t]].name = call[t].name
    BY <2>4 DEF TypeOK, Searched
  <2>5. CASE link[t] \in DOMAIN dbLookup /\ dbLookup[link[t]].name # call[t].name
    BY <2>1, <2>2, <2>5 DEF TypeOK, Searched
  <2> QED
    BY <2>3, <2>4, <2>5
<1>4. UniqueNames'
  BY DEF UniqueNames
<1>5. Registered'
  BY DEF TypeOK, Registered
<1> QED
  BY <1>1, <1>2, <1>3, <1>4, <1>5

\* A return, with the lock or without, leaves the list alone.
LEMMA BaseReturn ==
    ASSUME Base, NEW t \in Threads, pc[t] \in Critical, Return(t),
           UNCHANGED <<dbLookup, state>>, stderrfile' \in BOOLEAN,
           ILINK_LOCK' \in {NULL, ILINK_LOCK}
    PROVE  Base'
<1> USE DEF Base, Return
<1>1. TypeOK'
  BY DEF TypeOK, ErrCode
<1>2. MutualExclusion' /\ InCall'
  BY DEF TypeOK, MutualExclusion, InCall, Critical
<1>3. Searched' /\ UniqueNames'
  BY DEF TypeOK, Searched, UniqueNames
<1>4. Registered'
  BY DEF TypeOK, Registered
<1> QED
  BY <1>1, <1>2, <1>3, <1>4

\* An answer that leaves the names of the list alone.
LEMMA BaseAnswer ==
    ASSUME Base, NEW t \in Threads, NEW code \in ErrCode,
           pc[t] \in Critical, Answer(t, code),
           dbLookup' \in Seq(DBLink), DOMAIN dbLookup' = DOMAIN dbLookup,
           \A i \in DOMAIN dbLookup : dbLookup'[i].name = dbLookup[i].name,
           stderrfile' \in BOOLEAN,
           state' \in [Threads -> [Names -> {NoState} \cup STXDBState]],
           \A u \in Threads, n \in Names :
              \/ state'[u][n] = state[u][n]
              \/ u = t /\ \E i \in DOMAIN dbLookup : dbLookup[i].name = n
    PROVE  Base'
<1> USE DEF Base, Answer
<1>1. TypeOK'
  BY DEF TypeOK, Critical
<1>2. MutualExclusion' /\ InCall'
  BY DEF TypeOK, MutualExclusion, InCall, Critical
<1>3. Searched'
  <2>1. pc'[t] = "unlock" /\ call' = call /\ link' = link
    BY DEF TypeOK
  <2>2. ASSUME NEW u \in Threads, u # t
        PROVE  /\ pc[u] \in {"idle", "lock"} /\ pc'[u] = pc[u]
               /\ link[u] = 1
    BY <2>2 DEF TypeOK, MutualExclusion, Critical, Searched
  <2> QED
    BY <2>1, <2>2 DEF Searched
<1>4. UniqueNames'
  BY DEF UniqueNames
<1>5. Registered'
  <2> SUFFICES ASSUME NEW u \in Threads
               PROVE  /\ \A n \in Names : state'[u][n] # NoState
                            => \E i \in DOMAIN dbLookup' : dbLookup'[i].name = n
                      /\ pc'[u] \in {"lock", "search", "found", "absent"} /\ call'[u].op = "close"
                            => state'[u][call'[u].name] \in STXDBState
    BY DEF Registered
  <2>1. ASSUME NEW n \in Names, state'[u][n] # NoState
        PROVE  \E i \in DOMAIN dbLookup' : dbLookup'[i].name = n
    <3>1. \E i \in DOMAIN dbLookup : dbLookup[i].name = n
      BY <2>1 DEF Registered
    <3> QED
      BY <3>1
  <2>2. ASSUME pc'[u] \in {"lock", "search", "found", "absent"}, call'[u].op = "close"
        PROVE  state'[u][call'[u].name] \in STXDBState
    <3>1. u # t /\ pc'[u] = pc[u] /\ call'[u] = call[u]
      BY <2>2 DEF TypeOK
    <3>2. call[u] \in Call /\ call[u].name \in Names
      BY <2>2, <3>1 DEF InCall, Call
    <3> QED
      BY <2>2, <3>1, <3>2 DEF Registered
  <2> QED
    BY <2>1, <2>2
<1> QED
  BY <1>1, <1>2, <1>3, <1>4, <1>5

\* The name of the new link is not in the list: this thread has searched it to the end,
\* and no other thread has been in it since.
LEMMA BaseCreateLink ==
    ASSUME Base, NEW t \in Threads, CreateLink(t)
    PROVE  Base'
<1> DEFINE new == [name |-> call[t].name, type |-> call[t].type, numOpenThreads |-> 0]
<1> USE DEF Base, CreateLink, At, Answer
<1>1. call[t] \in Call
  BY DEF InCall
<1>2. new \in DBLink
  BY <1>1 DEF Call, DBLink
<1>3. /\ dbLookup' \in Seq(DBLink) /\ DOMAIN dbLookup' = DOMAIN dbLookup \cup {Len(dbLookup) + 1}
      /\ \A i \in DOMAIN dbLookup : dbLookup'[i] = dbLookup[i] /\ i < Len(dbLookup) + 1
      /\ dbLookup'[Len(dbLookup) + 1] = new
  BY <1>2, AppendLink DEF TypeOK
<1>4. \A u \in Threads : u # t => pc[u] \in {"idle", "lock"} /\ pc'[u] = pc[u] /\ link'[u] = link[u]
  BY DEF TypeOK, MutualExclusion, Critical
<1>5. TypeOK'
  BY <1>3 DEF TypeOK, Critical, ErrCode
<1>6. MutualExclusion' /\ InCall'
  BY DEF TypeOK, MutualExclusion, InCall, Critical
<1>7. Searched'
  BY <1>4 DEF TypeOK, Searched
<1>8. UniqueNames'
  <2>1. \A i \in DOMAIN dbLookup : dbLookup'[i].name # new.name
    BY <1>3 DEF Searched
  <2> QED
    BY <1>3, <2>1 DEF UniqueNames
<1>9. Registered'
  BY <1>3, <1>4 DEF TypeOK, Registered
<1> QED
  BY <1>5, <1>6, <1>7, <1>8, <1>9

\* Every step keeps Base.
LEMMA BaseNext == Base /\ [Next]_vars => Base'
<1> SUFFICES ASSUME Base, [Next]_vars PROVE Base'
  OBVIOUS
<1>1. CASE UNCHANGED vars
  BY <1>1 DEF vars, Base, TypeOK, MutualExclusion, InCall, Searched, UniqueNames, Registered
<1> SUFFICES ASSUME NEW t \in Threads, Calls(t) \/ Lock(t) \/ Body(t) PROVE Base'
  BY <1>1 DEF Next
<1> USE DEF Base
<1>2. CASE Calls(t)
  <2>1. AnyType \in KeyTypes
    BY TypesAssumption DEF AnyType
  <2>2. ASSUME NEW n \in Names, NEW type \in KeyTypes \cup OtherTypes, CallCreate(t, n, type)
        PROVE  Base'
    BY <2>2, BaseStart DEF CallCreate, Call
  <2>3. ASSUME NEW n \in Names, CallOpen(t, n)
        PROVE  Base'
    BY <2>1, <2>3, BaseStart DEF CallOpen, Call
  <2>4. ASSUME NEW n \in Names, CallClose(t, n)
        PROVE  Base'
    <3>1. state[t][n].status \in {"open", "closed"}
      BY <2>4, ClosesAssumption DEF CallClose
    <3>2. state[t][n] \in STXDBState
      BY <3>1 DEF TypeOK, NoState
    <3> QED
      BY <2>1, <2>4, <3>2, BaseStart DEF CallClose, Call
  <2> QED
    BY <1>2, <2>2, <2>3, <2>4 DEF Calls
<1>3. CASE Lock(t)
  BY <1>3, BaseLock
<1>4. CASE Search(t)
  BY <1>4, BaseSearch
<1>5. CASE Unlock(t)
  BY <1>5, BaseReturn DEF Unlock, TypeOK, Critical
<1>6. CASE CreateBadType(t)
  BY <1>6, BaseReturn DEF CreateBadType, At, Critical
<1>7. CASE CreateLink(t)
  BY <1>7, BaseCreateLink
<1>8. CASE CreateExists(t) \/ CreateNoErrorFile(t) \/ OpenAbsent(t)
  <2>1. pc[t] \in Critical /\ UNCHANGED <<dbLookup, stderrfile, state>>
    BY <1>8 DEF CreateExists, CreateNoErrorFile, OpenAbsent, At, Critical
  <2>2. PICK code \in ErrCode : Answer(t, code)
    BY <1>8 DEF CreateExists, CreateNoErrorFile, OpenAbsent, ErrCode
  <2> QED
    BY <2>1, <2>2, BaseAnswer DEF TypeOK
<1>9. CASE OpenFirst(t) \/ OpenRefused(t) \/ Close(t)
  <2>1. pc[t] = "found" /\ pc[t] \in Critical
    BY <1>9 DEF OpenFirst, OpenRefused, Close, At, Critical
  <2>2. PICK code \in ErrCode : Answer(t, code)
    BY <1>9 DEF OpenFirst, OpenRefused, Close, ErrCode
  <2>3. link[t] \in DOMAIN dbLookup /\ call[t] \in Call /\ dbLookup[link[t]] \in DBLink
    BY <2>1, LenProperties, ElementOfSeq DEF Searched, InCall, TypeOK
  <2>4. PICK c \in Int : Count(t, c)
    <3>1. dbLookup[link[t]].numOpenThreads \in Int
      BY <2>3 DEF DBLink
    <3>2. CASE OpenFirst(t)
      BY <3>2 DEF OpenFirst
    <3>3. CASE OpenRefused(t)
      BY <3>1, <3>3 DEF OpenRefused
    <3>4. CASE Close(t)
      BY <3>1, <3>4 DEF Close
    <3> QED
      BY <1>9, <3>2, <3>3, <3>4
  <2>5. /\ dbLookup' \in Seq(DBLink) /\ DOMAIN dbLookup' = DOMAIN dbLookup
        /\ \A i \in DOMAIN dbLookup : dbLookup'[i].name = dbLookup[i].name
    <3>1. dbLookup \in Seq(DBLink)
      BY DEF TypeOK
    <3>2. dbLookup' = [dbLookup EXCEPT ![link[t]].numOpenThreads = c]
      BY <2>4 DEF Count
    <3>3. link[t] \in DOMAIN dbLookup
      BY <2>3
    <3> HIDE DEF Base
    <3> QED
      BY <3>1, <3>2, <3>3, CountLink
  <2>6. state' \in [Threads -> [Names -> {NoState} \cup STXDBState]]
    <3>1. CASE OpenFirst(t)
      BY <2>3, <3>1 DEF OpenFirst, TypeOK, Call, DBLink, STXDBState
    <3>2. CASE OpenRefused(t)
      BY <3>2 DEF OpenRefused, TypeOK
    <3>3. CASE Close(t)
      <4>1. call[t].name \in Names /\ state[t][call[t].name] \in STXDBState
        BY <2>1, <2>3, <3>3 DEF Close, At, Registered, Call
      <4> QED
        BY <3>3, <4>1 DEF Close, TypeOK, STXDBState
    <3> QED
      BY <1>9, <3>1, <3>2, <3>3
  <2>7. stderrfile' \in BOOLEAN
    BY <1>9 DEF OpenFirst, OpenRefused, Close, TypeOK
  <2>8. ASSUME NEW u \in Threads, NEW n \in Names
        PROVE  \/ state'[u][n] = state[u][n]
               \/ u = t /\ \E i \in DOMAIN dbLookup : dbLookup[i].name = n
    <3>1. u # t \/ n # call[t].name => state'[u][n] = state[u][n]
      BY <1>9 DEF OpenFirst, OpenRefused, Close, TypeOK
    <3> QED
      BY <2>1, <2>3, <3>1 DEF Searched
  <2> QED
    BY <2>1, <2>2, <2>5, <2>6, <2>7, <2>8, BaseAnswer
<1> QED
  BY <1>2, <1>3, <1>4, <1>5, <1>6, <1>7, <1>8, <1>9 DEF Body

\* Base is an invariant.
LEMMA BaseHolds == Spec => []Base
  BY BaseInit, BaseNext, PTL DEF Spec

-----------------------------------------------------------------------------
\* The module's variables keep their types: the list of src/bptree.cc holds links of
\* known key types only, whatever enum value create is called with.
THEOREM TypesHold == Spec => []TypeOK
<1>1. Base => TypeOK
  BY DEF Base
<1> QED
  BY <1>1, BaseHolds, PTL

\* One thread at a time is between pthread_mutex_lock and pthread_mutex_unlock.
THEOREM LockExcludes == Spec => []MutualExclusion
<1>1. Base => MutualExclusion
  BY DEF Base
<1> QED
  BY <1>1, BaseHolds, PTL

\* create, which looks a name up and appends it in two steps, never makes two links of
\* one name, however many threads create it at once.
THEOREM NamesStayUnique == Spec => []UniqueNames
<1>1. Base => UniqueNames
  BY DEF Base
<1> QED
  BY <1>1, BaseHolds, PTL

\* closeIndex always finds the link: its branch that returns DB_DNE is dead.
THEOREM CloseNeverMisses == Spec => []CloseFindsLink
<1>1. Base => CloseFindsLink
  <2> SUFFICES ASSUME Base, NEW t \in Threads, At(t, "absent", "close") PROVE FALSE
    BY DEF CloseFindsLink
  <2> USE DEF Base, At
  <2>1. call[t].name \in Names /\ state[t][call[t].name] # NoState
    BY DEF InCall, Call, Registered, NoState, STXDBState
  <2>2. PICK i \in DOMAIN dbLookup : dbLookup[i].name = call[t].name
    BY <2>1 DEF Registered
  <2> QED
    BY <2>2 DEF Searched
<1> QED
  BY <1>1, BaseHolds, PTL

-----------------------------------------------------------------------------
\* What the three steps that count do to the list.
LEMMA CountAt ==
    ASSUME Base, NEW t \in Threads, pc[t] = "found", NEW c \in Int, Count(t, c)
    PROVE  /\ link[t] \in DOMAIN dbLookup /\ dbLookup[link[t]].name = call[t].name
           /\ dbLookup[link[t]] \in DBLink
           /\ DOMAIN dbLookup' = DOMAIN dbLookup
           /\ \A j \in DOMAIN dbLookup :
                 /\ dbLookup'[j].name = dbLookup[j].name /\ dbLookup'[j].type = dbLookup[j].type
                 /\ dbLookup'[j].numOpenThreads = IF j = link[t] THEN c
                                                  ELSE dbLookup[j].numOpenThreads
<1>1. /\ dbLookup \in Seq(DBLink)
      /\ link[t] \in DOMAIN dbLookup /\ dbLookup[link[t]].name = call[t].name
  BY DEF Base, TypeOK, Searched
<1>2. dbLookup' = [dbLookup EXCEPT ![link[t]].numOpenThreads = c]
  BY DEF Count
<1>3. dbLookup[link[t]] \in DBLink
  BY <1>1, ElementOfSeq, LenProperties
<1> HIDE DEF Base
<1> QED
  BY <1>1, <1>2, <1>3, CountLink

\* What create's step does to the list.
LEMMA CreateAt ==
    ASSUME Base, NEW t \in Threads, CreateLink(t)
    PROVE  /\ DOMAIN dbLookup \subseteq DOMAIN dbLookup'
           /\ \A j \in DOMAIN dbLookup : dbLookup'[j] = dbLookup[j]
           /\ \A j \in DOMAIN dbLookup' \ DOMAIN dbLookup : dbLookup'[j].numOpenThreads = 0
<1> DEFINE new == [name |-> call[t].name, type |-> call[t].type, numOpenThreads |-> 0]
<1>1. dbLookup \in Seq(DBLink) /\ new \in DBLink /\ dbLookup' = Append(dbLookup, new)
  BY DEF Base, TypeOK, InCall, Call, DBLink, CreateLink, At
<1>2. new.numOpenThreads = 0
  OBVIOUS
<1> HIDE DEF new
<1> QED
  BY <1>1, <1>2, AppendLink

\* What closeIndex and the first opening do to the states.
LEMMA CloseState ==
    ASSUME Base, NEW t \in Threads, Close(t)
    PROVE  /\ pc[t] = "found" /\ call[t].op = "close" /\ call[t].name \in Names
           /\ \A u \in Threads, n \in Names :
                 IF u = t /\ n = call[t].name THEN state'[u][n].status = "closed"
                                              ELSE state'[u][n] = state[u][n]
<1>1. pc[t] = "found" /\ call[t].op = "close" /\ call[t].name \in Names
  BY DEF Close, At, Base, InCall, Call
<1>2. state[t][call[t].name] \in STXDBState
  BY <1>1 DEF Base, Registered
<1>3. state' = [state EXCEPT ![t][call[t].name].status = "closed",
                             ![t][call[t].name].nbt = 0]
  BY DEF Close
<1>4. \A u \in Threads, n \in Names :
         u # t \/ n # call[t].name => state'[u][n] = state[u][n]
  BY <1>1, <1>3 DEF Base, TypeOK
<1>5. state'[t][call[t].name].status = "closed"
  BY <1>1, <1>2, <1>3 DEF Base, TypeOK, STXDBState
<1> QED
  BY <1>1, <1>4, <1>5

\* The state that openIndex fills in leads to the link found.
LEMMA OpenState ==
    ASSUME Base, NEW t \in Threads, OpenFirst(t)
    PROVE  /\ pc[t] = "found" /\ call[t].name \in Names
           /\ \A u \in Threads, n \in Names :
                 IF u = t /\ n = call[t].name
                 THEN /\ Open(u, n)' /\ state'[u][n].nbt = link[t]
                      /\ state'[u][n].type = dbLookup[link[t]].type
                 ELSE state'[u][n] = state[u][n]
<1>1. pc[t] = "found" /\ call[t].name \in Names
  BY DEF OpenFirst, At, Base, InCall, Call
<1>2. state' = [state EXCEPT ![t][call[t].name] =
                   [status |-> "open", nbt |-> link[t], type |-> dbLookup[link[t]].type]]
  BY DEF OpenFirst
<1> QED
  BY <1>1, <1>2 DEF Base, TypeOK, Open

\* Only four kinds of step touch the list or a state.
LEMMA Steps ==
    ASSUME NEW t \in Threads, Calls(t) \/ Lock(t) \/ Body(t)
    PROVE  \/ UNCHANGED <<dbLookup, state>>
           \/ CreateLink(t) \/ OpenFirst(t) \/ OpenRefused(t) \/ Close(t)
  BY DEF Calls, CallCreate, CallOpen, CallClose, Start, Lock, Body, Search, Unlock,
         CreateExists, CreateNoErrorFile, CreateBadType, OpenAbsent

-----------------------------------------------------------------------------
\* Every step keeps states in agreement with their links.
LEMMA MatchNext == Base /\ StateMatchesLink /\ [Next]_vars => StateMatchesLink'
<1> SUFFICES ASSUME Base, StateMatchesLink, [Next]_vars PROVE StateMatchesLink'
  OBVIOUS
<1>1. CASE UNCHANGED vars
  BY <1>1 DEF vars, StateMatchesLink, Open
<1> SUFFICES ASSUME NEW t \in Threads, Calls(t) \/ Lock(t) \/ Body(t) PROVE StateMatchesLink'
  BY <1>1 DEF Next
<1>2. CASE UNCHANGED <<dbLookup, state>>
  BY <1>2 DEF StateMatchesLink, Open
<1>3. CASE CreateLink(t)
  <2>1. UNCHANGED state
    BY <1>3 DEF CreateLink
  <2> QED
    BY <1>3, <2>1, CreateAt DEF StateMatchesLink, Open
<1>4. CASE OpenFirst(t)
  <2>1. pc[t] = "found" /\ Count(t, 1)
    BY <1>4 DEF OpenFirst, At
  <2> SUFFICES ASSUME NEW u \in Threads, NEW n \in Names, Open(u, n)'
               PROVE  /\ state'[u][n].nbt \in DOMAIN dbLookup'
                      /\ dbLookup'[state'[u][n].nbt].name = n
                      /\ dbLookup'[state'[u][n].nbt].type = state'[u][n].type
    BY DEF StateMatchesLink
  <2>2. CASE u = t /\ n = call[t].name
    BY <1>4, <2>1, <2>2, OpenState, CountAt
  <2>3. CASE u # t \/ n # call[t].name
    BY <1>4, <2>1, <2>3, OpenState, CountAt DEF StateMatchesLink, Open
  <2> QED
    BY <2>2, <2>3
<1>5. CASE OpenRefused(t) \/ Close(t)
  <2>1. pc[t] = "found"
    BY <1>5 DEF OpenRefused, Close, At
  <2>2. dbLookup[link[t]] \in DBLink
    BY <2>1, ElementOfSeq, LenProperties DEF Base, TypeOK, Searched
  <2>3. PICK c \in Int : Count(t, c)
    <3>1. dbLookup[link[t]].numOpenThreads \in Int
      BY <2>2 DEF DBLink
    <3> QED
      BY <1>5, <3>1 DEF OpenRefused, Close
  <2>4. \A u \in Threads, n \in Names : Open(u, n)' => state'[u][n] = state[u][n]
    <3>1. CASE OpenRefused(t)
      BY <3>1 DEF OpenRefused
    <3>2. CASE Close(t)
      BY <3>2, CloseState DEF Open
    <3> QED
      BY <1>5, <3>1, <3>2
  <2> QED
    BY <2>1, <2>3, <2>4, CountAt DEF StateMatchesLink, Open
<1> QED
  BY <1>2, <1>3, <1>4, <1>5, Steps

\* The casts of get and insertRecord are right: an open state leads to the tree of its
\* own name and knows the key type of that tree, whatever callers close.
THEOREM StatesMatch == Spec => []StateMatchesLink
<1>1. Init => StateMatchesLink
  BY DEF Init, StateMatchesLink, Open, NoState
<1> QED
  BY <1>1, BaseHolds, MatchNext, PTL DEF Spec

-----------------------------------------------------------------------------
\* The counts dominate the open states, and closing is exact.

\* A step that leaves the states alone and takes nothing off a count.
LEMMA OpeningKept ==
    ASSUME Opening, UNCHANGED state, DOMAIN dbLookup \subseteq DOMAIN dbLookup',
           \A i \in DOMAIN dbLookup : /\ dbLookup[i].numOpenThreads \in Int
                                      /\ dbLookup'[i].numOpenThreads \in Int
                                      /\ dbLookup'[i].numOpenThreads >= dbLookup[i].numOpenThreads,
           \A i \in DOMAIN dbLookup' \ DOMAIN dbLookup : dbLookup'[i].numOpenThreads = 0
    PROVE  Counted' /\ ExclusiveOpen'
<1>1. ExclusiveOpen'
  BY DEF Opening, ExclusiveOpen, Open
<1>2. \A i \in DOMAIN dbLookup' : dbLookup'[i].numOpenThreads >= 0
  BY DEF Opening, Counted
<1>3. \A t \in Threads, n \in Names :
         Open(t, n)' => dbLookup'[state'[t][n].nbt].numOpenThreads >= 1
  BY DEF Opening, Counted, StateMatchesLink, Open
<1> QED
  BY <1>1, <1>2, <1>3 DEF Counted

\* The open index of the name that a thread has found is the link it has found.
LEMMA OpenAtLink ==
    ASSUME Base, StateMatchesLink, NEW t \in Threads, pc[t] = "found",
           NEW u \in Threads, NEW n \in Names, Open(u, n)
    PROVE  n = call[t].name <=> state[u][n].nbt = link[t]
  BY DEF Base, Searched, StateMatchesLink, UniqueNames

\* Callers close only what they have open.
LEMMA ClosingNext ==
    ASSUME Closes \subseteq {"open"}, Base, Closing, [Next]_vars
    PROVE  Closing'
<1>1. CASE UNCHANGED vars
  BY <1>1 DEF vars, Closing, Open
<1> SUFFICES ASSUME NEW t \in Threads, Calls(t) \/ Lock(t) \/ Body(t) PROVE Closing'
  BY <1>1 DEF Next
<1> SUFFICES ASSUME NEW u \in Threads,
                    pc'[u] \in {"lock", "search", "found", "absent"}, call'[u].op = "close"
             PROVE  Open(u, call[u].name)'
  BY DEF Closing
<1> USE DEF Closing
<1>2. CASE Calls(t)
  <2>1. PICK c \in Call : Start(t, c) /\ (c.op = "close" => Open(t, c.name))
    <3>1. AnyType \in KeyTypes
      BY TypesAssumption DEF AnyType
    <3>2. CASE \E n \in Names, type \in KeyTypes \cup OtherTypes : CallCreate(t, n, type)
      BY <3>2 DEF CallCreate, Call
    <3>3. CASE \E n \in Names : CallOpen(t, n)
      BY <3>1, <3>3 DEF CallOpen, Call
    <3>4. CASE \E n \in Names : CallClose(t, n)
      <4>1. PICK n \in Names : CallClose(t, n)
        BY <3>4
      <4> DEFINE c == [op |-> "close", name |-> n, type |-> AnyType]
      <4>2. c \in Call /\ c.name = n
        BY <3>1 DEF Call
      <4>3. Start(t, c) /\ Open(t, n)
        BY <4>1 DEF CallClose, Open
      <4> HIDE DEF c
      <4> QED
        BY <4>2, <4>3
    <3> QED
      BY <1>2, <3>2, <3>3, <3>4 DEF Calls
  <2>2. /\ UNCHANGED state
        /\ \A v \in Threads : v # t => pc'[v] = pc[v] /\ call'[v] = call[v]
        /\ call'[t] = c
    BY <2>1 DEF Start, Base, TypeOK
  <2> QED
    BY <2>1, <2>2 DEF Open
<1>3. CASE Lock(t) \/ Search(t)
  <2>1. /\ UNCHANGED <<state, call>>
        /\ pc[u] \in {"lock", "search", "found", "absent"}
    BY <1>3 DEF Lock, Search, Base, TypeOK
  <2> QED
    BY <2>1 DEF Open
<1>4. CASE u # t /\ (Body(t) /\ ~Search(t))
  <2>1. pc'[u] = pc[u] /\ call'[u] = call[u]
    BY <1>4 DEF Body, CreateExists, CreateNoErrorFile, CreateBadType, CreateLink, OpenAbsent,
                OpenFirst, OpenRefused, Close, Unlock, Answer, Return, Base, TypeOK
  <2>2. call[u].name \in Names
    BY <2>1 DEF Base, InCall, Call
  <2>3. state'[u][call[u].name] = state[u][call[u].name]
    <3>1. CASE UNCHANGED state
      BY <3>1
    <3>2. CASE OpenFirst(t)
      BY <1>4, <2>2, <3>2, OpenState
    <3>3. CASE Close(t)
      BY <1>4, <2>2, <3>3, CloseState
    <3> QED
      BY <1>4, <3>1, <3>2, <3>3, Steps DEF CreateLink, OpenRefused
  <2> QED
    BY <2>1, <2>3 DEF Open
<1>5. CASE u = t /\ (Body(t) /\ ~Search(t))
  <2>1. pc'[t] \in {"idle", "unlock"}
    BY <1>5 DEF Body, CreateExists, CreateNoErrorFile, CreateBadType, CreateLink, OpenAbsent,
                OpenFirst, OpenRefused, Close, Unlock, Answer, Return, Base, TypeOK
  <2> QED
    BY <1>5, <2>1
<1> QED
  BY <1>2, <1>3, <1>4, <1>5

\* Every step keeps Opening, if only what is open is closed.
LEMMA OpeningNext ==
    ASSUME Closes \subseteq {"open"}
    PROVE  Base /\ Opening /\ [Next]_vars => Opening'
<1> SUFFICES ASSUME Base, Opening, [Next]_vars PROVE Opening'
  OBVIOUS
<1>1. StateMatchesLink' /\ Closing'
  BY MatchNext, ClosingNext DEF Opening
<1>2. CASE UNCHANGED vars
  BY <1>1, <1>2 DEF vars, Opening, Counted, ExclusiveOpen, Open
<1> SUFFICES ASSUME NEW t \in Threads, Calls(t) \/ Lock(t) \/ Body(t)
             PROVE  Counted' /\ ExclusiveOpen'
  BY <1>1, <1>2 DEF Next, Opening
<1>3. \A i \in DOMAIN dbLookup : dbLookup[i].numOpenThreads \in Int
  <2>1. \A i \in DOMAIN dbLookup : dbLookup[i] \in DBLink
    BY ElementOfSeq, LenProperties DEF Base, TypeOK
  <2> QED
    BY <2>1 DEF DBLink
<1>4. CASE UNCHANGED <<dbLookup, state>>
  BY <1>3, <1>4, OpeningKept
<1>5. CASE CreateLink(t)
  <2>1. UNCHANGED state
    BY <1>5 DEF CreateLink
  <2> QED
    BY <1>3, <1>5, <2>1, CreateAt, OpeningKept
<1>6. CASE OpenRefused(t)
  <2>1. pc[t] = "found" /\ Count(t, dbLookup[link[t]].numOpenThreads + 1) /\ UNCHANGED state
    BY <1>6 DEF OpenRefused, At
  <2>2. link[t] \in DOMAIN dbLookup
    BY <2>1 DEF Base, Searched
  <2>3. dbLookup[link[t]].numOpenThreads + 1 \in Int
    BY <1>3, <2>2
  <2> QED
    BY <1>3, <2>1, <2>3, CountAt, OpeningKept
<1>7. CASE OpenFirst(t)
  <2>1. pc[t] = "found" /\ Count(t, 1) /\ dbLookup[link[t]].numOpenThreads + 1 = 1
    BY <1>7 DEF OpenFirst, At
  <2>2. \A u \in Threads, n \in Names : Open(u, n) => n # call[t].name
    BY <1>3, <2>1, OpenAtLink DEF Opening, Counted, StateMatchesLink
  <2>3. \A u \in Threads, n \in Names :
           Open(u, n)' => \/ u = t /\ n = call[t].name
                          \/ Open(u, n) /\ state'[u][n] = state[u][n]
    BY <1>7, OpenState DEF Open
  <2>4. ExclusiveOpen'
    BY <2>2, <2>3 DEF Opening, ExclusiveOpen
  <2>5. \A i \in DOMAIN dbLookup' : dbLookup'[i].numOpenThreads >= 0
    BY <2>1, CountAt DEF Opening, Counted
  <2>6. ASSUME NEW u \in Threads, NEW n \in Names, Open(u, n)'
        PROVE  dbLookup'[state'[u][n].nbt].numOpenThreads >= 1
    <3>1. CASE u = t /\ n = call[t].name
      BY <1>7, <2>1, <3>1, OpenState, CountAt
    <3>2. CASE Open(u, n) /\ state'[u][n] = state[u][n]
      BY <2>1, <3>2, CountAt DEF Opening, Counted, StateMatchesLink
    <3> QED
      BY <2>3, <2>6, <3>1, <3>2
  <2> QED
    BY <2>4, <2>5, <2>6 DEF Counted
<1>8. CASE Close(t)
  <2>1. pc[t] = "found" /\ call[t].op = "close" /\ call[t].name \in Names
    BY <1>8, CloseState
  <2>2. Open(t, call[t].name)
    BY <2>1 DEF Opening, Closing
  <2>3. link[t] \in DOMAIN dbLookup /\ dbLookup[link[t]].numOpenThreads \in Int
    BY <1>3, <2>1 DEF Base, Searched
  <2>4. PICK c \in Int : Count(t, c) /\ c >= 0
    BY <1>8, <2>3 DEF Close
  <2>5. \A u \in Threads, n \in Names :
           Open(u, n)' => /\ Open(u, n) /\ state'[u][n] = state[u][n]
                          /\ n # call[t].name
    <3> SUFFICES ASSUME NEW u \in Threads, NEW n \in Names, Open(u, n)'
                 PROVE  Open(u, n) /\ state'[u][n] = state[u][n] /\ n # call[t].name
      OBVIOUS
    <3>1. ~(u = t /\ n = call[t].name) /\ Open(u, n) /\ state'[u][n] = state[u][n]
      BY <1>8, CloseState DEF Open
    <3> QED
      BY <2>1, <2>2, <3>1 DEF Opening, ExclusiveOpen
  <2>6. ExclusiveOpen'
    BY <2>5 DEF Opening, ExclusiveOpen
  <2>7. \A i \in DOMAIN dbLookup' : dbLookup'[i].numOpenThreads >= 0
    BY <2>1, <2>4, CountAt DEF Opening, Counted
  <2>8. ASSUME NEW u \in Threads, NEW n \in Names, Open(u, n)'
        PROVE  dbLookup'[state'[u][n].nbt].numOpenThreads >= 1
    <3>1. Open(u, n) /\ state'[u][n] = state[u][n] /\ n # call[t].name
      BY <2>5, <2>8
    <3>2. state[u][n].nbt \in DOMAIN dbLookup /\ state[u][n].nbt # link[t]
      BY <2>1, <3>1, OpenAtLink DEF Opening, StateMatchesLink
    <3> QED
      BY <2>1, <2>4, <3>1, <3>2, CountAt DEF Opening, Counted
  <2> QED
    BY <2>6, <2>7, <2>8 DEF Counted
<1> QED
  BY <1>4, <1>5, <1>6, <1>7, <1>8, Steps

\* The count of openings, which every refused opening raises and no refused opening
\* lowers again, still keeps two threads from having one index open at once, as long as
\* callers close only what they have open: the trees need no lock of their own.  (They are
\* kept apart by refusing the second one, against what src/unittests.c asks for.)
THEOREM OpenIsExclusive ==
    ASSUME Closes \subseteq {"open"}
    PROVE  Spec => []ExclusiveOpen
<1>1. Init => Opening
  BY DEF Init, Opening, StateMatchesLink, Counted, Closing, ExclusiveOpen, Open, NoState
<1>2. Base /\ Opening /\ [Next]_vars => Opening'
  BY OpeningNext
<1>3. Opening => ExclusiveOpen
  BY DEF Opening
<1> QED
  BY <1>1, <1>2, <1>3, BaseHolds, PTL DEF Spec

-----------------------------------------------------------------------------
\* A thread has a call as long as it is in a function, and an answer when it unlocks.
Answered ==
    \A t \in Threads :
        /\ call[t] = NoCall <=> pc[t] = "idle"
        /\ pc[t] # "unlock" => ret[t] = "none"
        /\ pc[t] = "unlock" => ret[t] # "none"

\* At first nobody waits for an answer.
LEMMA AnsweredInit == Init => Answered
  BY DEF Init, Answered

\* What a step does to the part of each thread that Answered is about.
LEMMA AnsweredNext ==
    ASSUME Base, Answered, [Next]_vars
    PROVE  Answered'
<1>1. CASE UNCHANGED vars
  BY <1>1 DEF vars, Answered
<1> SUFFICES ASSUME NEW t \in Threads, Calls(t) \/ Lock(t) \/ Body(t) PROVE Answered'
  BY <1>1 DEF Next
<1>2. CASE Calls(t)
  <2>1. PICK c \in Call : Start(t, c)
    BY <1>2, TypesAssumption DEF Calls, CallCreate, CallOpen, CallClose, AnyType, Call
  <2>2. c # NoCall
    BY DEF Call, NoCall
  <2> QED
    BY <2>1, <2>2 DEF Start, Answered, Base, TypeOK
<1>3. CASE Lock(t) \/ Search(t)
  BY <1>3 DEF Lock, Search, Answered, Base, TypeOK
<1>4. CASE Unlock(t) \/ CreateBadType(t)
  BY <1>4 DEF Unlock, CreateBadType, Return, Answered, Base, TypeOK
<1>5. CASE Body(t) /\ ~Search(t) /\ ~Unlock(t) /\ ~CreateBadType(t)
  <2>1. pc[t] \in {"found", "absent"} /\ \E code \in ErrCode \ {"none"} : Answer(t, code)
    BY <1>5 DEF Body, At, CreateExists, CreateNoErrorFile, CreateLink, OpenAbsent, OpenFirst,
                OpenRefused, Close, ErrCode
  <2> QED
    BY <2>1 DEF Answer, Answered, Base, TypeOK
<1> QED
  BY <1>2, <1>3, <1>4, <1>5 DEF Body

-----------------------------------------------------------------------------
\* The owner of an index that is open is the thread that has it open.
LEMMA OwnerOpen ==
    ASSUME ExclusiveOpen, NEW t \in Threads, NEW n \in Names, Open(t, n)
    PROVE  Owner(n) = t
<1>1. \A u \in Threads : Open(u, n) => u = t
  BY DEF ExclusiveOpen
<1> QED
  BY <1>1 DEF Owner

\* What nobody has open has no owner.
LEMMA OwnerNone ==
    ASSUME NEW n, \A t \in Threads : ~Open(t, n)
    PROVE  Owner(n) = NULL
  BY DEF Owner

\* After a step, who has an index open is its owner.
LEMMA OwnerOpenNext ==
    ASSUME ExclusiveOpen', NEW t \in Threads, NEW n \in Names, Open(t, n)'
    PROVE  Owner(n)' = t
<1>1. \A u \in Threads : Open(u, n)' => u = t
  BY DEF ExclusiveOpen
<1> QED
  BY <1>1 DEF Owner

\* After a step, what nobody has open has no owner.
LEMMA OwnerNoneNext ==
    ASSUME NEW n, \A t \in Threads : ~Open(t, n)'
    PROVE  Owner(n)' = NULL
  BY DEF Owner

\* A step after which the same indexes of a name are open leaves its owner.
LEMMA OwnerKept ==
    ASSUME ExclusiveOpen, ExclusiveOpen', NEW n \in Names,
           \A t \in Threads : Open(t, n)' <=> Open(t, n)
    PROVE  Owner(n)' = Owner(n)
<1>1. CASE \E t \in Threads : Open(t, n)
  BY <1>1, OwnerOpen, OwnerOpenNext
<1>2. CASE \A t \in Threads : ~Open(t, n)
  BY <1>2, OwnerNone, OwnerNoneNext
<1> QED
  BY <1>1, <1>2

\* A step that leaves the states alone leaves the owners.
LEMMA OwnersKept ==
    ASSUME ExclusiveOpen, ExclusiveOpen', UNCHANGED state
    PROVE  Owners' = Owners
<1>1. \A n \in Names : Owner(n)' = Owner(n)
  BY OwnerKept DEF Open
<1> QED
  BY <1>1 DEF Owners

-----------------------------------------------------------------------------
\* A name has an index in the directory when it has a link in the list.
LEMMA ExistsIsListed ==
    ASSUME Base, NEW n
    PROVE  Dir!Exists(n) <=> \E i \in DOMAIN dbLookup : dbLookup[i].name = n
<1>1. \A i \in DOMAIN dbLookup : dbLookup[i] \in DBLink
  BY ElementOfSeq, LenProperties DEF Base, TypeOK
<1> QED
  BY <1>1 DEF Dir!Exists, Indexes, DBLink

\* Counting openers leaves the indexes.
LEMMA CountKeepsIndexes ==
    ASSUME Base, NEW t \in Threads, pc[t] = "found", NEW c \in Int, Count(t, c)
    PROVE  Indexes' = Indexes
  BY CountAt DEF Indexes

\* The append of create adds one index.
LEMMA CreateAddsIndex ==
    ASSUME Base, NEW t \in Threads, CreateLink(t)
    PROVE  Indexes' = Indexes \cup {<<call[t].name, call[t].type>>}
<1> DEFINE new == [name |-> call[t].name, type |-> call[t].type, numOpenThreads |-> 0]
<1>1. dbLookup \in Seq(DBLink) /\ new \in DBLink /\ dbLookup' = Append(dbLookup, new)
  BY DEF Base, TypeOK, InCall, Call, DBLink, CreateLink, At
<1>2. new.name = call[t].name /\ new.type = call[t].type
  OBVIOUS
<1> HIDE DEF new
<1>3. /\ DOMAIN dbLookup' = DOMAIN dbLookup \cup {Len(dbLookup) + 1}
      /\ \A j \in DOMAIN dbLookup : dbLookup'[j] = dbLookup[j]
      /\ dbLookup'[Len(dbLookup) + 1] = new
  BY <1>1, AppendLink
<1> QED
  BY <1>2, <1>3 DEF Indexes

-----------------------------------------------------------------------------
\* A name is refused if the count of its link is more than its owner.
LEMMA RefusedIs ==
    ASSUME Base, NEW i \in DOMAIN dbLookup, NEW n \in Names, dbLookup[i].name = n
    PROVE  n \in Refused <=> dbLookup[i].numOpenThreads > Owned(n)
<1>1. \A j \in DOMAIN dbLookup : dbLookup[j].name = n => j = i
  BY DEF Base, UniqueNames
<1> QED
  BY <1>1 DEF Refused

\* A step that leaves the states alone, and the counts of the links that were there, and
\* gives a new link no opener, leaves who is refused.
LEMMA RefusedKept ==
    ASSUME UNCHANGED state, DOMAIN dbLookup \subseteq DOMAIN dbLookup',
           \A j \in DOMAIN dbLookup : dbLookup'[j] = dbLookup[j],
           \A j \in DOMAIN dbLookup' \ DOMAIN dbLookup : dbLookup'[j].numOpenThreads = 0
    PROVE  Refused' = Refused
<1>1. ASSUME NEW n \in Names PROVE Owned(n)' = Owned(n) /\ Owned(n) \in {0, 1}
  BY DEF Owned, Open
<1>2. ASSUME NEW n \in Names, NEW j \in DOMAIN dbLookup',
             dbLookup'[j].numOpenThreads > Owned(n)'
      PROVE  j \in DOMAIN dbLookup
  BY <1>1, <1>2
<1> QED
  BY <1>1, <1>2 DEF Refused

\* After a step of a thread that counts at its link, that link decides whether its name is
\* refused, and nothing changes for the names whose states the step leaves alone.
LEMMA RefusedAt ==
    ASSUME Base, NEW t \in Threads, pc[t] = "found", call[t].name \in Names,
           NEW c \in Int, Count(t, c),
           \A n \in Names : n # call[t].name => Owned(n)' = Owned(n),
           NEW o \in 0 .. 1,
           o = 1 <=> \E u \in Threads : state'[u][call[t].name].status = "open"
    PROVE  /\ Refused \subseteq Names /\ Refused' \subseteq Names
           /\ \A n \in Names : n # call[t].name => (n \in Refused' <=> n \in Refused)
           /\ call[t].name \in Refused' <=> c > o
           /\ call[t].name \in Refused
                <=> dbLookup[link[t]].numOpenThreads > Owned(call[t].name)
<1> DEFINE m == call[t].name
           i == link[t]
<1>1. /\ i \in DOMAIN dbLookup /\ dbLookup[i].name = m
      /\ DOMAIN dbLookup' = DOMAIN dbLookup
      /\ \A j \in DOMAIN dbLookup :
            /\ dbLookup'[j].name = dbLookup[j].name
            /\ dbLookup'[j].numOpenThreads = IF j = i THEN c ELSE dbLookup[j].numOpenThreads
  BY CountAt
<1>2. m \in Refused <=> dbLookup[i].numOpenThreads > Owned(m)
  BY <1>1, RefusedIs
<1>3. \A j \in DOMAIN dbLookup : dbLookup[j].name = m => j = i
  BY <1>1 DEF Base, UniqueNames
<1>4. \A n \in Names :
         n \in Refused' <=> \E j \in DOMAIN dbLookup :
             /\ dbLookup[j].name = n
             /\ (IF j = i THEN c ELSE dbLookup[j].numOpenThreads) >
                    (IF \E u \in Threads : state'[u][n].status = "open" THEN 1 ELSE 0)
  BY <1>1 DEF Refused, Owned, Open
<1>5. ASSUME NEW n \in Names, n # m PROVE n \in Refused' <=> n \in Refused
  <2>1. (IF \E u \in Threads : state'[u][n].status = "open" THEN 1 ELSE 0) = Owned(n)
    BY <1>5 DEF Owned, Open
  <2>2. \A j \in DOMAIN dbLookup : dbLookup[j].name = n => j # i
    BY <1>1, <1>5
  <2> QED
    BY <1>4, <2>1, <2>2 DEF Refused
<1>6. m \in Refused' <=> c > o
  <2>1. (IF \E u \in Threads : state'[u][m].status = "open" THEN 1 ELSE 0) = o
    OBVIOUS
  <2> QED
    BY <1>1, <1>3, <1>4, <2>1
<1>7. Refused \subseteq Names /\ Refused' \subseteq Names
  BY DEF Refused
<1> QED
  BY <1>2, <1>5, <1>6, <1>7

-----------------------------------------------------------------------------
\* The empty list is the empty directory.
LEMMA DirectoryInit == Init => Dir!Init
<1> SUFFICES ASSUME Init PROVE Dir!Init
  OBVIOUS
<1>1. Indexes = {}
  BY DEF Init, Indexes
<1>2. \A n \in Names : Owner(n) = NULL
  BY OwnerNone DEF Init, Open, NoState
<1>3. Refused = {}
  BY DEF Init, Refused
<1> QED
  BY <1>1, <1>2, <1>3 DEF Init, Dir!Init, Owners

\* The first opener finds the index without an owner.
LEMMA OpenFirstFree ==
    ASSUME Base, Opening, NEW t \in Threads, OpenFirst(t)
    PROVE  \A u \in Threads : ~Open(u, call[t].name)
<1>1. pc[t] = "found" /\ dbLookup[link[t]].numOpenThreads + 1 = 1 /\ call[t].name \in Names
  BY DEF OpenFirst, At, Base, InCall, Call
<1>2. link[t] \in DOMAIN dbLookup
  BY <1>1 DEF Base, Searched
<1>3. dbLookup[link[t]].numOpenThreads \in Int
  <2>1. dbLookup[link[t]] \in DBLink
    BY <1>2, ElementOfSeq, LenProperties DEF Base, TypeOK
  <2> QED
    BY <2>1 DEF DBLink
<1> QED
  BY <1>1, <1>2, <1>3, OpenAtLink DEF Opening, Counted

\* Every step of the registry is one of the directory, or none.
LEMMA DirectoryNext ==
    ASSUME Base, Opening, Opening', Answered, [Next]_vars
    PROVE  [Dir!Next]_(Dir!vars)
<1>1. ExclusiveOpen /\ ExclusiveOpen'
  BY DEF Opening
<1>0. UNCHANGED <<dbLookup, state>> => Indexes' = Indexes /\ Owners' = Owners /\ Refused' = Refused
  BY <1>1, OwnersKept, RefusedKept DEF Indexes
<1>2. CASE UNCHANGED vars
  BY <1>0, <1>2 DEF vars, Dir!vars
<1> SUFFICES ASSUME NEW t \in Threads, Calls(t) \/ Lock(t) \/ Body(t)
             PROVE  Dir!Next \/ UNCHANGED Dir!vars
  BY <1>2 DEF Next
<1>3. CASE Calls(t)
  <2>1. PICK c \in Call : Start(t, c)
    BY <1>3, TypesAssumption DEF Calls, CallCreate, CallOpen, CallClose, AnyType, Call
  <2>2. Indexes' = Indexes /\ Owners' = Owners /\ Refused' = Refused
    BY <1>0, <2>1 DEF Start
  <2>3. call[t] = NoCall
    BY <2>1 DEF Start, Answered
  <2>4. Dir!Start(t)
    BY <2>1, <2>2, <2>3 DEF Start, Dir!Start
  <2> QED
    BY <2>4 DEF Dir!Next
<1>4. CASE Lock(t) \/ Search(t)
  <2>1. UNCHANGED <<dbLookup, state, call, ret>>
    BY <1>4 DEF Lock, Search
  <2> QED
    BY <1>0, <2>1 DEF Dir!vars
<1>5. CASE Unlock(t)
  <2>1. call[t] # NoCall /\ ret[t] # "none"
    BY <1>5 DEF Unlock, Answered, Body
  <2>2. UNCHANGED <<dbLookup, state>>
    BY <1>5 DEF Unlock
  <2>3. Dir!Return(t)
    BY <1>0, <1>5, <2>1, <2>2 DEF Unlock, Return, Dir!Return
  <2> QED
    BY <2>3 DEF Dir!Next
<1>6. CASE CreateBadType(t)
  <2>1. call[t] # NoCall /\ call[t].op = "create" /\ ~Dir!Exists(call[t].name)
    BY <1>6, ExistsIsListed DEF CreateBadType, At, Answered, Base, Searched
  <2>2. UNCHANGED <<dbLookup, state>>
    BY <1>6 DEF CreateBadType
  <2>3. Dir!Return(t)
    BY <1>0, <1>6, <2>1, <2>2 DEF CreateBadType, Return, Dir!Return
  <2> QED
    BY <2>3 DEF Dir!Next
<1>7. CASE CreateExists(t) \/ CreateNoErrorFile(t) \/ OpenAbsent(t)
  <2>1. UNCHANGED <<dbLookup, state>> /\ ret[t] = "none" /\ call[t].name = call[t].name
    BY <1>7 DEF CreateExists, CreateNoErrorFile, OpenAbsent, At, Answered
  <2>2. Indexes' = Indexes /\ Owners' = Owners /\ Refused' = Refused
    BY <1>0, <2>1
  <2>3. CASE CreateExists(t)
    <3>1. Dir!Exists(call[t].name)
      BY <2>3, ExistsIsListed DEF CreateExists, At, Base, Searched
    <3>2. Dir!CreateExists(t)
      BY <2>1, <2>2, <2>3, <3>1
         DEF CreateExists, At, Answer, Dir!CreateExists, Dir!Pending, Dir!Answer
    <3> QED
      BY <3>2 DEF Dir!Next
  <2>4. CASE CreateNoErrorFile(t)
    <3>1. ~Dir!Exists(call[t].name)
      BY <2>4, ExistsIsListed DEF CreateNoErrorFile, At, Base, Searched
    <3>2. Dir!CreateFails(t)
      BY <2>1, <2>2, <2>4, <3>1
         DEF CreateNoErrorFile, At, Answer, Dir!CreateFails, Dir!Pending, Dir!Answer
    <3> QED
      BY <3>2 DEF Dir!Next
  <2>5. CASE OpenAbsent(t)
    <3>1. ~Dir!Exists(call[t].name)
      BY <2>5, ExistsIsListed DEF OpenAbsent, At, Base, Searched
    <3>2. Dir!OpenAbsent(t)
      BY <2>1, <2>2, <2>5, <3>1
         DEF OpenAbsent, At, Answer, Dir!OpenAbsent, Dir!Pending, Dir!Answer
    <3> QED
      BY <3>2 DEF Dir!Next
  <2> QED
    BY <1>7, <2>3, <2>4, <2>5
<1>8. CASE CreateLink(t)
  <2>1. UNCHANGED state /\ ret[t] = "none"
    BY <1>8 DEF CreateLink, At, Answered
  <2>2. Owners' = Owners /\ Refused' = Refused
    BY <1>1, <1>8, <2>1, OwnersKept, CreateAt, RefusedKept
  <2>3. ~Dir!Exists(call[t].name)
    BY <1>8, ExistsIsListed DEF CreateLink, At, Base, Searched
  <2>4. Dir!Create(t)
    BY <1>8, <2>1, <2>2, <2>3, CreateAddsIndex
       DEF CreateLink, At, Answer, Dir!Create, Dir!Pending, Dir!Answer
  <2> QED
    BY <2>4 DEF Dir!Next
<1>9. CASE OpenFirst(t) \/ OpenRefused(t) \/ Close(t)
  <2>1. pc[t] = "found" /\ ret[t] = "none" /\ call[t].name \in Names
    BY <1>9 DEF OpenFirst, OpenRefused, Close, At, Answered, Base, InCall, Call
  <2>2. link[t] \in DOMAIN dbLookup /\ dbLookup[link[t]].name = call[t].name
    BY <2>1 DEF Base, Searched
  <2>3. dbLookup[link[t]].numOpenThreads \in Int
    <3>1. dbLookup[link[t]] \in DBLink
      BY <2>2, ElementOfSeq, LenProperties DEF Base, TypeOK
    <3> QED
      BY <3>1 DEF DBLink
  <2>4. PICK c \in Int : Count(t, c)
    BY <1>9, <2>3 DEF OpenFirst, OpenRefused, Close
  <2>5. Indexes' = Indexes /\ Dir!Exists(call[t].name)
    BY <2>1, <2>2, <2>4, CountKeepsIndexes, ExistsIsListed
  <2>6. CASE OpenFirst(t)
    <3>1. \A u \in Threads, n \in Names :
             Open(u, n)' <=> (u = t /\ n = call[t].name) \/ Open(u, n)
      BY <2>6, OpenState, OpenFirstFree DEF Open
    <3>2. Owner(call[t].name) = NULL
      BY <2>6, OpenFirstFree, OwnerNone
    <3>3. Owner(call[t].name)' = t
      <4>1. PICK n \in Names : n = call[t].name
        BY <2>1
      <4>2. Open(t, n)'
        BY <3>1, <4>1
      <4>3. Owner(n)' = t
        BY <1>1, <4>2, OwnerOpenNext
      <4>4. call' = call
        BY <2>6 DEF OpenFirst, Answer
      <4> QED
        BY <4>1, <4>3, <4>4
    <3>4. \A n \in Names : n # call[t].name => Owner(n)' = Owner(n)
      BY <1>1, <3>1, OwnerKept
    <3>5. Owners' = [Owners EXCEPT ![call[t].name] = t]
      BY <2>1, <2>6, <3>3, <3>4 DEF Owners, OpenFirst, Answer
    <3>6. call[t].name \notin Refused /\ Refused' = Refused
      <4>1. dbLookup[link[t]].numOpenThreads = 0 /\ Count(t, 1)
        BY <2>3, <2>6 DEF OpenFirst
      <4>2. \E u \in Threads : state'[u][call[t].name].status = "open"
        BY <2>1, <2>6, OpenState DEF Open
      <4>3. \A n \in Names : n # call[t].name => Owned(n)' = Owned(n)
        BY <3>1 DEF Owned
      <4>4. Owned(call[t].name) = 0
        BY <2>6, OpenFirstFree DEF Owned
      <4>5. /\ Refused \subseteq Names /\ Refused' \subseteq Names
            /\ \A n \in Names : n # call[t].name => (n \in Refused' <=> n \in Refused)
            /\ call[t].name \in Refused' <=> 1 > 1
            /\ call[t].name \in Refused
                 <=> dbLookup[link[t]].numOpenThreads > Owned(call[t].name)
        BY <2>1, <4>1, <4>2, <4>3, RefusedAt
      <4> QED
        BY <2>1, <4>1, <4>4, <4>5
    <3>7. Dir!Open(t)
      BY <2>1, <2>5, <2>6, <3>2, <3>5, <3>6
         DEF OpenFirst, At, Answer, Owners, Dir!Open, Dir!Available, Dir!Pending, Dir!Answer
    <3> QED
      BY <3>7 DEF Dir!Next
  <2>7. CASE OpenRefused(t)
    <3> DEFINE m == call[t].name
               k == dbLookup[link[t]].numOpenThreads
    <3>1. Owners' = Owners /\ UNCHANGED state
      BY <1>1, <2>7, OwnersKept DEF OpenRefused
    <3>2. k >= 1 /\ Count(t, k + 1)
      BY <2>2, <2>3, <2>7 DEF OpenRefused, Opening, Counted
    <3>3. \A n \in Names : Owned(n)' = Owned(n)
      BY <3>1 DEF Owned, Open
    <3>4. /\ Owned(m) \in 0 .. 1
          /\ Owned(m) = 1 <=> \E u \in Threads : state'[u][m].status = "open"
      BY <3>1 DEF Owned, Open
    <3>5. /\ Refused \subseteq Names /\ Refused' \subseteq Names
          /\ \A n \in Names : n # m => (n \in Refused' <=> n \in Refused)
          /\ m \in Refused' <=> k + 1 > Owned(m)
          /\ m \in Refused <=> k > Owned(m)
      BY <2>1, <2>3, <3>2, <3>3, <3>4, RefusedAt
    <3>6. Refused' = Refused \cup {m}
      BY <2>1, <2>3, <3>2, <3>4, <3>5
    <3>7. m \in Refused \/ Owners[m] # NULL
      <4>1. CASE \E u \in Threads : Open(u, m)
        <5>1. PICK u \in Threads : Open(u, m)
          BY <4>1
        <5>2. Owner(m) = u
          BY <1>1, <2>1, <5>1, OwnerOpen
        <5> QED
          BY <2>1, <5>2, ThreadsAssumption DEF Owners
      <4>2. CASE ~\E u \in Threads : Open(u, m)
        <5>1. Owned(m) = 0
          BY <4>2 DEF Owned
        <5> QED
          BY <2>3, <3>2, <3>5, <5>1
      <4> QED
        BY <4>1, <4>2
    <3>8. Dir!OpenFails(t)
      BY <2>1, <2>5, <2>7, <3>1, <3>6, <3>7
         DEF OpenRefused, At, Answer, Dir!OpenFails, Dir!Available, Dir!Pending, Dir!Answer
    <3> QED
      BY <3>8 DEF Dir!Next
  <2>8. CASE Close(t)
    <3>1. Open(t, call[t].name)
      BY <2>1, <2>8 DEF Opening, Closing, Close, At
    <3>2. Owner(call[t].name) = t
      BY <1>1, <2>1, <3>1, OwnerOpen
    <3>3. \A u \in Threads, n \in Names :
             Open(u, n)' <=> Open(u, n) /\ ~(u = t /\ n = call[t].name)
      BY <2>8, CloseState DEF Open
    <3>4. \A u \in Threads : ~Open(u, call[t].name)'
      <4>1. call' = call
        BY <2>8 DEF Close, Answer
      <4>2. \A u \in Threads : Open(u, call[t].name) => u = t
        BY <1>1, <2>1, <3>1 DEF ExclusiveOpen
      <4> QED
        BY <2>1, <3>3, <4>1, <4>2 DEF Open
    <3>5. Owner(call[t].name)' = NULL
      BY <3>4 DEF Owner
    <3>6. \A n \in Names : n # call[t].name => Owner(n)' = Owner(n)
      BY <1>1, <3>3, OwnerKept
    <3>7. Owners' = [Owners EXCEPT ![call[t].name] = NULL]
      BY <2>1, <2>8, <3>5, <3>6 DEF Owners, Close, Answer
    <3>8. Refused' = Refused
      <4> DEFINE m == call[t].name
                 k == dbLookup[link[t]].numOpenThreads
      <4>1. k >= 1
        <5>1. state[t][m].nbt = link[t]
          BY <2>1, <3>1, OpenAtLink DEF Opening
        <5> QED
          BY <2>1, <3>1, <5>1 DEF Opening, Counted
      <4>2. Count(t, k - 1)
        BY <2>3, <2>8, <4>1 DEF Close
      <4>3. ~\E u \in Threads : state'[u][m].status = "open"
        BY <2>1, <2>8, <3>4 DEF Open, Close, Answer
      <4>4. \A n \in Names : n # m => Owned(n)' = Owned(n)
        BY <3>3 DEF Owned
      <4>5. Owned(m) = 1
        BY <3>1 DEF Owned
      <4>6. /\ Refused \subseteq Names /\ Refused' \subseteq Names
            /\ \A n \in Names : n # m => (n \in Refused' <=> n \in Refused)
            /\ m \in Refused' <=> k - 1 > 0
            /\ m \in Refused <=> k > Owned(m)
        BY <2>1, <2>3, <4>2, <4>3, <4>4, RefusedAt
      <4> QED
        BY <2>1, <2>3, <4>5, <4>6
    <3>9. Dir!Close(t)
      BY <2>1, <2>5, <2>8, <3>2, <3>7, <3>8
         DEF Close, At, Answer, Owners, Dir!Close, Dir!Pending, Dir!Answer
    <3> QED
      BY <3>9 DEF Dir!Next
  <2> QED
    BY <1>9, <2>6, <2>7, <2>8
<1> QED
  BY <1>3, <1>4, <1>5, <1>6, <1>7, <1>8, <1>9 DEF Body

\* create, openIndex and closeIndex are linearizable: with any number of threads, names,
\* types and refused openings, each call answers as if it took effect at one moment, and
\* openIndex refuses exactly when a state is open on the index or an opener was
\* refused before.
THEOREM DirectoryImplemented ==
    ASSUME Closes \subseteq {"open"}
    PROVE  Spec => ImplementsDirectory
<1>1. Init => Opening
  BY DEF Init, Opening, StateMatchesLink, Counted, Closing, ExclusiveOpen, Open, NoState
<1>2. Base /\ Opening /\ [Next]_vars => Opening'
  BY OpeningNext
<1>3. Base /\ Answered /\ [Next]_vars => Answered'
  BY AnsweredNext
<1>4. Base /\ Opening /\ Opening' /\ Answered /\ [Next]_vars => [Dir!Next]_(Dir!vars)
  BY DirectoryNext
<1> QED
  BY <1>1, <1>2, <1>3, <1>4, AnsweredInit, BaseHolds, DirectoryInit, PTL
     DEF Spec, ImplementsDirectory, Dir!Spec
=============================================================================
