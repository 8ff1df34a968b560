------------------------------ MODULE Multimap ------------------------------
(***************************************************************************)
(* What an index promises its caller (src/server.h: get, insertRecord,      *)
(* deleteRecord): a set of key/payload pairs, in which a key may have       *)
(* several payloads but a pair occurs once.  A caller makes one call at a   *)
(* time; the call takes effect at one moment, when it is answered.          *)
(***************************************************************************)
CONSTANTS Keys, Payloads, EmptyData, NoCall, NoResult

VARIABLES
    contents,    \* the pairs in the index
    busy,        \* a call has been made and not yet answered
    call,        \* the last call: operation, key and payload
    result       \* the answer to it

vars == <<contents, busy, call, result>>

Ops   == {"insert", "erase", "delete_pair", "get"}
Calls == [op : Ops, key : Keys, data : Payloads \cup {EmptyData}]

Init ==
    /\ contents = {}
    /\ busy = FALSE
    /\ call = NoCall
    /\ result = NoResult

Answer(c, d) == result' = [code |-> c, data |-> d]

\* "An identical key can be used multiple times, but only with unique payloads."
Insert(c) ==
    /\ c.op = "insert"
    /\ IF <<c.key, c.data>> \in contents
       THEN Answer("duplicate", EmptyData) /\ UNCHANGED contents
       ELSE Answer("ok", EmptyData) /\ contents' = contents \cup {<<c.key, c.data>>}

\* One of the pairs with the key goes; of a pair, exactly that one.
Remove(c) ==
    LET matching == {p \in contents : p[1] = c.key
                                      /\ (c.op = "delete_pair" => p[2] = c.data)}
    IN  /\ c.op \in {"erase", "delete_pair"}
        /\ IF matching = {}
           THEN Answer("absent", EmptyData) /\ UNCHANGED contents
           ELSE Answer("ok", EmptyData) /\ \E p \in matching : contents' = contents \ {p}

Get(c) ==
    LET matching == {p \in contents : p[1] = c.key}
    IN  /\ c.op = "get"
        /\ IF matching = {} THEN Answer("absent", EmptyData)
                            ELSE \E p \in matching : Answer("ok", p[2])
        /\ UNCHANGED contents

Effect(c) == Insert(c) \/ Remove(c) \/ Get(c)

Request ==
    /\ ~busy /\ busy'
    /\ call' \in Calls
    /\ result' = NoResult
    /\ UNCHANGED contents

Respond ==
    /\ busy /\ ~busy'
    /\ Effect(call)
    /\ UNCHANGED call

\* A call answered at once.
Immediate ==
    /\ ~busy /\ ~busy'
    /\ call' \in Calls
    /\ Effect(call')

Next == Request \/ Respond \/ Immediate
Spec == Init /\ [][Next]_vars
=============================================================================
