# A verification of ccpbtree

ccpbtree is a B+ tree template, `nwt::btree` (`src/src/btree.h`), and a small
library of named indexes over such trees (`src/bptree.cc`, `src/bptree.h`,
documented in `src/server.h`). This directory holds TLA+ modules that model both,
the TLC configurations that check them on small instances, and proofs about the
registry, the record calls and the tree that the TLA+ proof system checks for every
instance.

## 1. The system

| Component | State | Operations | What makes it hard |
|---|---|---|---|
| B+ tree nodes (`btree.h` 60-690) | key and data slots, `slotsinuse`, children, parent, `nextLeaf`/`prevLeaf` | slot and child insertion and removal, position searches | slots beyond `slotsinuse` keep old keys; positions are found by key, not by address; the chain of leaves is maintained as a side effect |
| B+ tree operations (`btree.h` 693-1614) | `root`, `headleaf`, `totalkeycount`, the nodes | `insert`, `erase`, `delete_pair`, `get`, `exists`; below them `find`, `insert_in_parent`, `balancetree`, `deleteInnerNode` | recursive splits and merges; long sequences of legal calls; freed nodes; indeterminate keys |
| Index registry (`bptree.cc` 15-297) | `dbLookup`, `ILINK_LOCK`, an `STXDBState` per opener | `create`, `openIndex`, `closeIndex` | threads; check-then-act; counting openers |
| Record operations (`bptree.cc` 345-611) | a cursor in each `STXDBState` | `get`, `insertRecord`, `deleteRecord` (`getNext` has no body that compiles) | they take no lock; tree and key type are read from the index state and used later |
| Transactions (`bptree.cc` 300-343) | a `TXNState` per thread | `beginTransaction`, `abortTransaction`, `commitTransaction` | only `get` ever reads a transaction, and may be given none |
| Key conversion (`bptree.cc` 24-80) | - | `p_setKeyDataFromKey` | the pointer it is to set is passed by value |
| Iterators (`btree.h` 1656-2092) | a leaf and a slot | `begin`, `end`, `++`, `--`, dereference | they cross leaves by the chain that splits and merges maintain, and check nothing |
| `speedtest.cc`, `unittests.c`, `test.cc` | - | clients | not modelled; the workloads come from `test.cc` and `unittests.c` |
| `stxbtreeint64.cc` | - | a benchmark of the third-party STX multiset | not modelled: it uses nothing of this repository |

How they interact: a client creates an index (a link in `dbLookup` with an empty
tree), opens it (an index state with a pointer to the tree), and then calls the tree
through that state. The tree has no lock. It is safe exactly as long as the registry
gives an index to one thread at a time, and that is what `ExclusiveOpen` says of the code.
It is not what the repository asks for: `src/server.h` 149 speaks of an index "to be used by
any thread", `closeIndex` counts several openers (`bptree.cc` 277), and `src/unittests.c`
opens `primary_index` in two threads at once (73 and 307) and gives up when either is
refused. `openIndex` refuses the second. So the exclusiveness proved below is bought with a
broken promise, which the run MCShared shows; and if the promise were kept, the tree as it
is would be used by two threads without a lock. `Records` composes the registry with the
calls that use a tree: `TreeUsedByOne`, that no two threads are ever in a call on one tree
(again because the second is refused), is why the tree is modelled with one call at a time. An iterator is used by the tree's one caller between
its calls; `BTreeIterator` composes it with the tree.

What makes each component correct:

- tree: the nodes form a tree (`TreeShape`), searching finds every key (`SearchOrder`),
  depth and filling (`Balanced`), the chain of leaves is complete in both directions
  (`LeafChain`, `ChainBackwards`; under each parent, `SiblingsChained`), the size is right (`KeyCount`), no undefined behaviour
  (`NeverUndefined`), every call returns (`CallsReturn`), and seen from outside each call
  is one atomic step of a multimap (`ImplementsMultimap`);
- iterators: `++` and `--` go to the neighbouring key of the whole tree and stay inside it
  (`StepsInOrder`, `IteratorInside`);
- registry: names are unique, open states lead to the right tree, one opener at a time
  (or several, if the test is believed),
  a call that has the lock returns, and seen from outside each call is one atomic step of
  a directory (`ImplementsDirectory`);
- record calls: one thread at a time on a tree, cast to the type it has (`CastsRight`).

## 2. The modules

    BTreeNodes          the nodes and the helpers of btree.h, as operators on a heap
      BTree             insert, erase, delete_pair, get: the state machine
        BTreeProps      type invariant and safety invariants
          BTreeClaims   what comments say and the code does not do
          BTreeRefine   BTree implements Multimap; action properties on the contents
            BTreeLive   fairness, and that calls return
          BTreeProofs   what each helper can change; TypeOK of the tree
            BTreeInsertProofs   CapacityRespected and RootStaysValid of a tree that is
                                only inserted into
              SearchTreeProofs  search trees, and what it is for a heap to hold one
                BTreeAppendProofs   a tree to which keys are appended is a B+ tree
                  BTreeRefineProofs   and implements Multimap (over BTreeRefine too)
          BTreeIterator begin, end, ++, --, interleaved with the calls of the tree
            BTreeIteratorProofs a walk over an appended tree (over BTreeAppendProofs too)
    Multimap            what an index promises its caller (abstract)
    MCBTree, MCClaims, MCRefine, MCLive, MCIterator    values for TLC
    IndexRegistry       create, openIndex, closeIndex: the state machine and its properties
      IndexDirectory        IndexRegistry implements Directory
        IndexRegistryProofs     theorems, the refinement among them
      Records               get, insertRecord, deleteRecord, transactions, over IndexRegistry
        RecordsProofs           theorems
        MCRecords               values for TLC
    Directory           what the registry promises its threads (abstract)

### BTreeNodes

The heap is a function from `NodeIds` to nodes; an identifier without memory is mapped to
`Free`. A node has the fields of the C++ struct. Key slots that were never written hold
`Junk`; slots that were given up keep their contents, because the code reads them.
`slotsinuse` is an `unsigned short` (`Inc`, `Dec` wrap). Each helper of `btree.h` is an
operator of the same name that maps a heap to a heap. A helper that would use freed or null
memory or write outside an array returns `Fault`, the heap without any node, and maps
`Fault` to `Fault`, so that sequences of helper calls compose.

Loops over a node's slots are written as what they compute. Two of them are not what one
expects, and the operators say so: `PairLocation` (the loop of `insertinnernodepair` has no
`break`, so it finds the last slot above the key, not the first) and `SplitLeaf` (the loop
of `insert` that distributes a full leaf cannot step back from slot 0).

### BTree

`pc` says where the call is, `local` holds the local variables of the function it is in,
`call` and `result` what was asked and answered. A step is a level of `find`, an insertion
into one node, an iteration of a loop over children, or a call of a recursive function:

| Code | Actions |
|---|---|
| `find` | `FindChild`, `FindNextLeaf`, `FindLeaf` |
| `get`, `exists` | `Get` |
| `insert` | `MakeRoot`, `InsertPair`, `InsertDuplicate`, `SplitFullLeaf` |
| `insert_in_parent` | `InsertInParent`, `NewRoot`, `SplitParent`, `SplitParentLoop`, `SplitParentEnd` |
| `erase`, `delete_pair` | `Erase`, `EraseAbsent`, `DeletePair`, `DeletePairAbsent` |
| `balancetree` | `BalanceNothing`, `MergeLeaf`, `MergeLeafLoop`, `MergeLeafEnd`, `BorrowFromPrev`, `BorrowFromNext` |
| `deleteInnerNode` | `DeleteChild`, `ShiftChild`, `ShiftLastChild`, `CollapseRoot`, `RebalanceNothing`, `MergeIntoNext(Loop)`, `MergeIntoPrev(Loop)`, `MergeInnerEnd`, `RedistributeFromNext` |
| undefined behaviour | `Undefined`, or any step whose heap is `Fault`: `pc = "undefined"`, and nothing follows |

Undefined behaviour is a null or freed pointer that is used, a write outside an array, a
failed `assert` and a branch on an indeterminate key. One indeterminate read is kept as a
choice: comparing a `Junk` slot with a key gives any of `Indeterminate`. All passing runs
take `{FALSE}`, that is, memory fresh from the allocator does not happen to hold the key;
MCSizeJunk.cfg takes both and finds the size wrong.

The caller is part of the model because what the tree gets right depends on the order of
the calls. `Inserts`, `Erases` and `DeletePairs` name workloads: `append` (the next key,
`i++` in `src/src/test.cc`), `fill` (append until the first other call), `retry` (the pair
of the insertion that has just returned, if its leaf has room), `repeat` (any pair that is there),
`first`, `last`, `held`, `sought` (one of `Lookups` that is there), `absent` (a key that never was
there), `any`.

Two branches of `deleteInnerNode` that no run of the tree reaches are modelled as they stand: a
location beyond the children, at which nothing is removed (`DeleteChild`), and an underflowing
node without any sibling (`RebalanceNothing`).

The operators and `BTree` were compared with the compiled header on random
scripts of calls (about 54,000 calls): results, sizes and the contents of every node,
stale slots included, were the same.

### BTreeIterator

The variable `it` is an iterator that the caller of the tree holds: a leaf and a slot. It gets
one from `begin` (`Begin`), `end` (`End`) or a leaf that `find` has returned (`Seek`: `find`
and the constructor are public), moves it (`Forward`, `Backward`) between two calls, and lets it
go (`Drop`). The methods check nothing, so a step from null or freed memory is `StepUndefined`.
`TreeStep` is a step of the tree; the caller drops the iterator before it changes the tree,
unless `Holds`. `Begins` says when it calls `begin`: `headleaf` dangles after the first split,
so the run calls it before that. `StepsInOrder` compares each step with the keys of the *whole*
tree: it can only hold if chain, counts and order of the leaves agree after each of the merges
the run makes. `IteratorInside` adds that `--` reads no freed memory where there is a key to go back
to; at the least key it may (MCBackCut). Both operators trust the chain, and so the run is the one
that drains a tree from its ends, where the chain stays whole (MCEnds); where MCChainCut cuts it,
`++` goes to a freed leaf. The const and reverse iterators are
declared, but the classes are commented out, so there is nothing to model.

### Multimap, BTreeRefine, BTreeLive

`Multimap` is the promise of `src/server.h` for one caller: a set of key/payload pairs, calls
that are requested and later answered, each answer at one moment. It is a specification, not
a translation of code. `BTreeRefine` adds the history variable `committed`, what the
tree held when the last call returned, because in the middle of a call the nodes are in
pieces; `ImplementsMultimap` maps `contents` to it. `ImplementsKeySet` is the same promise
with the payloads left out: `erase` and the insertion into the middle of a leaf move keys
without their data, so the promise with payloads only holds where no pair has a pair after it
in its leaf.

`BTreeLive` adds weak fairness of the running thread. `clock` flips at every step, so that an
iteration of `find` that changes nothing counts as running: the endless loop of `find` then is
a behaviour in which the thread runs for ever and the call never returns. The code justifies
the assumption: inside a call there is no lock, wait or I/O that could block.

### IndexRegistry

Each thread takes the lock, walks the list one link per step, acts, and unlocks; every step of
one thread can be interleaved with those of the others. An index state belongs to the thread
that opened it. `Closes` says which states callers pass to `closeIndex`: open ones, or closed
ones too (a C caller can). `OtherTypes` are values of the C enum that `create` does not know:
its default branch returns with the lock held, and the model keeps it held. `FairSpec` assumes
that a thread inside a function is scheduled; nothing is assumed of who gets a contended mutex.

### Directory, IndexDirectory

`Directory` is what the registry is to its threads: a set of named, typed indexes, an owner for
each that is open, and the names for which an opener was ever refused; a call takes effect, and is
answered, at one moment between its start and its return. It is a specification, not a
translation. The answers are those of `src/server.h`, which allows FAILURE "for some other
reason"; the rule by which `openIndex` refuses is the code's own, and `Directory` states it
exactly: an index that exists is opened when nobody has it open and no opener was refused before
(`Available`), and refused otherwise, never both. `src/server.h` says neither: the run MCShared
and the configuration MCRefused.cfg beside the runs show where each half of the rule parts from it
and from `src/unittests.c`.
`IndexDirectory` maps the list to the set of indexes, the open states to the owners (`Owned`),
and a count of openers larger than the open states to `refused`; the walk, the lock and the counts
themselves are not seen.

### Records

`Records` adds to the registry what the same threads do with the states they get: `get` in its
three cases by key type, `insertRecord`, `deleteRecord`, and the transactions. A record call
reads `nbt` and `type` when it starts (`CallRecord`) and answers in a later step, so that any
steps of other threads come in between; the calls take no lock. A thread is in one call at a
time, and passes an open state and its transaction or NULL. `Registry` also clears the cursor
of a state that is opened (`memset`).

The model follows the source as it reads, although `bptree.cc` as a whole does not compile at
this commit (a missing semicolon and a stray `else` in `insertRecord`, calls through `void*`).
What is not well-formed is not modelled: `insertRecord` after its first answer, `getNext`, and
`deleteRecord` with a payload. This costs nothing in `insertRecord`: `p_setKeyDataFromKey`
assigns to its own copy of the pointer, the caller finds NULL and answers FAILURE before it
comes to the tree. So the trees stay empty, and `get`, whose lookup in an empty tree is
`CallOnEmptyTree` of `BTree`, never finds a key. Three undefined behaviours are choices: the
uninitialised string pointer of the VARCHAR case (it answers, or the process crashes), the end
of `get` without a return (any of `Codes`, or a crash), and the null transaction of the SHORT
case (a crash). After `Crash` nothing happens any more.

## 3. The runs

Trees have four slots per node, as in every instantiation of the repository. Payloads alternate
between two values. `MaxKey` is twice the number of keys, because keys in use are even (an odd
key is one that is not there); `MaxNode` bounds the node identifiers and `Reserve = 7` is what
one insertion can need, so that allocation never fails. Deadlock is checked in all runs of the
tree: the code always has a next step.

| Run | Workload | Shows |
|---|---|---|
| MCStack | append / retry / erase last, 13 keys, lookups of a key that is there and one that is not | `SearchOrder`, `Balanced`, `LeafChain`, `ChainBackwards`, `KeyCount`, `PairsUnique`, `NeverUndefined` and `ImplementsMultimap` for the pattern of `test.cc` |
| MCEnds | fill to at most 18 keys, then erase or delete_pair first, last or an absent key, lookups; an iterator walks in between | `TypeOK`, `SearchOrder`, `Balanced`, `LeafChain`, `ChainBackwards` while inner nodes merge and collapse; `IteratorInside`, `StepsInOrder` |
| MCHeld | fill to at most 15 keys, then erase or delete_pair six of them (the 1st, the 4th, the 6th to the 9th) or an absent key, lookups | `TreeShape` and `SiblingsChained` in any order of these deletions, on both sides of the border between two parents |
| MCDisorder | insert 4 keys in any order, again and again, lookups | `CapacityRespected`, `RootStaysValid`, `DuplicateHonest`, even in trees damaged by the split |
| MCDrain | fill to at most 26 keys, then erase or delete_pair first, lookups | `ImplementsKeySet`, `CallsReturn`, `KeyCount`, `NeverUndefined` |
| MCRegistry | 2 threads, 2 names, 1 type and one unknown, 3 openings | every property of the registry, `LockedCallsReturn` and `ImplementsDirectory`, through refusals and second openings |
| MCRecords | 3 threads, 1 name, 3 types, record calls and transactions | `TreeUsedByOne`, `CastsRight` |
| MCLostByInsert | insert any | `InsertKeepsOthers` fails |
| MCEraseOther | insert and erase any | `EraseMatches` fails |
| MCStaleSeparator | fill, erase any held key | `SearchOrder` fails |
| MCHangs | insert any | `CallsReturn` fails |
| MCShared | 2 threads | `AnyThreadOpens` fails |

The bounds are chosen by what has to happen: an inner node splits at the thirteenth appended key
and the root of a three-level tree collapses again, inner nodes merge both ways and redistribute
(MCEnds, MCDrain), and from 13 keys on leaves have two parents, so that merges come to the border
between them (MCHeld). The keys that MCHeld may erase take one from every leaf near that border and
both from the first leaf behind it, and the least key of all, whose leaf can only borrow from the
next one; all fifteen in any order are out of TLC's reach. Every action of `BTree`, `BTreeIterator`,
`IndexRegistry` and `Records` fires in the passing runs.
MCRegistry runs without a deadlock check because an unknown key type leaves the lock taken for
good. `MaxOpens` keeps the count of openers finite: `openIndex` is not *called* on an index
that is counted as open so often. With 3 an index is refused while it is open, and again after it
was closed, which is what `Available` of `Directory` is about. One known key type is enough there:
that a state has the type of its tree is checked with three in MCRecords (`CastsRight`). There
`MaxOpens` is 1, and refusals happen because two threads can be inside `openIndex` at once.
MCRecords has three threads, so that one can be refused while another uses the index and a
third creates it again, and one name, which is enough for two threads to meet on one tree
(MCRegistry has two names). One key, one transaction number and one answer in `Codes` are enough
because the two properties do not look at them; the theorems cover all values. It has no
deadlock check because a crash stops the process. Threads are symmetric there; no
run with a liveness property uses symmetry.

### Where the promises end

Several properties hold only for the workloads they are checked for, and the limits were looked
for, not assumed:

- draining from both ends keeps order and balance, but from 20 keys on a step can be undefined:
  redistribution from the previous inner node uses `next`, which is null there (`btree.h` 1575).
  MCNoRedistribution.cfg has the behaviour;
- the chain of leaves is cut where a leaf is merged away beside the border of two parents. Append 15
  keys and erase the seventh: it leaves the first leaf of the second parent, so `loc` is 0 and
  `deleteInnerNode` does not unlink it (`btree.h` 1381). `nextLeaf` of (5, 6) stays on freed memory
  (MCChainCut), and `prevLeaf` of the next leaf becomes NULL (1427). At the other side of the
  border, when the last leaf of a parent goes, nobody tells the first leaf of the next (1386): of 19 keys
  erase the third and the eleventh. The same happens at the start of the tree when the first of two
  leaves goes: the loop that would set `prevLeaf` does not run and the lines after it do not (1448, MCBackCut).
  An iteration over such a chain reads freed memory or stops early. What
  survives in the deletions tried is the chain under each parent, `SiblingsChained` (MCHeld); `LeafChain` and
  `ChainBackwards` are claimed where only ends of the tree are erased (MCStack, MCEnds), and the
  latter only of links between leaves of the tree;
- deleting any key loses `SearchOrder` from 6 keys on (MCStaleSeparator) and `Balanced`, with
  keys lost, from 11 (MCWrongLeaf.cfg): a separator goes stale in `balancetree` l. 1329,
  `findInnerNodeLoc` then takes the wrong child;
- draining from both ends also loses a key: a merge takes a stale slot for a duplicate
  (MCLostByErase.cfg), so `KeyCount` is not claimed there;
- inserting out of order loses a pair at the first split below a leaf's first key.

### More counterexamples

These configurations are kept beside the runs. Each ends in a violation, within a minute, of
the one property it names, except MCWrongLeaf, which takes two:

| Configuration | Module | Property | What the code says, and does |
|---|---|---|---|
| MCLostByErase.cfg | MCRefine | `DeletionKeepsOthers` | "Delete the first key that matches k" (`btree.h` 1173); another key goes too |
| MCNoRedistribution.cfg | MCBTree | `NeverUndefined` | "redistribute from prev" (1568); l. 1575 uses a null pointer |
| MCWrongLeaf.cfg | MCBTree | `Balanced` | "Min leaf node data slots" (50); the wrong leaf is freed, an underfull one stays |
| MCPayloads.cfg | MCClaims | `PayloadsKept` | "Contents of the retrieved record are copied" (`server.h` 225); keys move without data |
| MCPairTwice.cfg | MCClaims | `PairsUnique` | "there is a duplicate pair return a special error" (621); not in a full leaf |
| MCDeleteOther.cfg | MCClaims | `PairMatches` | "Delete key, data pair from index" (1153); the data is ignored |
| MCSizeJunk.cfg | MCBTree | `KeyCount` | "this will return the number of data values in the treee" (235); an uninitialised slot can compare equal |
| MCBegin.cfg | MCIterator | `BeginIsFirst` | "points to the first slot in the first leaf of the B+ tree" (1862); `headleaf` dangles after the first split |
| MCEndNever.cfg | MCIterator | `EndIsPastLast` | "points to the first invalid slot in the last leaf" (1869) and "this is end()" (1785); `tailleaf` is always NULL |
| MCIteratorKept.cfg | MCIterator | `IteratorInside` | nothing is promised; an iterator kept across a change dangles |
| MCChainCut.cfg | MCBTree | `LeafChain` | "keep track of the next and previous nodes", "helpful for range queries" (169); `nextLeaf` of (5, 6) of 15 keys leads to a freed leaf |
| MCBackCut.cfg | MCClaims | `LinksLeadToLeaves` | the same comment (169); 5 keys, two erased, and `prevLeaf` of the root leads to a freed leaf |
| MCRefused.cfg | IndexRegistry | `RefusedOnlyWhileOpen` | "FAILURE if DB exists but could not be opened for some other reason" (`server.h` 168); after one refusal (`bptree.cc` 212) an index nobody has open is refused for ever |
| MCLockKept.cfg | IndexRegistry | `NoLockAfterReturn` | `create` answers FAILURE (`server.h` 156) and keeps the lock |
| MCCloseTwice.cfg | IndexRegistry | `CloseNeedsOpen` | "was already closed by someone else" (`server.h` 178); closing twice succeeds |
| MCNotFound.cfg | MCRecords | `NotFoundReported` | "KEY_NOTFOUND if specified key value was not found in the DB" (`server.h` 241); `get` says SUCCESS |
| MCInsertRefused.cfg | MCRecords | `InsertSucceeds` | "SUCCESS if successfully inserted record into DB" (`server.h` 291); `insertRecord` always says FAILURE |
| MCNullTransaction.cfg | MCRecords | `NullTransactionAllowed` | "or NULL if not in a transaction" (`server.h` 236); a SHORT `get` crashes |
| MCCursorLeft.cfg | MCRecords | `GetMovesCursor` | "the previous record retrieved by get or getNext" (`server.h` 248); INT and VARCHAR `get` leave the cursor |
| MCTwoTransactions.cfg | MCRecords | `OneTransaction` | "TXN_EXISTS if there is already a transaction begun" (`server.h` 190); never answered |

## 4. The proofs

`IndexRegistryProofs` proves, for any set of threads, names and key types, any number of
openings and, but for the last, whatever states callers close:

- `TypesHold`, `LockExcludes`, `NamesStayUnique`, `CloseNeverMisses`, `StatesMatch`:
  `Spec => []` of `TypeOK`, `MutualExclusion`, `UniqueNames`, `CloseFindsLink` and
  `StateMatchesLink`;
- `OpenIsExclusive`: if `Closes \subseteq {"open"}`, `Spec => []ExclusiveOpen`.

None of these is inductive alone. The first invariant, `Base`, adds what a thread has learnt in
its walk (`Searched`): no link before its cursor has the name, or the link at its cursor has it.
That knowledge survives the steps of the other threads only because they cannot change the list
while this thread holds the lock, which is `MutualExclusion`; it is what makes the append of
`create` keep names unique. `Registered` adds that a state is only ever made for a name in the
list, and links are never removed, so `closeIndex` finds its link.

The second invariant, `Opening`, is for exclusiveness: a link that some state is open on has a
count of at least one (`Counted`), and a thread inside `closeIndex` still has the index open
(`Closing`). `openIndex` grants an index only when the count was zero, so nobody has it open.
Refused openers make the count too large, never too small: exclusiveness survives the miscount
that MCRefused shows. A second close of one state would break `Counted`, which is why the
assumption on `Closes` is needed. The theorem says what the code does, not that it does what it
should: the refusal in its proof is the one that `AnyThreadOpens` forbids (MCShared).

The assumptions on constants are `ThreadsAssumption`, `TypesAssumption` and `ClosesAssumption`.

The same module proves `DirectoryImplemented`: if `Closes \subseteq {"open"}`,
`Spec => ImplementsDirectory`, the whole refinement, for any threads, names and key types.
Each action of the registry is mapped to one of `Directory` or to a stutter: `CreateLink`, which
appends, to `Create`; `OpenFirst` to `Open`; `Close` to `Close`; a refusal to `OpenFails`;
`Lock` and `Search` to nothing. Four facts carry it: `Answered` (a call has its answer exactly
from its action to its `Unlock`), `Searched` of `Base` (at the point of action the thread knows
whether the name is in the list, so that the answer is the one the directory gives), `RefusedIs` (the
count of a link exceeds its owners exactly if a refusal has been counted, so that the test
`numOpenThreads == 1` of `openIndex` decides between `Open` and `OpenFails` as `Available` does), and
`ExclusiveOpen`, without which `Owner` of an index with two open states would not be a function
of the steps.

`RecordsProofs` proves `CastsAreRight`, `RecSpec => []CastsRight`, and `TreesAreUsedByOne`,
`RecSpec => []TreeUsedByOne` if `Closes \subseteq {"open"}`. A step of `Records` is a step of the
registry or leaves its variables alone (`RecordsAreRegistry`), so every theorem of the registry
holds of `RecSpec`. What is new is `ReadHolds`: what a record call read from its state is what
the state still says, because only the thread itself changes its states and it is inside the call
(`OthersKeep`). Then `StateMatchesLink` gives the type and `ExclusiveOpen` the one user.

`BTreeProofs` proves `TreeTypesHold`, `Spec => []TypeOK`, for any keys and payloads, any node
size that `SlotsAssumption` allows, any set of addresses and every workload: through any
calls in any order a node keeps the layout its flag says, pointers lead to an address or
nowhere, and each function runs with its own local variables.

`TypeOK` is not inductive, because the code is not typed where it matters: it casts a `node*` to
a leaf or an inner node because of the place it has in the tree. The invariant `TypeInv` adds
`Standing`, what each point of the code relies on: that the node a function works on is
still allocated and of the kind it was cast to, after helpers have changed the heap around it.
That comes from the first part of the module. `Edits(h)` are the heaps in which the same
addresses are free and leaves are still leaves; every helper that neither allocates nor frees
leads from `h` to one of them (or to `Fault`), and such steps compose. So a function whose steps
are helper calls keeps `Standing`, and only the actions that allocate or free need an argument of
their own. A cast to the wrong kind and a use of freed memory are not excluded: they lead to
`undefined`, and `NeverUndefined` is where that is asked.

`BTreeInsertProofs` proves `InsertionsFit`, `Spec => []CapacityRespected` if `Erases` and
`DeletePairs` are empty: whatever is inserted in whatever order, no array of a node overflows. The
run MCDisorder shows how little else can be said of these trees, so the proof must not use
their shape. `Grows(h, g, S)` says of a helper that it makes no node too full and changes the
number of keys only in `S`; such steps compose. Not too full is not inductive by itself: the
split of an inner node takes a key from the first half (`Dec` of an `unsigned short`), and had that half
none, the count would be 65535. `SplitCount` adds what the loop of `insert_in_parent` keeps
about its indices: `slot` is `i`, or one ahead once the new pair is placed, and the first
half has at least the keys that go with it when the loop comes to the split point (`SplitNumbers`).

The same module proves `RootSurvivesInsertions`, `Spec => []RootStaysValid` under the same
hypotheses. The root must be more than live and flagged: `Rooted` adds that it is nobody's child,
for a helper that takes it for the child of a damaged node would give it a parent. During a
split `RootApart` says that the two halves are not the root, and that the root is among the nodes
about to be freed only if the split has reached the top (`parent` is null); `HalvesApart` says the
same of the two new nodes of `split_parent`.

`BTreeAppendProofs` proves that a tree to which keys are appended, and which is searched in
between, is a correct B+ tree, however high it grows:

| Theorem | Property |
|---|---|
| `AppendingIsDefined` | `NeverUndefined` |
| `AppendingKeepsShape` | `TreeShape` |
| `AppendingKeepsOrder` | `SearchOrder` |
| `AppendingKeepsBalance` | `Balanced` |
| `AppendingKeepsChain`, `AppendingKeepsBackLinks` | `LeafChain`, `ChainBackwards` |
| `AppendingCountsKeys` | `KeyCount` |
| `AppendingKeepsPairsUnique` | `PairsUnique` |

Each is `Spec => []Property` under two hypotheses: the workload (`Inserts` holds only `append` and
`fill`, nothing is deleted: the first loop of `src/src/test.cc`, with lookups of any keys), and
`NodeSlots >= 3`. Every instantiation in the repository has four slots. The second
hypothesis is needed: with two slots the halves of a split inner node come out wrong, and TLC
finds the properties violated (they hold for 3, 4 and 5). The first is needed too: section 3 says
what other insertions and deletions do to the tree.

None of the eight is inductive, and not because a detail is missing: within an insertion the
nodes are no tree. The invariant `AppendInv` therefore says that a tree *exists* that the heap
holds in part. The tree is a mathematical object (`SearchTree`): a record of nodes, levels,
parents, spans of keys and children. `Stands(h, t, W, F, X)` says that the heap `h` holds the tree
`t`, but for the contents of node `W`, the parent pointers of the nodes `F` and the links before
leaf `X`. Then

- between calls, in `find` and at the leaf, the heap holds the whole tree (`Resting`), the search is
  at one of its nodes, and an insertion on the right edge (`Looking`);
- in `insert_in_parent` the tree already has the two halves, and the heap holds all of it but their
  parent, which still has the old node (`Rising`);
- in the loop of `split_parent` it holds all but the parent and its children's parent pointers, and
  the two new nodes hold the pairs copied so far (`Splitting`: `Halfway`, `Copied`, with the cut at
  `half + 1`, where the last key of the first half goes up and the chain is linked by hand).

`SearchTreeProofs` has the pure part, that splitting a last node, a new root and a larger last key
lead from one search tree to another, and the part about the code: what the helpers do when
position and count agree, which in an append they always do (`PairLocation` and
`findInnerNodeLoc` then find the last slot). In `BTreeAppendProofs` each action gets its lemma,
`NextKeepsShape` joins them, and `AppendedTree` leads from `AppendInv` to the properties. For that
the recursive functions in the properties have to be unfolded: a recursive definition in TLA+ is
a choice of *some* function that satisfies its equation, so `SetRecursion` shows that functions that
collect sets along links exist (as least fixed points, also on cyclic graphs), and `ByLevel`, an
induction over the finitely many levels of a tree, computes them on the tree. This is why
`BTreeProps` collects what is below a node for all pointers and takes the depth of a node
from the set of nodes along its first children.

`BTreeIteratorProofs` proves what these trees are worth to an iterator: `IteratorStaysInside`,
`IterSpec => []IteratorInside`, and `IteratorStepsInOrder`, `IterSpec => StepsInOrder`. The
hypotheses are those of `BTreeAppendProofs` and what the caller has to do for the code to work at
all: it drops the iterator before it changes the tree (`Holds = FALSE`, as MCIteratorKept shows
necessary) and calls `begin` only before the first split or never (`Begins`; MCBegin). It may
start at any leaf that `find` returns, in trees of any height. The invariant `IterInv` adds
to `AppendInv` that a held iterator is at an entry or one past the last (`Inside`) and that the tree is then only
searched, and for `begin` that `headleaf`, when it is the root, is a leaf (`HeadSafe`): a split
that goes up to a parent finds an inner node at the root (`RootAbove`), and a new root is not put at an
address that `headleaf` still holds (`UnusedIds`). `Advances` is the heart of the second theorem: past the last
slot, `++` goes to slot 0 of `nextLeaf`, and there is no key of the *whole* tree between the two, because
the spans of leaves joined by the chain adjoin and every leaf but a lone root holds a key;
`Retreats` is the same for `--` and `prevLeaf`. That neither operator reads freed memory follows from
`ChainLinks`, by which whatever a leaf is linked to is a leaf of the tree.

`BTreeRefineProofs` proves the refinement, under the hypotheses of `BTreeAppendProofs`:
`AppendingImplementsMultimap`, `RefineSpec => ImplementsMultimap`, and with it
`AppendingImplementsKeySet` and `AppendingKeepsOthers` (`ImplementsKeySet`, `InsertKeepsOthers`; the
run MCLostByInsert shows that the last fails for keys that are not in order). Every `insert` and
`get` answers, and changes the contents, as one atomic step of the multimap does: between call and
answer nothing changes for the caller, however many nodes are split.

`AppendInv` says that the tree is well formed, not which pairs are in it, so `RefineInv` adds two parts.

- `Kept`: the pairs in the leaves are those in `committed`. The leaves meant are *all* live leaves, not
  those of the tree, for in the middle of an insertion there is no tree to walk. It is this choice that
  makes the steps easy: whatever changes inner nodes only leaves every leaf's slots alone (`Quiet`,
  `SameLeaves`), and a split moves pairs from one leaf into two (`BooksDivided`, where `PairsSplit` says
  that `SplitLeaf` loses no pair and invents none). On the way up the leaf that was split is still
  allocated with the old pairs, and is left out of the count (`Old`); the insertion that ends frees it.
  Between calls the leaves must be those of the tree. That nothing is left over beside it follows from
  `totalkeycount`: `Kept` has that many entries in the live leaves, `AppendInv` as many in the tree,
  which is among them, and a finite set with a subset of its own size is that subset (`NoLeafOver`).
- `Sought`: `get` is at a node whose span has the key it looks for, if the key is anywhere
  (`FindChildAims`). So when it comes to a leaf, the key is in that leaf or nowhere (`FoundThere`), and the
  step to the next leaf, which `find` takes from a full leaf of smaller keys, is taken only for a key
  that is nowhere (`FindNextLeafAims`).

`Visible` collects what a step may show to the caller; `NextSound` proves it action by action, and
`VisibleIsMultimap` that it is a step of the multimap or none. The answer "duplicate" never occurs
here (`NothingRefused`).

The assumptions of the tree's theorems are `SlotsAssumption`, `NodeIdsAssumption`, `FreeAssumption` (an identifier
without memory is not a node), `WorkloadAssumption` and `KeysAssumption`.

Only model-checked:

- the properties of the tree but `TypeOK` where keys are deleted or an insertion is retried
  (the runs MCStack, MCEnds, MCHeld, MCDrain), `SiblingsChained` among them, and `CapacityRespected` and `RootStaysValid` with deletions;
- `DuplicateHonest` in trees damaged by insertions out of order: there the chain that the recursive
  scan for duplicates follows may have a cycle, and of a recursive definition on a cycle nothing
  follows but that it satisfies its equation, whatever answer that is;
- `IteratorInside` and `StepsInOrder` over a tree from which keys were deleted (MCEnds);
- `ImplementsMultimap` where an insertion is retried or a key erased (MCStack), and
  `ImplementsKeySet` where a tree is drained (MCDrain);
- liveness (`CallsReturn`, `LockedCallsReturn`), which the proof system does not do.

## 5. What is not modelled

- Code that does not compile when it is used: `erasepair` and `getNext` of the tree (templates),
  `getNext`, the rest of `insertRecord` and `deleteRecord` with a payload (`bptree.cc`);
  `deleteinnerpair` is never called. The const and reverse iterators have no class.
- The bytes that `p_setKeyDataFromKey` computes: nobody reads them.
- Calls of one thread inside another's iterator or of two threads on one tree: `TreeUsedByOne`
  says that they do not happen, because `openIndex` refuses the second thread. `src/unittests.c` is
  written for a library in which they do; in this one its transaction thread or its main
  thread stops at the refusal (MCShared).
- Memory leaks: a split inner node is never freed, and neither are `dataSlots`. The model takes
  the identifier back when no live node points to it any more.
- `create` stores the caller's pointer to the name; the model stores the name.
- Key comparison other than `std::less` on integers, payload contents, printing.
- The drivers, as clients: their workloads are in the runs.

## 6. Where the work stands

1. The tree, its workloads and properties, two refinements, liveness, iterators.
2. The registry, its refinement, and its composition with the record calls and transactions.
3. Proofs: the registry's invariants and refinement, the record calls, `TypeOK` of the tree, the
   capacity of its nodes and its root under insertions, the whole shape of a tree to which
   keys are appended, its refinement of the multimap, and the iterators over it.
4. Left to prove: the workloads `retry` and `erase last` of MCStack, for shape and refinement, and
   `CapacityRespected` with deletions.
