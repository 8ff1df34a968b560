-------------------------- MODULE SearchTreeProofs --------------------------
(***************************************************************************)
(* The search tree that a heap stands for while keys are only appended.     *)
(* A tree t is a record: t.G are its nodes; a node m has the level          *)
(* t.lev[m] (0 is a leaf), the parent t.par[m], of which it is the child    *)
(* number t.ix[m], and the keys from t.lo[m] up to, not including, t.hi[m]  *)
(* below it; an inner node has t.cnt[m] keys t.ks[m] and one child more,    *)
(* t.ch[m]; no node is above level t.height, all keys lie in                *)
(* t.bot .. t.top - 1.                                                      *)
(*                                                                         *)
(* Three parts: what the split of a last node, a new root and a larger last *)
(* key make of a tree; what the helpers of btree.h do at the end of a node  *)
(* and of the chain of leaves; and what it is for a heap to hold a tree,    *)
(* but for one node, some parents and one link of the chain that an         *)
(* insertion still has to set.                                              *)
(***************************************************************************)
EXTENDS BTreeInsertProofs

\* The span of keys of a node is not empty; t.top ends the last ones.
Bounds(t) ==
    /\ t.G \subseteq NodeIds /\ t.bot \in Int /\ t.top \in Int /\ t.height \in Nat
    /\ \A m \in t.G : /\ t.lev[m] \in Nat /\ t.lev[m] <= t.height
                      /\ t.lo[m] \in Int /\ t.hi[m] \in Int
                      /\ t.bot <= t.lo[m] /\ t.lo[m] < t.hi[m] /\ t.hi[m] <= t.top

\* Child i of m is a level below it and has the span between the keys beside it.
IsChild(t, m, i) ==
    LET c == t.ch[m][i]
    IN  /\ c \in t.G /\ t.par[c] = m /\ t.ix[c] = i /\ t.lev[c] + 1 = t.lev[m]
        /\ t.lo[c] = IF i = 0 THEN t.lo[m] ELSE t.ks[m][i - 1]
        /\ t.hi[c] = IF i = t.cnt[m] THEN t.hi[m] ELSE t.ks[m][i]

Inner(t) ==
    \A m \in t.G : t.lev[m] > 0 =>
        /\ t.cnt[m] \in Nat /\ t.cnt[m] >= 1
        /\ \A i \in 0 .. t.cnt[m] - 1 : t.ks[m][i] \in Keys
        /\ \A i \in 0 .. t.cnt[m] : IsChild(t, m, i)

\* A node with a parent is a child of it.
Hung(t) ==
    \A m \in t.G : t.par[m] # NULL =>
        /\ t.par[m] \in t.G /\ t.lev[t.par[m]] > 0
        /\ t.ix[m] \in 0 .. t.cnt[t.par[m]] /\ t.ch[t.par[m]][t.ix[m]] = m

\* Nodes of one level have disjoint spans.
Apart(t) ==
    \A m, n \in t.G : t.lev[m] = t.lev[n] /\ m # n => t.hi[m] <= t.lo[n] \/ t.hi[n] <= t.lo[m]

SearchTree(t) == Bounds(t) /\ Inner(t) /\ Hung(t) /\ Apart(t)

-----------------------------------------------------------------------------
\* A key k beyond all others will be stored: the last spans reach up to it.
Raise(t, k) ==
    [G |-> t.G, lev |-> t.lev, par |-> t.par, ix |-> t.ix, cnt |-> t.cnt, ks |-> t.ks,
     ch |-> t.ch, lo |-> t.lo, height |-> t.height, bot |-> t.bot, top |-> k + 1,
     hi |-> [m \in NodeIds |-> IF t.hi[m] = t.top THEN k + 1 ELSE t.hi[m]]]

\* Appending a key beyond all others leaves a search tree.
LEMMA RaiseTree ==
    ASSUME NEW t, SearchTree(t), NEW k \in Int, k >= t.top
    PROVE  SearchTree(Raise(t, k))
<1> DEFINE u == Raise(t, k)
<1>1. /\ u.G = t.G /\ u.lev = t.lev /\ u.par = t.par /\ u.ix = t.ix /\ u.cnt = t.cnt
      /\ u.ks = t.ks /\ u.ch = t.ch /\ u.lo = t.lo /\ u.bot = t.bot /\ u.top = k + 1
      /\ u.height = t.height
      /\ \A m \in NodeIds : u.hi[m] = IF t.hi[m] = t.top THEN k + 1 ELSE t.hi[m]
  BY DEF Raise
<1> HIDE DEF u
<1>2. /\ t.G \subseteq NodeIds /\ t.bot \in Int /\ t.top \in Int /\ t.height \in Nat
      /\ \A m \in t.G : /\ t.lev[m] \in Nat /\ t.lev[m] <= t.height
                        /\ t.lo[m] \in Int /\ t.hi[m] \in Int
                        /\ t.bot <= t.lo[m] /\ t.lo[m] < t.hi[m] /\ t.hi[m] <= t.top
  BY DEF SearchTree, Bounds
<1>3. Bounds(u)
  BY <1>1, <1>2 DEF Bounds
<1>4. Inner(u)
  <2> SUFFICES ASSUME NEW m \in t.G, t.lev[m] > 0
               PROVE  /\ t.cnt[m] \in Nat /\ t.cnt[m] >= 1
                      /\ \A i \in 0 .. t.cnt[m] - 1 : t.ks[m][i] \in Keys
                      /\ \A i \in 0 .. t.cnt[m] : IsChild(u, m, i)
    BY <1>1 DEF Inner
  <2>1. /\ t.cnt[m] \in Nat /\ t.cnt[m] >= 1
        /\ \A i \in 0 .. t.cnt[m] - 1 : t.ks[m][i] \in Keys
        /\ \A i \in 0 .. t.cnt[m] : IsChild(t, m, i)
    BY DEF SearchTree, Inner
  <2>2. ASSUME NEW i \in 0 .. t.cnt[m] PROVE IsChild(u, m, i)
    <3> DEFINE c == t.ch[m][i]
    <3>1. /\ c \in t.G /\ t.par[c] = m /\ t.ix[c] = i /\ t.lev[c] + 1 = t.lev[m]
          /\ t.lo[c] = IF i = 0 THEN t.lo[m] ELSE t.ks[m][i - 1]
          /\ t.hi[c] = IF i = t.cnt[m] THEN t.hi[m] ELSE t.ks[m][i]
      BY <2>1 DEF IsChild
    <3>2. ASSUME i # t.cnt[m] PROVE t.ks[m][i] < t.top
      <4>1. i + 1 \in 0 .. t.cnt[m] /\ (i + 1) - 1 = i /\ i + 1 # 0
        BY <2>1, <3>2
      <4>2. t.ch[m][i + 1] \in t.G /\ t.lo[t.ch[m][i + 1]] = t.ks[m][i]
        BY <2>1, <4>1 DEF IsChild
      <4> QED
        BY <1>2, <4>2
    <3>3. u.hi[c] = IF i = t.cnt[m] THEN u.hi[m] ELSE t.ks[m][i]
      <4>1. CASE i = t.cnt[m]
        BY <1>1, <1>2, <3>1, <4>1
      <4>2. CASE i # t.cnt[m]
        BY <1>1, <1>2, <3>1, <3>2, <4>2
      <4> QED
        BY <4>1, <4>2
    <3> QED
      BY <1>1, <3>1, <3>3 DEF IsChild
  <2> QED
    BY <2>1, <2>2
<1>5. Hung(u)
  BY <1>1 DEF SearchTree, Hung
<1>6. Apart(u)
  <2> SUFFICES ASSUME NEW m \in t.G, NEW n \in t.G, t.lev[m] = t.lev[n], m # n
               PROVE  u.hi[m] <= t.lo[n] \/ u.hi[n] <= t.lo[m]
    BY <1>1 DEF Apart
  <2>1. t.hi[m] <= t.lo[n] \/ t.hi[n] <= t.lo[m]
    BY DEF SearchTree, Apart
  <2> QED
    BY <1>1, <1>2, <2>1
<1> QED
  BY <1>3, <1>4, <1>5, <1>6 DEF SearchTree, u

-----------------------------------------------------------------------------
\* The last node of its level is the last child of its parent.
LEMMA LastChild ==
    ASSUME NEW t, SearchTree(t), NEW o \in t.G, t.hi[o] = t.top, t.par[o] # NULL
    PROVE  /\ t.par[o] \in t.G /\ t.lev[t.par[o]] = t.lev[o] + 1 /\ t.ix[o] = t.cnt[t.par[o]]
           /\ t.hi[t.par[o]] = t.top /\ t.par[o] # o
           /\ t.cnt[t.par[o]] \in Nat /\ t.cnt[t.par[o]] >= 1
           /\ t.ch[t.par[o]][t.cnt[t.par[o]]] = o
<1> DEFINE q == t.par[o]
           i == t.ix[o]
<1>1. q \in t.G /\ t.lev[q] > 0 /\ i \in 0 .. t.cnt[q] /\ t.ch[q][i] = o
  BY DEF SearchTree, Hung
<1>2. /\ t.cnt[q] \in Nat /\ t.cnt[q] >= 1 /\ \A j \in 0 .. t.cnt[q] : IsChild(t, q, j)
  BY <1>1 DEF SearchTree, Inner
<1>3. /\ t.lev[o] + 1 = t.lev[q]
      /\ t.hi[o] = IF i = t.cnt[q] THEN t.hi[q] ELSE t.ks[q][i]
  <2>1. IsChild(t, q, i)
    BY <1>1, <1>2
  <2> HIDE DEF q, i
  <2> QED
    BY <1>1, <2>1 DEF IsChild
<1>4. i = t.cnt[q]
  <2> SUFFICES ASSUME i # t.cnt[q] PROVE FALSE
    OBVIOUS
  <2>1. i + 1 \in 0 .. t.cnt[q] /\ i + 1 # 0 /\ (i + 1) - 1 = i
    BY <1>1, <1>2
  <2>2. t.ch[q][i + 1] \in t.G /\ t.lo[t.ch[q][i + 1]] = t.ks[q][i]
    <3>1. IsChild(t, q, i + 1)
      BY <1>2, <2>1
    <3> HIDE DEF q, i
    <3> QED
      BY <2>1, <3>1 DEF IsChild
  <2>3. \A m \in t.G : t.lo[m] \in Int /\ t.hi[m] \in Int /\ t.lo[m] < t.hi[m] /\ t.hi[m] <= t.top
    BY DEF SearchTree, Bounds
  <2>4. t.top \in Int
    BY DEF SearchTree, Bounds
  <2>5. t.top = t.ks[q][i]
    BY <1>3
  <2> DEFINE c == t.ch[q][i + 1]
  <2>6. c \in t.G /\ t.lo[c] = t.top
    BY <2>2, <2>5
  <2> HIDE DEF c, i, q
  <2> QED
    BY <2>3, <2>4, <2>6
<1>5. t.lev[o] \in Nat
  BY DEF SearchTree, Bounds
<1>6. t.lev[q] = t.lev[o] + 1 /\ q # o
  BY <1>3, <1>5
<1> QED
  BY <1>1, <1>2, <1>3, <1>4, <1>6

-----------------------------------------------------------------------------
\* The last node o of its level is replaced by a and b: a takes the first half + 1 children
\* of an inner node, b the others, and k, the key between them, goes into the parent.
Replace(t, o, a, b, k, half) ==
    LET q == t.par[o]
    IN  [G   |-> (t.G \ {o}) \cup {a, b},
         lev |-> [m \in NodeIds |-> IF m \in {a, b} THEN t.lev[o] ELSE t.lev[m]],
         par |-> [m \in NodeIds |-> IF m \in {a, b} THEN q
                                    ELSE IF t.par[m] # o THEN t.par[m]
                                    ELSE IF t.ix[m] <= half THEN a ELSE b],
         ix  |-> [m \in NodeIds |-> IF m = a THEN t.cnt[q] ELSE IF m = b THEN t.cnt[q] + 1
                                    ELSE IF t.par[m] = o /\ t.ix[m] > half
                                         THEN t.ix[m] - (half + 1) ELSE t.ix[m]],
         cnt |-> [m \in NodeIds |-> IF m = a THEN half ELSE IF m = b THEN t.cnt[o] - (half + 1)
                                    ELSE IF m = q THEN t.cnt[q] + 1 ELSE t.cnt[m]],
         ks  |-> [m \in NodeIds |-> [i \in Nat |->
                    IF m = a THEN t.ks[o][i] ELSE IF m = b THEN t.ks[o][i + (half + 1)]
                    ELSE IF m = q /\ i = t.cnt[q] THEN k ELSE t.ks[m][i]]],
         ch  |-> [m \in NodeIds |-> [i \in Nat |->
                    IF m = a THEN t.ch[o][i] ELSE IF m = b THEN t.ch[o][i + (half + 1)]
                    ELSE IF m = q /\ i = t.cnt[q] THEN a
                    ELSE IF m = q /\ i = t.cnt[q] + 1 THEN b ELSE t.ch[m][i]]],
         lo  |-> [m \in NodeIds |-> IF m = a THEN t.lo[o] ELSE IF m = b THEN k ELSE t.lo[m]],
         hi  |-> [m \in NodeIds |-> IF m = a THEN k ELSE IF m = b THEN t.hi[o] ELSE t.hi[m]],
         height |-> t.height, bot |-> t.bot, top |-> t.top]

\* A split (insert, insert_in_parent) leaves a search tree.
LEMMA ReplaceTree ==
    ASSUME NEW t, SearchTree(t), NEW o \in t.G, t.hi[o] = t.top,
           NEW a \in NodeIds \ t.G, NEW b \in NodeIds \ t.G, a # b,
           NEW k \in Keys, t.lo[o] < k, k < t.hi[o], NEW half \in Nat,
           t.lev[o] > 0 => half >= 1 /\ half + 2 <= t.cnt[o] /\ k = t.ks[o][half]
    PROVE  SearchTree(Replace(t, o, a, b, k, half))
<1> DEFINE u == Replace(t, o, a, b, k, half)
           q == t.par[o]
           d == half + 1
<1>1. /\ u.G = (t.G \ {o}) \cup {a, b} /\ u.bot = t.bot /\ u.top = t.top /\ u.height = t.height
      /\ \A m \in NodeIds :
            /\ u.lev[m] = IF m \in {a, b} THEN t.lev[o] ELSE t.lev[m]
            /\ u.par[m] = IF m \in {a, b} THEN q ELSE IF t.par[m] # o THEN t.par[m]
                          ELSE IF t.ix[m] <= half THEN a ELSE b
            /\ u.ix[m] = IF m = a THEN t.cnt[q] ELSE IF m = b THEN t.cnt[q] + 1
                         ELSE IF t.par[m] = o /\ t.ix[m] > half THEN t.ix[m] - d ELSE t.ix[m]
            /\ u.cnt[m] = IF m = a THEN half ELSE IF m = b THEN t.cnt[o] - d
                          ELSE IF m = q THEN t.cnt[q] + 1 ELSE t.cnt[m]
            /\ u.lo[m] = IF m = a THEN t.lo[o] ELSE IF m = b THEN k ELSE t.lo[m]
            /\ u.hi[m] = IF m = a THEN k ELSE IF m = b THEN t.hi[o] ELSE t.hi[m]
      /\ \A m \in NodeIds, i \in Nat :
            /\ u.ks[m][i] = IF m = a THEN t.ks[o][i] ELSE IF m = b THEN t.ks[o][i + d]
                            ELSE IF m = q /\ i = t.cnt[q] THEN k ELSE t.ks[m][i]
            /\ u.ch[m][i] = IF m = a THEN t.ch[o][i] ELSE IF m = b THEN t.ch[o][i + d]
                            ELSE IF m = q /\ i = t.cnt[q] THEN a
                            ELSE IF m = q /\ i = t.cnt[q] + 1 THEN b ELSE t.ch[m][i]
  BY DEF Replace
<1> HIDE DEF u
<1>2. /\ t.G \subseteq NodeIds /\ t.bot \in Int /\ t.top \in Int /\ t.height \in Nat
      /\ \A m \in t.G : /\ t.lev[m] \in Nat /\ t.lev[m] <= t.height
                        /\ t.lo[m] \in Int /\ t.hi[m] \in Int
                        /\ t.bot <= t.lo[m] /\ t.lo[m] < t.hi[m] /\ t.hi[m] <= t.top
  BY DEF SearchTree, Bounds
<1>3. k \in Int /\ d \in Nat /\ d = half + 1 /\ d >= 1 /\ NULL \notin NodeIds
  BY KeysAssumption, NodeIdsAssumption
<1>4. q # NULL => /\ q \in t.G /\ t.lev[q] = t.lev[o] + 1 /\ t.ix[o] = t.cnt[q]
                  /\ t.hi[q] = t.top /\ q # o /\ t.cnt[q] \in Nat /\ t.cnt[q] >= 1
                  /\ t.ch[q][t.cnt[q]] = o
  BY LastChild
<1>5. \A m \in t.G : t.lev[m] > 0 =>
        /\ t.cnt[m] \in Nat /\ t.cnt[m] >= 1
        /\ \A i \in 0 .. t.cnt[m] - 1 : t.ks[m][i] \in Keys
        /\ \A i \in 0 .. t.cnt[m] : IsChild(t, m, i)
  BY DEF SearchTree, Inner
<1> HIDE DEF d
<1>6. Bounds(u)
  <2>1. u.G \subseteq NodeIds
    BY <1>1, <1>2
  <2>2. ASSUME NEW m \in u.G
        PROVE  /\ u.lev[m] \in Nat /\ u.lev[m] <= t.height /\ u.lo[m] \in Int /\ u.hi[m] \in Int
               /\ t.bot <= u.lo[m] /\ u.lo[m] < u.hi[m] /\ u.hi[m] <= t.top
    <3>1. CASE m \in t.G \ {o}
      BY <1>1, <1>2, <3>1
    <3>2. CASE m = a
      BY <1>1, <1>2, <1>3, <3>2
    <3>3. CASE m = b
      BY <1>1, <1>2, <1>3, <3>3
    <3> QED
      BY <1>1, <3>1, <3>2, <3>3
  <2> QED
    BY <1>1, <1>2, <2>1, <2>2 DEF Bounds
<1>7. ASSUME NEW m \in t.G \ {o}, t.lev[m] > 0, NEW i \in 0 .. t.cnt[m],
             m = q => i # t.cnt[q]
      PROVE  /\ t.ch[m][i] \in u.G /\ u.par[t.ch[m][i]] = m /\ u.ix[t.ch[m][i]] = i
             /\ u.lev[t.ch[m][i]] + 1 = u.lev[m]
             /\ u.lo[t.ch[m][i]] = IF i = 0 THEN u.lo[m] ELSE t.ks[m][i - 1]
             /\ u.hi[t.ch[m][i]] = IF i = t.cnt[m] THEN u.hi[m] ELSE t.ks[m][i]
  <2> DEFINE c == t.ch[m][i]
  <2>1. /\ c \in t.G /\ t.par[c] = m /\ t.ix[c] = i /\ t.lev[c] + 1 = t.lev[m]
        /\ t.lo[c] = IF i = 0 THEN t.lo[m] ELSE t.ks[m][i - 1]
        /\ t.hi[c] = IF i = t.cnt[m] THEN t.hi[m] ELSE t.ks[m][i]
    BY <1>5, <1>7 DEF IsChild
  <2>2. c # o
    <3>1. CASE q = m
      BY <1>2, <1>4, <1>7, <1>3, <2>1, <3>1
    <3>2. CASE q # m
      BY <2>1, <3>2
    <3> QED
      BY <3>1, <3>2
  <2> HIDE DEF c
  <2>3. c \in u.G /\ c \notin {a, b} /\ m \notin {a, b} /\ c \in NodeIds /\ m \in NodeIds
    BY <1>1, <1>2, <2>1, <2>2
  <2> QED
    BY <1>1, <2>1, <2>3 DEF c
<1>8. Inner(u)
  <2> SUFFICES ASSUME NEW m \in u.G, u.lev[m] > 0
               PROVE  /\ u.cnt[m] \in Nat /\ u.cnt[m] >= 1
                      /\ \A i \in 0 .. u.cnt[m] - 1 : u.ks[m][i] \in Keys
                      /\ \A i \in 0 .. u.cnt[m] : IsChild(u, m, i)
    BY DEF Inner
  <2>1. CASE m \in t.G \ {o} /\ m # q
    <3>1. /\ m \in NodeIds /\ m \notin {a, b} /\ u.cnt[m] = t.cnt[m] /\ t.lev[m] > 0
          /\ t.cnt[m] \in Nat /\ t.cnt[m] >= 1
          /\ \A i \in Nat : u.ks[m][i] = t.ks[m][i] /\ u.ch[m][i] = t.ch[m][i]
      BY <1>1, <1>2, <1>5, <2>1
    <3>2. \A i \in 0 .. t.cnt[m] : i \in Nat /\ (i # 0 => i - 1 \in Nat)
      BY <3>1
    <3>3. ASSUME NEW i \in 0 .. t.cnt[m] PROVE IsChild(u, m, i)
      BY <1>7, <2>1, <3>1, <3>2 DEF IsChild
    <3>4. ASSUME NEW i \in 0 .. t.cnt[m] - 1 PROVE u.ks[m][i] \in Keys
      BY <1>5, <2>1, <3>1
    <3> QED
      BY <3>1, <3>3, <3>4
  <2>2. CASE m = q /\ q # NULL
    <3>1. /\ m \in NodeIds /\ m \notin {a, b} /\ m \in t.G \ {o} /\ t.lev[m] > 0
          /\ t.cnt[m] \in Nat /\ t.cnt[m] >= 1 /\ u.cnt[m] = t.cnt[m] + 1
      BY <1>1, <1>2, <1>4, <1>5, <2>2
    <3> DEFINE n == t.cnt[m]
    <3>2. /\ \A i \in Nat : i # n => u.ks[m][i] = t.ks[m][i]
          /\ \A i \in Nat : i # n /\ i # n + 1 => u.ch[m][i] = t.ch[m][i]
          /\ u.ks[m][n] = k /\ u.ch[m][n] = a /\ u.ch[m][n + 1] = b
      BY <1>1, <2>2, <3>1
    <3> HIDE DEF n
    <3>3. n \in Nat /\ n >= 1 /\ u.cnt[m] = n + 1
      BY <3>1 DEF n
    <3>4. ASSUME NEW i \in 0 .. n - 1 PROVE IsChild(u, m, i)
      <4>1. i \in 0 .. n /\ i # n /\ i # n + 1 /\ i \in Nat /\ (i # 0 => i - 1 \in Nat /\ i - 1 # n)
        BY <3>3
      <4>2. i \in 0 .. t.cnt[m] /\ i # t.cnt[q]
        BY <2>2, <4>1 DEF n
      <4> DEFINE c == t.ch[m][i]
      <4>3. /\ c \in u.G /\ u.par[c] = m /\ u.ix[c] = i /\ u.lev[c] + 1 = u.lev[m]
            /\ u.lo[c] = IF i = 0 THEN u.lo[m] ELSE t.ks[m][i - 1]
            /\ u.hi[c] = IF i = t.cnt[m] THEN u.hi[m] ELSE t.ks[m][i]
        BY <1>7, <3>1, <4>2
      <4>4. u.ch[m][i] = c /\ u.ks[m][i] = t.ks[m][i] /\ (i # 0 => u.ks[m][i - 1] = t.ks[m][i - 1])
        BY <3>2, <4>1
      <4> HIDE DEF c
      <4>5. i # u.cnt[m] /\ i # t.cnt[m]
        BY <3>3, <4>1 DEF n
      <4> QED
        BY <4>3, <4>4, <4>5 DEF IsChild
    <3>5. IsChild(u, m, n)
      <4>1. IsChild(t, m, n) /\ t.ch[m][n] = o
        BY <1>4, <1>5, <2>2, <3>1, <3>3 DEF n
      <4>2. t.lo[o] = t.ks[m][n - 1] /\ t.lev[o] + 1 = t.lev[m]
        BY <3>3, <4>1 DEF IsChild, n
      <4>3. n - 1 \in Nat /\ n - 1 # n /\ n # 0 /\ n # n + 1 /\ t.cnt[m] = n /\ a \in u.G
        BY <1>1, <3>3 DEF n
      <4> QED
        BY <1>1, <2>2, <3>1, <3>2, <3>3, <4>2, <4>3 DEF IsChild
    <3>6. IsChild(u, m, n + 1)
      <4>1. (n + 1) - 1 = n /\ n + 1 # 0 /\ t.cnt[m] = n /\ b \in u.G
        BY <1>1, <3>3 DEF n
      <4>4. t.lev[o] + 1 = t.lev[m]
        BY <1>4, <2>2
      <4>2. t.hi[o] = t.hi[m]
        BY <1>4, <2>2
      <4> QED
        BY <1>1, <2>2, <3>1, <3>2, <3>3, <4>1, <4>2, <4>4 DEF IsChild
    <3>7. ASSUME NEW i \in 0 .. n PROVE u.ks[m][i] \in Keys
      <4>1. CASE i = n
        BY <3>2, <4>1
      <4>2. CASE i # n
        <5>1. i \in 0 .. n - 1 /\ i \in Nat
          BY <3>3, <4>2
        <5> QED
          BY <1>5, <3>1, <3>2, <4>2, <5>1 DEF n
      <4> QED
        BY <4>1, <4>2
    <3>8. \A i \in 0 .. n + 1 : i \in 0 .. n - 1 \/ i = n \/ i = n + 1
      BY <3>3
    <3>9. \A i \in 0 .. u.cnt[m] : IsChild(u, m, i)
      BY <3>3, <3>4, <3>5, <3>6, <3>8
    <3>10. 0 .. u.cnt[m] - 1 = 0 .. n
      BY <3>3
    <3> QED
      BY <3>3, <3>7, <3>9, <3>10
  <2>3. CASE m \in {a, b}
    <3>1. /\ t.lev[o] > 0 /\ half >= 1 /\ half + 2 <= t.cnt[o] /\ k = t.ks[o][half]
          /\ t.cnt[o] \in Nat /\ u.lev[m] = t.lev[o]
          /\ \A i \in 0 .. t.cnt[o] - 1 : t.ks[o][i] \in Keys
          /\ \A i \in 0 .. t.cnt[o] : IsChild(t, o, i)
      <4>1. u.lev[m] = t.lev[o]
        BY <1>1, <2>3
      <4> QED
        BY <1>5, <4>1
    <3> DEFINE n == t.cnt[o]
    <3>2. ASSUME NEW i \in 0 .. n
          PROVE  LET c == t.ch[o][i]
                 IN  /\ c \in u.G /\ c \in NodeIds \ {a, b} /\ t.par[c] = o /\ t.ix[c] = i
                     /\ u.lev[c] + 1 = u.lev[m]
                     /\ u.lo[c] = IF i = 0 THEN t.lo[o] ELSE t.ks[o][i - 1]
                     /\ u.hi[c] = IF i = n THEN t.hi[o] ELSE t.ks[o][i]
      <4> DEFINE c == t.ch[o][i]
      <4>1. /\ c \in t.G /\ t.par[c] = o /\ t.ix[c] = i /\ t.lev[c] + 1 = t.lev[o]
            /\ t.lo[c] = IF i = 0 THEN t.lo[o] ELSE t.ks[o][i - 1]
            /\ t.hi[c] = IF i = n THEN t.hi[o] ELSE t.ks[o][i]
        BY <3>1 DEF IsChild
      <4> HIDE DEF c
      <4>2. c # o /\ c \in NodeIds \ {a, b}
        BY <1>2, <4>1
      <4>3. c \in u.G
        BY <1>1, <4>1, <4>2
      <4>4. u.lev[c] = t.lev[c] /\ u.lo[c] = t.lo[c] /\ u.hi[c] = t.hi[c]
        BY <1>1, <4>2
      <4> QED
        BY <3>1, <4>1, <4>2, <4>3, <4>4 DEF c
    <3> HIDE DEF n
    <3>3. n \in Nat /\ half + 2 <= n /\ half >= 1
      BY <3>1 DEF n
    <3>4. CASE m = a
      <4>1. u.cnt[m] = half /\ u.lo[m] = t.lo[o] /\ u.hi[m] = k
            /\ \A i \in Nat : u.ks[m][i] = t.ks[o][i] /\ u.ch[m][i] = t.ch[o][i]
        BY <1>1, <3>4
      <4>2. ASSUME NEW i \in 0 .. half PROVE IsChild(u, m, i)
        <5> DEFINE c == t.ch[o][i]
        <5>1. i \in 0 .. n /\ i # n /\ i <= half /\ i \in Nat /\ (i # 0 => i - 1 \in Nat)
              /\ (i # half => i \in Nat)
          BY <3>3
        <5>2. /\ c \in u.G /\ c \in NodeIds \ {a, b} /\ t.par[c] = o /\ t.ix[c] = i
              /\ u.lev[c] + 1 = u.lev[m]
              /\ u.lo[c] = IF i = 0 THEN t.lo[o] ELSE t.ks[o][i - 1]
              /\ u.hi[c] = t.ks[o][i]
          BY <3>2, <5>1
        <5>3. u.par[c] = m /\ u.ix[c] = i
          BY <1>1, <3>4, <5>1, <5>2
        <5> HIDE DEF c
        <5>4. u.ch[m][i] = c
          BY <4>1, <5>1 DEF c
        <5> QED
          BY <3>1, <4>1, <5>1, <5>2, <5>3, <5>4 DEF IsChild
      <4>3. ASSUME NEW i \in 0 .. half - 1 PROVE u.ks[m][i] \in Keys
        <5>1. i \in 0 .. n - 1 /\ i \in Nat
          BY <3>3
        <5> QED
          BY <3>1, <4>1, <5>1 DEF n
      <4> QED
        BY <3>3, <4>1, <4>2, <4>3
    <3>5. CASE m = b
      <4>1. u.cnt[m] = n - d /\ u.lo[m] = k /\ u.hi[m] = t.hi[o]
            /\ \A i \in Nat : u.ks[m][i] = t.ks[o][i + d] /\ u.ch[m][i] = t.ch[o][i + d]
        BY <1>1, <3>5 DEF n
      <4>2. n - d \in Nat /\ n - d >= 1
        BY <1>3, <3>3
      <4>3. ASSUME NEW i \in 0 .. n - d PROVE IsChild(u, m, i)
        <5> DEFINE c == t.ch[o][i + d]
        <5>1. /\ i + d \in 0 .. n /\ (i + d = n <=> i = n - d) /\ i + d > half /\ i + d # 0
              /\ (i + d) - d = i /\ i \in Nat /\ (i # 0 => i - 1 \in Nat)
              /\ (i + d) - 1 = (i - 1) + d /\ (i = 0 => (i + d) - 1 = half)
              /\ ~(i + d <= half)
          BY <1>3, <3>3
        <5>2. /\ c \in u.G /\ c \in NodeIds \ {a, b} /\ t.par[c] = o /\ t.ix[c] = i + d
              /\ u.lev[c] + 1 = u.lev[m]
              /\ u.lo[c] = t.ks[o][(i + d) - 1]
              /\ u.hi[c] = IF i + d = n THEN t.hi[o] ELSE t.ks[o][i + d]
          BY <3>2, <5>1
        <5>3. u.par[c] = m /\ u.ix[c] = i
          BY <1>1, <3>5, <5>1, <5>2
        <5> HIDE DEF c
        <5>4. u.ch[m][i] = c
          BY <4>1, <5>1 DEF c
        <5>5. u.lo[c] = IF i = 0 THEN u.lo[m] ELSE u.ks[m][i - 1]
          BY <3>1, <4>1, <5>1, <5>2
        <5>6. u.hi[c] = IF i = u.cnt[m] THEN u.hi[m] ELSE u.ks[m][i]
          BY <4>1, <5>1, <5>2
        <5> QED
          BY <5>2, <5>3, <5>4, <5>5, <5>6 DEF IsChild
      <4>4. ASSUME NEW i \in 0 .. (n - d) - 1 PROVE u.ks[m][i] \in Keys
        <5>1. i + d \in 0 .. n - 1 /\ i \in Nat
          BY <1>3, <3>3
        <5> QED
          BY <3>1, <4>1, <5>1 DEF n
      <4> QED
        BY <4>1, <4>2, <4>3, <4>4
    <3> QED
      BY <2>3, <3>4, <3>5
  <2> QED
    BY <1>1, <1>2, <1>3, <2>1, <2>2, <2>3
<1>9. Hung(u)
  <2> SUFFICES ASSUME NEW m \in u.G, u.par[m] # NULL
               PROVE  /\ u.par[m] \in u.G /\ u.lev[u.par[m]] > 0
                      /\ u.ix[m] \in 0 .. u.cnt[u.par[m]]
                      /\ u.ch[u.par[m]][u.ix[m]] = m
    BY DEF Hung
  <2>1. CASE m \in {a, b}
    <3>1. u.par[m] = q /\ q # NULL
      BY <1>1, <2>1
    <3>2. /\ q \in u.G /\ q \notin {a, b} /\ q \in NodeIds /\ t.cnt[q] \in Nat
          /\ t.lev[q] > 0 /\ u.cnt[q] = t.cnt[q] + 1
      BY <1>1, <1>2, <1>4, <3>1
    <3>3. u.ix[m] = (IF m = a THEN t.cnt[q] ELSE t.cnt[q] + 1)
      BY <1>1, <2>1
    <3>4. u.ch[q][t.cnt[q]] = a /\ u.ch[q][t.cnt[q] + 1] = b
      BY <1>1, <3>2
    <3> QED
      BY <1>1, <2>1, <3>1, <3>2, <3>3, <3>4
  <2>2. CASE m \in t.G \ {o} /\ t.par[m] = o
    <3>1. /\ t.lev[o] > 0 /\ t.ix[m] \in 0 .. t.cnt[o] /\ t.ch[o][t.ix[m]] = m
          /\ half + 2 <= t.cnt[o] /\ t.cnt[o] \in Nat
      BY <1>2, <1>3, <1>5, <2>2 DEF SearchTree, Hung
    <3>2. CASE t.ix[m] <= half
      <4>0. /\ m \in NodeIds /\ m \notin {a, b} /\ a \in NodeIds /\ t.ix[m] \in Int /\ half \in Int
            /\ ~(t.ix[m] > half)
        BY <1>2, <2>2, <3>1, <3>2
      <4>1. u.par[m] = a /\ u.ix[m] = t.ix[m] /\ u.cnt[a] = half /\ u.lev[a] = t.lev[o]
        BY <1>1, <2>2, <3>2, <4>0
      <4>2. t.ix[m] \in 0 .. half /\ t.ix[m] \in Nat
        BY <3>1, <3>2
      <4>3. u.ch[a][t.ix[m]] = m
        BY <1>1, <3>1, <4>2
      <4> QED
        BY <1>1, <3>1, <4>1, <4>2, <4>3
    <3>3. CASE ~(t.ix[m] <= half)
      <4>1. t.ix[m] > half /\ t.ix[m] - d \in 0 .. t.cnt[o] - d /\ (t.ix[m] - d) + d = t.ix[m]
            /\ t.ix[m] - d \in Nat
        BY <1>3, <3>1, <3>3
      <4>2. u.par[m] = b /\ u.ix[m] = t.ix[m] - d /\ u.cnt[b] = t.cnt[o] - d
            /\ u.lev[b] = t.lev[o]
        BY <1>1, <1>2, <2>2, <3>3, <4>1
      <4>3. u.ch[b][t.ix[m] - d] = m
        BY <1>1, <3>1, <4>1
      <4> QED
        BY <1>1, <3>1, <4>1, <4>2, <4>3
    <3> QED
      BY <3>2, <3>3
  <2>3. CASE m \in t.G \ {o} /\ t.par[m] # o
    <3> DEFINE p == t.par[m]
    <3>1. u.par[m] = p /\ u.ix[m] = t.ix[m]
      BY <1>1, <1>2, <2>3
    <3>2. /\ p \in t.G \ {o} /\ t.lev[p] > 0 /\ t.ix[m] \in 0 .. t.cnt[p] /\ t.ch[p][t.ix[m]] = m
          /\ t.cnt[p] \in Nat /\ p \in NodeIds /\ p \notin {a, b}
      BY <1>2, <1>5, <2>3, <3>1 DEF SearchTree, Hung
    <3> HIDE DEF p
    <3>3. t.ix[m] \in 0 .. u.cnt[p] /\ t.ix[m] \in Nat
      BY <1>1, <3>2
    <3>4. u.ch[p][t.ix[m]] = m
      <4>1. CASE p = q
        <5>1. t.ix[m] # t.cnt[q] /\ t.ix[m] # t.cnt[q] + 1
          BY <1>3, <1>4, <2>3, <3>2, <4>1
        <5> QED
          BY <1>1, <3>2, <3>3, <5>1
      <4>2. CASE p # q
        BY <1>1, <3>2, <3>3, <4>2
      <4> QED
        BY <4>1, <4>2
    <3> QED
      BY <1>1, <3>1, <3>2, <3>3, <3>4
  <2> QED
    BY <1>1, <2>1, <2>2, <2>3
<1>10. Apart(u)
  <2>1. \A m, n \in t.G : t.lev[m] = t.lev[n] /\ m # n => t.hi[m] <= t.lo[n] \/ t.hi[n] <= t.lo[m]
    BY DEF SearchTree, Apart
  <2>2. ASSUME NEW m \in u.G, NEW n \in u.G, u.lev[m] = u.lev[n], m # n, n \notin {a, b}
        PROVE  u.hi[m] <= u.lo[n] \/ u.hi[n] <= u.lo[m]
    <3>1. n \in t.G \ {o} /\ u.lev[n] = t.lev[n] /\ u.lo[n] = t.lo[n] /\ u.hi[n] = t.hi[n]
      BY <1>1, <1>2, <2>2
    <3>2. CASE m \in {a, b}
      <4>1. t.lev[n] = t.lev[o]
        BY <1>1, <2>2, <3>1, <3>2
      <4>2. t.hi[o] <= t.lo[n] \/ t.hi[n] <= t.lo[o]
        BY <2>1, <3>1, <4>1
      <4>3. u.lo[m] \in Int /\ u.hi[m] \in Int /\ t.lo[o] <= u.lo[m] /\ u.hi[m] <= t.hi[o]
        BY <1>1, <1>2, <1>3, <3>2
      <4> QED
        BY <1>2, <3>1, <4>2, <4>3
    <3>3. CASE m \notin {a, b}
      BY <1>1, <1>2, <2>1, <2>2, <3>1, <3>3
    <3> QED
      BY <3>2, <3>3
  <2>3. u.hi[a] = k /\ u.lo[b] = k
    BY <1>1
  <2>4. ASSUME NEW m \in u.G, NEW n \in u.G, u.lev[m] = u.lev[n], m # n
        PROVE  u.hi[m] <= u.lo[n] \/ u.hi[n] <= u.lo[m]
    <3>1. CASE n \notin {a, b}
      BY <2>2, <2>4, <3>1
    <3>2. CASE m \notin {a, b}
      BY <2>2, <2>4, <3>2
    <3>3. CASE m \in {a, b} /\ n \in {a, b}
      BY <1>3, <2>3, <2>4, <3>3
    <3> QED
      BY <3>1, <3>2, <3>3
  <2> QED
    BY <2>4 DEF Apart
<1> QED
  BY <1>6, <1>8, <1>9, <1>10 DEF SearchTree, u

-----------------------------------------------------------------------------
\* A new root r over the two halves a and b of the old one, with the key k between them.
Join(t, r, a, b, k) ==
    [G   |-> t.G \cup {r},
     lev |-> [m \in NodeIds |-> IF m = r THEN t.height + 1 ELSE t.lev[m]],
     par |-> [m \in NodeIds |-> IF m = r THEN NULL ELSE IF m \in {a, b} THEN r ELSE t.par[m]],
     ix  |-> [m \in NodeIds |-> IF m = a THEN 0 ELSE IF m = b THEN 1 ELSE t.ix[m]],
     cnt |-> [m \in NodeIds |-> IF m = r THEN 1 ELSE t.cnt[m]],
     ks  |-> [m \in NodeIds |-> IF m = r THEN [i \in Nat |-> k] ELSE t.ks[m]],
     ch  |-> [m \in NodeIds |-> IF m = r THEN [i \in Nat |-> IF i = 0 THEN a ELSE b] ELSE t.ch[m]],
     lo  |-> [m \in NodeIds |-> IF m = r THEN t.bot ELSE t.lo[m]],
     hi  |-> [m \in NodeIds |-> IF m = r THEN t.top ELSE t.hi[m]],
     height |-> t.height + 1, bot |-> t.bot, top |-> t.top]

\* The two halves of the old root, at the top of a tree that has no root yet.
Halves(t, a, b, k) ==
    /\ a \in t.G /\ b \in t.G /\ a # b /\ t.par[a] = NULL /\ t.par[b] = NULL
    /\ t.lev[a] = t.height /\ t.lev[b] = t.height
    /\ t.lo[a] = t.bot /\ t.hi[a] = k /\ t.lo[b] = k /\ t.hi[b] = t.top

\* NewRoot makes a search tree of them again.
LEMMA JoinTree ==
    ASSUME NEW t, SearchTree(t), NEW a, NEW b, NEW k \in Keys, Halves(t, a, b, k),
           NEW r \in NodeIds \ t.G
    PROVE  SearchTree(Join(t, r, a, b, k))
<1> DEFINE u == Join(t, r, a, b, k)
<1>1. /\ u.G = t.G \cup {r} /\ u.bot = t.bot /\ u.top = t.top /\ u.height = t.height + 1
      /\ \A m \in NodeIds :
            /\ u.lev[m] = IF m = r THEN t.height + 1 ELSE t.lev[m]
            /\ u.par[m] = IF m = r THEN NULL ELSE IF m \in {a, b} THEN r ELSE t.par[m]
            /\ u.ix[m] = IF m = a THEN 0 ELSE IF m = b THEN 1 ELSE t.ix[m]
            /\ u.cnt[m] = IF m = r THEN 1 ELSE t.cnt[m]
            /\ m # r => u.ks[m] = t.ks[m] /\ u.ch[m] = t.ch[m]
            /\ u.lo[m] = IF m = r THEN t.bot ELSE t.lo[m]
            /\ u.hi[m] = IF m = r THEN t.top ELSE t.hi[m]
      /\ u.ks[r][0] = k /\ u.ch[r][0] = a /\ u.ch[r][1] = b
  BY DEF Join
<1> HIDE DEF u
<1>2. /\ t.G \subseteq NodeIds /\ t.bot \in Int /\ t.top \in Int /\ t.height \in Nat
      /\ \A m \in t.G : /\ t.lev[m] \in Nat /\ t.lev[m] <= t.height
                        /\ t.lo[m] \in Int /\ t.hi[m] \in Int
                        /\ t.bot <= t.lo[m] /\ t.lo[m] < t.hi[m] /\ t.hi[m] <= t.top
  BY DEF SearchTree, Bounds
<1>3. /\ a \in t.G /\ b \in t.G /\ a # b /\ t.par[a] = NULL /\ t.par[b] = NULL
      /\ t.lev[a] = t.height /\ t.lev[b] = t.height
      /\ t.lo[a] = t.bot /\ t.hi[a] = k /\ t.lo[b] = k /\ t.hi[b] = t.top
      /\ a # r /\ b # r /\ NULL \notin NodeIds /\ a \in NodeIds /\ b \in NodeIds
  BY <1>2, NodeIdsAssumption DEF Halves
<1>4. Bounds(u)
  BY <1>1, <1>2, <1>3 DEF Bounds
<1>5. ASSUME NEW m \in t.G, t.lev[m] > 0
      PROVE  /\ u.cnt[m] \in Nat /\ u.cnt[m] >= 1
             /\ \A i \in 0 .. u.cnt[m] - 1 : u.ks[m][i] \in Keys
             /\ \A i \in 0 .. u.cnt[m] : IsChild(u, m, i)
  <2>1. /\ t.cnt[m] \in Nat /\ t.cnt[m] >= 1
        /\ \A i \in 0 .. t.cnt[m] - 1 : t.ks[m][i] \in Keys
        /\ \A i \in 0 .. t.cnt[m] : IsChild(t, m, i)
    BY <1>5 DEF SearchTree, Inner
  <2>2. m \in NodeIds /\ m # r /\ u.cnt[m] = t.cnt[m] /\ u.ks[m] = t.ks[m] /\ u.ch[m] = t.ch[m]
    BY <1>1, <1>2
  <2>3. ASSUME NEW i \in 0 .. t.cnt[m] PROVE IsChild(u, m, i)
    <3> DEFINE c == t.ch[m][i]
    <3>1. /\ c \in t.G /\ t.par[c] = m /\ t.ix[c] = i /\ t.lev[c] + 1 = t.lev[m]
          /\ t.lo[c] = IF i = 0 THEN t.lo[m] ELSE t.ks[m][i - 1]
          /\ t.hi[c] = IF i = t.cnt[m] THEN t.hi[m] ELSE t.ks[m][i]
      BY <2>1 DEF IsChild
    <3> HIDE DEF c
    <3>2. c \in NodeIds /\ c # r /\ c \notin {a, b}
      BY <1>2, <1>3, <2>2, <3>1
    <3> QED
      BY <1>1, <2>2, <3>1, <3>2 DEF IsChild, c
  <2> QED
    BY <2>1, <2>2, <2>3
<1>6. /\ u.cnt[r] \in Nat /\ u.cnt[r] >= 1
      /\ \A i \in 0 .. u.cnt[r] - 1 : u.ks[r][i] \in Keys
      /\ \A i \in 0 .. u.cnt[r] : IsChild(u, r, i)
  <2>1. u.cnt[r] = 1
    BY <1>1
  <2>2. IsChild(u, r, 0)
    BY <1>1, <1>2, <1>3 DEF IsChild
  <2>3. IsChild(u, r, 1)
    BY <1>1, <1>2, <1>3 DEF IsChild
  <2>4. 0 .. u.cnt[r] = {0, 1} /\ 0 .. u.cnt[r] - 1 = {0}
    BY <2>1
  <2> QED
    BY <1>1, <2>1, <2>2, <2>3, <2>4
<1>7. Inner(u)
  BY <1>1, <1>2, <1>5, <1>6 DEF Inner
<1>8. Hung(u)
  <2> SUFFICES ASSUME NEW m \in u.G, u.par[m] # NULL
               PROVE  /\ u.par[m] \in u.G /\ u.lev[u.par[m]] > 0
                      /\ u.ix[m] \in 0 .. u.cnt[u.par[m]]
                      /\ u.ch[u.par[m]][u.ix[m]] = m
    BY DEF Hung
  <2>1. m \in t.G /\ m # r /\ m \in NodeIds
    BY <1>1, <1>2, <1>3
  <2>2. CASE m \in {a, b}
    <3>1. u.par[m] = r /\ u.lev[r] > 0 /\ u.cnt[r] = 1
      BY <1>1, <1>2, <1>3, <2>1, <2>2
    <3>2. CASE m = a
      BY <1>1, <1>3, <3>1, <3>2
    <3>3. CASE m = b
      BY <1>1, <1>3, <3>1, <3>3
    <3> QED
      BY <2>2, <3>2, <3>3
  <2>3. CASE m \notin {a, b}
    <3>1. u.par[m] = t.par[m] /\ u.ix[m] = t.ix[m]
      BY <1>1, <2>1, <2>3
    <3>2. /\ t.par[m] \in t.G /\ t.lev[t.par[m]] > 0 /\ t.ix[m] \in 0 .. t.cnt[t.par[m]]
          /\ t.ch[t.par[m]][t.ix[m]] = m
      BY <2>1, <3>1 DEF SearchTree, Hung
    <3>3. t.par[m] \in NodeIds /\ t.par[m] # r
      BY <1>2, <3>2
    <3> QED
      BY <1>1, <3>1, <3>2, <3>3
  <2> QED
    BY <2>2, <2>3
<1>9. Apart(u)
  <2> SUFFICES ASSUME NEW m \in u.G, NEW n \in u.G, u.lev[m] = u.lev[n], m # n
               PROVE  u.hi[m] <= u.lo[n] \/ u.hi[n] <= u.lo[m]
    BY DEF Apart
  <2>1. \A l \in t.G : l \in NodeIds /\ l # r /\ u.lev[l] = t.lev[l] /\ t.lev[l] # t.height + 1
                       /\ u.lo[l] = t.lo[l] /\ u.hi[l] = t.hi[l]
    BY <1>1, <1>2
  <2>2. m \in t.G /\ n \in t.G
    BY <1>1, <2>1
  <2> QED
    BY <2>1, <2>2 DEF SearchTree, Apart
<1> QED
  BY <1>4, <1>7, <1>8, <1>9 DEF SearchTree, u

-----------------------------------------------------------------------------
\* The same record but for its parent and its place in the chain of leaves.
SameBody(r, s) ==
    /\ s.isleafnode = r.isleafnode /\ s.isrootnode = r.isrootnode
    /\ s.slotsinuse = r.slotsinuse /\ s.keySlots = r.keySlots
    /\ ~r.isleafnode => s.firstChild = r.firstChild /\ s.numChildren = r.numChildren

\* Key k becomes the last of inner node d.
KeyLast(h, g, d, k) ==
    /\ g \in Edits(h) /\ g # Fault
    /\ g[d].slotsinuse = h[d].slotsinuse + 1
    /\ \A i \in 0 .. h[d].slotsinuse - 1 : g[d].keySlots[i] = h[d].keySlots[i]
    /\ g[d].keySlots[h[d].slotsinuse] = k
    /\ g[d].isrootnode = h[d].isrootnode /\ g[d].parent = h[d].parent
    /\ g[d].firstChild = h[d].firstChild /\ g[d].numChildren = h[d].numChildren
    /\ \A m \in NodeIds \ {d} : g[m] = h[m]

\* Node c becomes the last child of d; a leaf is linked with the child before it.
Linked(h, d, c) == IsLeaf(h, c) /\ h[d].numChildren >= 1
Neighbour1(h, d) == h[d].firstChild[h[d].numChildren - 1]
ChildLast(h, g, d, c) ==
    /\ g \in Edits(h) /\ g # Fault
    /\ g[d].numChildren = h[d].numChildren + 1
    /\ \A i \in 0 .. h[d].numChildren - 1 : g[d].firstChild[i] = h[d].firstChild[i]
    /\ g[d].firstChild[h[d].numChildren] = c
    /\ g[d].isrootnode = h[d].isrootnode
    /\ g[d].slotsinuse = h[d].slotsinuse /\ g[d].keySlots = h[d].keySlots
    /\ \A m \in NodeIds \ {d} : Live(h, m) => SameBody(h[m], g[m])
    /\ \A m \in NodeIds : Live(h, m) => g[m].parent = IF m = c THEN d ELSE h[m].parent
    /\ \A m \in NodeIds : IsLeaf(h, m) =>
          /\ g[m].nextLeaf = IF Linked(h, d, c) /\ m = Neighbour1(h, d) THEN c ELSE h[m].nextLeaf
          /\ g[m].prevLeaf = IF Linked(h, d, c) /\ m = c THEN Neighbour1(h, d) ELSE h[m].prevLeaf

\* insertInnerNodeKeyAt behind the last key.
LEMMA KeyAppended ==
    ASSUME NEW h \in Heap, NEW d, IsInner(h, d), NEW k \in KeySlot, h[d].slotsinuse < NodeSlots
    PROVE  KeyLast(h, insertInnerNodeKeyAt(h, d, k, h[d].slotsinuse), d, k)
<1> DEFINE u == h[d].slotsinuse
           a == ShiftIn(h[d].keySlots, u, u, k)
           r == [h[d] EXCEPT !.keySlots = a, !.slotsinuse = Inc(u)]
           g == insertInnerNodeKeyAt(h, d, k, u)
<1>1. h[d] \in innerNode /\ h[d] \in node /\ d \in NodeIds /\ u \in Nat
  BY LiveTypes, NodeTypes DEF node
<1>2. u \in InnerIndex /\ ~(u < u /\ u >= NodeSlots) /\ Inc(u) = u + 1
  <2> HIDE DEF u
  <2> QED
    BY <1>1, Counting, SlotsAssumption DEF InnerIndex, u
<1>3. g = [h EXCEPT ![d] = r]
  BY <1>1, <1>2 DEF Heap, insertInnerNodeKeyAt
<1>4. /\ r.isleafnode = h[d].isleafnode /\ r.slotsinuse = u + 1 /\ r.keySlots = a
      /\ r.numChildren = h[d].numChildren /\ r.firstChild = h[d].firstChild
      /\ r.isrootnode = h[d].isrootnode /\ r.parent = h[d].parent
  BY <1>1, <1>2 DEF innerNode
<1>5. a[u] = k /\ \A i \in 0 .. u - 1 : a[i] = h[d].keySlots[i]
  <2> DEFINE f == h[d].keySlots
  <2>1. f \in [0 .. NodeSlots - 1 -> KeySlot] /\ u \in 0 .. NodeSlots - 1
    BY <1>1, <1>2, NodeTypes DEF InnerIndex
  <2> HIDE DEF f, u
  <2>2. ShiftIn(f, u, u, k) = [j \in 0 .. NodeSlots - 1 |-> IF j = u THEN k ELSE f[j]]
    <3>1. \A j \in 0 .. NodeSlots - 1 : ~(u < j /\ j <= u)
      BY <2>1, SlotsAssumption
    <3> QED
      BY <2>1, <3>1 DEF ShiftIn
  <2>3. \A i \in 0 .. u - 1 : i # u /\ i \in 0 .. NodeSlots - 1
    BY <2>1, SlotsAssumption
  <2> QED
    BY <2>1, <2>2, <2>3 DEF f
<1>6. g \in Edits(h)
  BY InsertKeyEdits
<1>7. g[d] = r /\ \A m \in NodeIds \ {d} : g[m] = h[m]
  <2> HIDE DEF r, g
  <2> QED
    BY <1>1, <1>3 DEF Heap
<1>8. r # Free
  <2>1. r \in innerNode
    <3>1. a \in [InnerIndex -> KeySlot]
      <4> DEFINE f == h[d].keySlots
      <4>1. f \in [0 .. NodeSlots - 1 -> KeySlot] /\ u \in 0 .. NodeSlots - 1 /\ u \in Int
            /\ NodeSlots - 1 \in Int
        BY <1>1, <1>2, NodeTypes, SlotsAssumption DEF InnerIndex
      <4> HIDE DEF f, u
      <4> QED
        BY <4>1, ShiftInTypes DEF f, InnerIndex
    <3>2. Inc(u) \in UShort
      BY <1>1, NodeTypes, CountTypes
    <3> HIDE DEF a, u
    <3> QED
      BY <1>1, <3>1, <3>2, InnerUpdates
  <2> QED
    BY <2>1, FreeAssumption DEF node
<1>9. g # Fault
  <2> HIDE DEF g, r
  <2> QED
    BY <1>1, <1>7, <1>8 DEF Fault
<1> HIDE DEF g, r, a
<1> QED
  BY <1>4, <1>5, <1>6, <1>7, <1>9 DEF KeyLast, g

\* insertInnerNodeChildAt behind the last child.
LEMMA ChildAppended ==
    ASSUME NEW h \in Heap, NEW d, IsInner(h, d), NEW c, Live(h, c), c # d,
           h[d].numChildren \in ChildIndex,
           Linked(h, d, c) => IsLeaf(h, Neighbour1(h, d)) /\ Neighbour1(h, d) # c
    PROVE  ChildLast(h, insertInnerNodeChildAt(h, d, c, h[d].numChildren), d, c)
<1> DEFINE n  == h[d].numChildren
           f  == ShiftIn(h[d].firstChild, n, n, c)
           h1 == [h EXCEPT ![d].firstChild  = ShiftIn(@, h[d].numChildren, n, c),
                           ![d].numChildren = @ + 1,
                           ![c].parent      = d]
           g  == insertInnerNodeChildAt(h, d, c, n)
           a  == Neighbour1(h, d)
<1>1. /\ h[d] \in innerNode /\ h[d] \in node /\ d \in NodeIds /\ c \in NodeIds
      /\ h[c] \in node /\ n \in Nat /\ n <= NodeSlots /\ ~h[d].isleafnode
      /\ h[d] # Free /\ h[c] # Free
  <2>1. h[d] \in innerNode /\ d \in NodeIds /\ c \in NodeIds /\ h[c] \in node
    BY LiveTypes DEF node
  <2>2. n \in Nat /\ n <= NodeSlots
    BY SlotsAssumption DEF ChildIndex
  <2> QED
    BY <2>1, <2>2 DEF node, innerNode, IsInner, Live
<1>2. h1 \in Edits(h) /\ h1 \in Heap
  BY <1>1, AddChildEdits DEF Edits
<1>3. \A m \in NodeIds : m \notin {d, c} => h1[m] = h[m]
  BY DEF Heap
<1>4. /\ h1[d].numChildren = n + 1 /\ h1[d].firstChild = f
      /\ h1[d].isrootnode = h[d].isrootnode /\ h1[d].slotsinuse = h[d].slotsinuse
      /\ h1[d].keySlots = h[d].keySlots /\ h1[d].parent = h[d].parent
      /\ h1[d].isleafnode = FALSE
  BY <1>1 DEF Heap, innerNode
<1>5. /\ h1[c].parent = d /\ SameBody(h[c], h1[c])
      /\ h[c].isleafnode => h1[c].nextLeaf = h[c].nextLeaf /\ h1[c].prevLeaf = h[c].prevLeaf
  <2>1. h1[c] = [h[c] EXCEPT !.parent = d]
    BY <1>1 DEF Heap
  <2> HIDE DEF h1
  <2>2. CASE h[c] \in leafNode
    BY <2>1, <2>2 DEF leafNode, SameBody
  <2>3. CASE h[c] \in innerNode
    BY <2>1, <2>3 DEF innerNode, SameBody
  <2> QED
    BY <1>1, <2>2, <2>3 DEF node
<1>6. f[n] = c /\ \A i \in 0 .. n - 1 : f[i] = h[d].firstChild[i]
  <2> DEFINE e == h[d].firstChild
  <2>1. e \in [0 .. NodeSlots -> Pointer]
    BY <1>1, NodeTypes
  <2>2. f = ShiftIn(e, n, n, c)
    OBVIOUS
  <2>3. n \in Nat /\ n <= NodeSlots /\ NodeSlots \in Nat
    BY <1>1, SlotsAssumption
  <2> HIDE DEF e, n, f
  <2>4. f = [j \in 0 .. NodeSlots |->
                IF j = n THEN c ELSE IF n < j /\ j <= n THEN e[j - 1] ELSE e[j]]
    BY <2>1, <2>2 DEF ShiftIn
  <2>5. f[n] = c
    BY <2>3, <2>4
  <2>6. ASSUME NEW i \in 0 .. n - 1
        PROVE  f[i] = e[i]
    <3>1. i \in 0 .. NodeSlots /\ i # n /\ ~(n < i)
      BY <2>3
    <3> QED
      BY <2>4, <3>1
  <2> QED
    BY <2>5, <2>6 DEF e
<1> HIDE DEF h1, f
<1>7. h1 # Fault
  <2>1. f \in [ChildIndex -> Pointer]
    <3> DEFINE e == h[d].firstChild
    <3>1. e \in [0 .. NodeSlots -> Pointer] /\ n \in 0 .. NodeSlots /\ NodeSlots \in Int
          /\ c \in Pointer /\ n \in Int
      BY <1>1, NodeTypes, SlotsAssumption DEF Pointer
    <3> HIDE DEF e, n
    <3> QED
      BY <3>1, ShiftInTypes DEF f, e, ChildIndex
  <2>2. h1[d] = [h[d] EXCEPT !.firstChild = f, !.numChildren = n + 1]
    BY <1>1 DEF Heap, h1, f
  <2>3. h1[d] \in innerNode
    <3>1. n + 1 \in Int
      BY <1>1
    <3>2. h[d] \in innerNode
      BY <1>1
    <3> HIDE DEF n
    <3>3. [h[d] EXCEPT !.firstChild = f, !.numChildren = n + 1] \in innerNode
      BY <2>1, <3>1, <3>2, InnerUpdates
    <3> QED
      BY <2>2, <3>3
  <2> QED
    BY <1>1, <2>3, FreeAssumption DEF Fault, node
<1>8. g = IF h[c].isleafnode THEN LinkWithSiblings(h1, d, n) ELSE h1
  BY <1>1 DEF insertInnerNodeChildAt, Live, h1
<1>9. \A m \in NodeIds \ {d} : SameBody(h[m], h1[m])
  BY <1>3, <1>5 DEF SameBody
<1>10. CASE ~Linked(h, d, c)
  <2>1. g = h1
    <3>1. CASE h[c].isleafnode
      <4>1. n = 0
        BY <1>1, <1>10, <3>1 DEF Linked, IsLeaf, Live
      <4> HIDE DEF n
      <4> QED
        BY <1>4, <1>8, <4>1 DEF LinkWithSiblings
    <3> QED
      BY <1>8, <3>1
  <2>2. \A m \in NodeIds : Live(h, m) => h1[m].parent = IF m = c THEN d ELSE h[m].parent
    BY <1>3, <1>4, <1>5
  <2>3. \A m \in NodeIds : IsLeaf(h, m) => /\ h1[m].nextLeaf = h[m].nextLeaf
                                           /\ h1[m].prevLeaf = h[m].prevLeaf
    BY <1>1, <1>3, <1>5 DEF IsLeaf
  <2> HIDE DEF g
  <2> QED
    BY <1>2, <1>4, <1>6, <1>7, <1>9, <1>10, <2>1, <2>2, <2>3 DEF ChildLast, g
<1>11. CASE Linked(h, d, c)
  <2>1. /\ IsLeaf(h, a) /\ a # c /\ IsLeaf(h, c) /\ a = h[d].firstChild[n - 1] /\ n >= 1
        /\ a # d
    BY <1>1, <1>11 DEF Linked, Neighbour1, IsLeaf
  <2>2. n - 1 \in 0 .. n - 1 /\ ~(n + 1 < n + 1) /\ n - 1 >= 0
    BY <1>1, <2>1
  <2>3. h1[d].firstChild[n - 1] = a /\ h1[d].firstChild[n] = c
    BY <1>4, <1>6, <2>1, <2>2
  <2>4. g = LinkLeaves(h1, a, c)
    BY <1>4, <1>8, <2>1, <2>2, <2>3 DEF LinkWithSiblings, IsLeaf
  <2>5. IsLeaf(h1, a) /\ IsLeaf(h1, c)
    BY <1>2, <1>7, <2>1, EditsKeep
  <2>6. g = [h1 EXCEPT ![a].nextLeaf = c, ![c].prevLeaf = a]
    BY <2>4, <2>5 DEF LinkLeaves
  <2>7. /\ h1[a] \in leafNode /\ h1[c] \in leafNode /\ a \in NodeIds
    BY <1>2, <2>5, LiveTypes
  <2>8. /\ g[a] = [h1[a] EXCEPT !.nextLeaf = c] /\ g[c] = [h1[c] EXCEPT !.prevLeaf = a]
        /\ \A m \in NodeIds \ {a, c} : g[m] = h1[m]
    BY <1>1, <1>2, <2>1, <2>6, <2>7 DEF Heap
  <2>9. g \in Edits(h)
    BY InsertChildEdits
  <2> HIDE DEF g, a, n
  <2>10. /\ SameBody(h1[a], g[a]) /\ g[a].parent = h1[a].parent /\ g[a].nextLeaf = c
         /\ g[a].prevLeaf = h1[a].prevLeaf
         /\ SameBody(h1[c], g[c]) /\ g[c].parent = h1[c].parent /\ g[c].prevLeaf = a
         /\ g[c].nextLeaf = h1[c].nextLeaf
    BY <2>7, <2>8 DEF leafNode, SameBody
  <2>12. g[d] = h1[d]
    BY <1>1, <2>1, <2>8
  <2>11. g # Fault
    <3>1. Live(h1, d)
      BY <1>1, <1>2, <1>7, EditsKeep DEF Live
    <3> QED
      BY <1>1, <2>12, <3>1 DEF Fault, Live
  <2>13. ASSUME NEW m \in NodeIds \ {d} PROVE SameBody(h[m], g[m])
    <3>1. SameBody(h[m], h1[m])
      BY <1>9
    <3>2. SameBody(h1[m], g[m])
      BY <2>8, <2>10 DEF SameBody
    <3> QED
      BY <3>1, <3>2 DEF SameBody
  <2>14. ASSUME NEW m \in NodeIds, Live(h, m) PROVE g[m].parent = IF m = c THEN d ELSE h[m].parent
    <3>1. g[m].parent = h1[m].parent
      BY <2>8, <2>10
    <3> QED
      BY <1>3, <1>4, <1>5, <3>1
  <2>15. ASSUME NEW m \in NodeIds, IsLeaf(h, m)
         PROVE  /\ g[m].nextLeaf = IF m = a THEN c ELSE h[m].nextLeaf
                /\ g[m].prevLeaf = IF m = c THEN a ELSE h[m].prevLeaf
    <3>1. m # d
      BY <1>1, <2>15 DEF IsLeaf
    <3>2. h1[m].nextLeaf = h[m].nextLeaf /\ h1[m].prevLeaf = h[m].prevLeaf
      BY <1>3, <1>5, <2>15, <3>1 DEF IsLeaf
    <3>3. CASE m = a
      BY <2>1, <2>8, <2>10, <3>2, <3>3
    <3>4. CASE m = c
      BY <2>1, <2>8, <2>10, <3>2, <3>4
    <3>5. CASE m \notin {a, c}
      BY <2>1, <2>8, <3>2, <3>5
    <3> QED
      BY <3>3, <3>4, <3>5
  <2> QED
    BY <1>4, <1>6, <1>11, <2>9, <2>11, <2>12, <2>13, <2>14, <2>15 DEF ChildLast, g, a, n
<1> QED
  BY <1>10, <1>11

-----------------------------------------------------------------------------
\* What becomes of inner node d with n keys and n children when the key k and the child c
\* are put behind them.
PairLast(h, g, d, k, c) ==
    LET n == h[d].slotsinuse
    IN  /\ g \in Edits(h) /\ g # Fault
        /\ g[d].slotsinuse = n + 1 /\ g[d].numChildren = n + 1
        /\ \A i \in 0 .. n - 1 : /\ g[d].keySlots[i] = h[d].keySlots[i]
                                 /\ g[d].firstChild[i] = h[d].firstChild[i]
        /\ g[d].keySlots[n] = k /\ g[d].firstChild[n] = c
        /\ g[d].isrootnode = h[d].isrootnode
        /\ \A m \in NodeIds \ {d} : Live(h, m) => SameBody(h[m], g[m])
        /\ \A m \in NodeIds : Live(h, m) => g[m].parent = IF m = c THEN d ELSE h[m].parent
        /\ \A m \in NodeIds : IsLeaf(h, m) =>
              /\ g[m].nextLeaf = IF IsLeaf(h, c) /\ n >= 1 /\ m = h[d].firstChild[n - 1]
                                 THEN c ELSE h[m].nextLeaf
              /\ g[m].prevLeaf = IF IsLeaf(h, c) /\ n >= 1 /\ m = c
                                 THEN h[d].firstChild[n - 1] ELSE h[m].prevLeaf

\* An old pair of a full parent.
LEMMA OldPairPlaced ==
    ASSUME NEW h \in Heap, NEW d, IsInner(h, d), NEW n \in Nat, n < NodeSlots,
           h[d].slotsinuse = n, h[d].numChildren = n,
           NEW p \in node, NEW i, Live(h, p.firstChild[i]), p.firstChild[i] # d,
           IsLeaf(h, p.firstChild[i]) /\ n >= 1 =>
               IsLeaf(h, h[d].firstChild[n - 1]) /\ h[d].firstChild[n - 1] # p.firstChild[i]
    PROVE  PairLast(h, PlaceOldPair(h, d, p, i, n), d, KeyAt(p, i), p.firstChild[i])
<1> DEFINE c  == p.firstChild[i]
           k  == KeyAt(p, i)
           h1 == insertInnerNodeKeyAt(h, d, k, n)
           g  == insertInnerNodeChildAt(h1, d, c, n)
<1>1. k \in KeySlot /\ d \in NodeIds
  BY KeyAtTypes, LiveTypes
<1>2. KeyLast(h, h1, d, k)
  BY <1>1, KeyAppended
<1> HIDE DEF c, k, h1
<1>3. h1 \in Heap /\ IsInner(h1, d) /\ Live(h1, c) /\ h1[d].numChildren = n
  BY <1>2, EditsKeep DEF KeyLast, Edits, c
<1>4. h1[d].firstChild = h[d].firstChild /\ n \in ChildIndex
  BY <1>2, SlotsAssumption DEF KeyLast, ChildIndex
<1>5. \A m : IsLeaf(h1, m) <=> IsLeaf(h, m)
  BY <1>2, EditsKeep DEF KeyLast
<1>6. ChildLast(h1, g, d, c)
  BY <1>3, <1>4, <1>5, ChildAppended DEF Linked, Neighbour1, c
<1>7. PlaceOldPair(h, d, p, i, n) = g
  BY DEF PlaceOldPair, k, c, h1
<1> HIDE DEF g
<1>8. g \in Edits(h)
  BY <1>2, <1>6, EditsCompose, <1>3 DEF KeyLast, ChildLast
<1>9. \A m \in NodeIds \ {d} : h1[m] = h[m] /\ (Live(h1, m) <=> Live(h, m))
  BY <1>2, EditsKeep DEF KeyLast
<1>10. h1[d].parent = h[d].parent /\ h1[d].isrootnode = h[d].isrootnode
       /\ (Live(h1, d) <=> Live(h, d))
  BY <1>2, EditsKeep DEF KeyLast
<1>11. \A m \in NodeIds \ {d} : Live(h, m) => SameBody(h[m], g[m])
  BY <1>6, <1>9 DEF ChildLast
<1>12. \A m \in NodeIds : Live(h, m) => g[m].parent = IF m = c THEN d ELSE h[m].parent
  BY <1>6, <1>9, <1>10 DEF ChildLast
<1>13. \A m \in NodeIds : IsLeaf(h, m) => m # d
  BY DEF IsLeaf, IsInner
<1>14. ASSUME NEW m \in NodeIds, IsLeaf(h, m)
       PROVE  /\ g[m].nextLeaf = IF IsLeaf(h, c) /\ n >= 1 /\ m = h[d].firstChild[n - 1]
                                 THEN c ELSE h[m].nextLeaf
              /\ g[m].prevLeaf = IF IsLeaf(h, c) /\ n >= 1 /\ m = c
                                 THEN h[d].firstChild[n - 1] ELSE h[m].prevLeaf
  BY <1>3, <1>4, <1>5, <1>6, <1>9, <1>13, <1>14 DEF ChildLast, Linked, Neighbour1
<1>15. /\ g # Fault /\ g[d].slotsinuse = n + 1 /\ g[d].numChildren = n + 1
       /\ \A j \in 0 .. n - 1 : /\ g[d].keySlots[j] = h[d].keySlots[j]
                                /\ g[d].firstChild[j] = h[d].firstChild[j]
       /\ g[d].keySlots[n] = k /\ g[d].firstChild[n] = c /\ g[d].isrootnode = h[d].isrootnode
  BY <1>2, <1>3, <1>4, <1>6 DEF KeyLast, ChildLast
<1> QED
  BY <1>7, <1>8, <1>11, <1>12, <1>14, <1>15 DEF PairLast, c, k

\* What becomes of d when the key k and the children c and e are put behind them.
TripleLast(h, g, d, k, c, e) ==
    LET n == h[d].slotsinuse
    IN  /\ g \in Edits(h) /\ g # Fault
        /\ g[d].slotsinuse = n + 1 /\ g[d].numChildren = n + 2
        /\ \A i \in 0 .. n - 1 : /\ g[d].keySlots[i] = h[d].keySlots[i]
                                 /\ g[d].firstChild[i] = h[d].firstChild[i]
        /\ g[d].keySlots[n] = k /\ g[d].firstChild[n] = c /\ g[d].firstChild[n + 1] = e
        /\ g[d].isrootnode = h[d].isrootnode /\ g[d].parent = h[d].parent
        /\ \A m \in NodeIds \ {d} : Live(h, m) => SameBody(h[m], g[m])
        /\ \A m \in NodeIds : Live(h, m) => g[m].parent = IF m \in {c, e} THEN d ELSE h[m].parent
        /\ \A m \in NodeIds : IsLeaf(h, m) =>
              /\ g[m].nextLeaf = IF ~IsLeaf(h, c) THEN h[m].nextLeaf
                                 ELSE IF m = c THEN e
                                 ELSE IF n >= 1 /\ m = h[d].firstChild[n - 1] THEN c
                                 ELSE h[m].nextLeaf
              /\ g[m].prevLeaf = IF ~IsLeaf(h, c) THEN h[m].prevLeaf
                                 ELSE IF m = e THEN c
                                 ELSE IF n >= 1 /\ m = c THEN h[d].firstChild[n - 1]
                                 ELSE h[m].prevLeaf

\* The pair that comes up from a split, with both its halves.
LEMMA NewPairPlaced ==
    ASSUME NEW h \in Heap, NEW d, IsInner(h, d), NEW n \in Nat, n < NodeSlots,
           h[d].slotsinuse = n, h[d].numChildren = n, NEW k \in KeySlot,
           NEW c, NEW e, Live(h, c), Live(h, e), c # d, e # d, c # e,
           IsLeaf(h, c) <=> IsLeaf(h, e),
           IsLeaf(h, c) /\ n >= 1 =>
               IsLeaf(h, h[d].firstChild[n - 1]) /\ h[d].firstChild[n - 1] \notin {c, e}
    PROVE  TripleLast(h, PlaceNewPair(h, d, k, c, e, n), d, k, c, e)
<1> DEFINE h1 == insertInnerNodeKeyAt(h, d, k, n)
           h2 == insertInnerNodeChildAt(h1, d, c, n)
           g  == insertInnerNodeChildAt(h2, d, e, n + 1)
<1>1. d \in NodeIds /\ c \in NodeIds /\ e \in NodeIds
  BY LiveTypes
<1>2. KeyLast(h, h1, d, k)
  BY <1>1, KeyAppended
<1> HIDE DEF h1
<1>3. h1 \in Heap /\ IsInner(h1, d) /\ Live(h1, c) /\ Live(h1, e) /\ h1[d].numChildren = n
  BY <1>2, EditsKeep DEF KeyLast, Edits
<1>4. h1[d].firstChild = h[d].firstChild /\ n \in ChildIndex
  BY <1>2, SlotsAssumption DEF KeyLast, ChildIndex
<1>5. \A m : /\ IsLeaf(h1, m) <=> IsLeaf(h, m)
             /\ Live(h1, m) <=> Live(h, m)
  BY <1>2, EditsKeep DEF KeyLast
<1>6. ChildLast(h1, h2, d, c)
  BY <1>3, <1>4, <1>5, ChildAppended DEF Linked, Neighbour1
<1> HIDE DEF h2
<1>7. h2 \in Heap /\ IsInner(h2, d) /\ Live(h2, e) /\ h2[d].numChildren = n + 1
      /\ h2[d].firstChild[n] = c
  BY <1>3, <1>6, EditsKeep DEF ChildLast, Edits
<1>8. \A m : /\ IsLeaf(h2, m) <=> IsLeaf(h, m)
             /\ Live(h2, m) <=> Live(h, m)
  BY <1>3, <1>5, <1>6, EditsKeep DEF ChildLast
<1>9. n + 1 \in ChildIndex /\ n + 1 >= 1 /\ (n + 1) - 1 = n
  BY SlotsAssumption DEF ChildIndex
<1>10. Neighbour1(h2, d) = c /\ (Linked(h2, d, e) <=> IsLeaf(h, c))
  BY <1>7, <1>8, <1>9 DEF Neighbour1, Linked
<1>11. ChildLast(h2, g, d, e)
  BY <1>7, <1>8, <1>9, <1>10, ChildAppended
<1>12. PlaceNewPair(h, d, k, c, e, n) = g
  BY DEF PlaceNewPair, h1, h2
<1> HIDE DEF g
<1>13. g \in Edits(h)
  <2>1. h2 \in Edits(h)
    BY <1>2, <1>3, <1>6, EditsCompose DEF KeyLast, ChildLast
  <2> QED
    BY <1>7, <1>11, <2>1, EditsCompose DEF ChildLast
<1>14. ASSUME NEW m \in NodeIds \ {d}, Live(h, m) PROVE SameBody(h[m], g[m])
  <2>1. h1[m] = h[m] /\ Live(h1, m) /\ Live(h2, m)
    BY <1>2, <1>5, <1>8, <1>14 DEF KeyLast
  <2>2. SameBody(h[m], h2[m]) /\ SameBody(h2[m], g[m])
    BY <1>6, <1>11, <2>1 DEF ChildLast
  <2> QED
    BY <2>2 DEF SameBody
<1>15. ASSUME NEW m \in NodeIds, Live(h, m)
       PROVE  g[m].parent = IF m \in {c, e} THEN d ELSE h[m].parent
  <2>1. h1[m].parent = h[m].parent /\ Live(h1, m) /\ Live(h2, m)
    BY <1>2, <1>5, <1>8, <1>15 DEF KeyLast
  <2> QED
    BY <1>6, <1>11, <2>1 DEF ChildLast
<1>16. \A m \in NodeIds : IsLeaf(h, m) => m # d
  BY DEF IsLeaf, IsInner
<1>17. Linked(h1, d, c) <=> IsLeaf(h, c) /\ n >= 1
  BY <1>3, <1>5 DEF Linked
<1>18. Neighbour1(h1, d) = h[d].firstChild[n - 1]
  BY <1>3, <1>4 DEF Neighbour1
<1>19. ASSUME NEW m \in NodeIds, IsLeaf(h, m)
       PROVE  /\ g[m].nextLeaf = IF ~IsLeaf(h, c) THEN h[m].nextLeaf
                                 ELSE IF m = c THEN e
                                 ELSE IF n >= 1 /\ m = h[d].firstChild[n - 1] THEN c
                                 ELSE h[m].nextLeaf
              /\ g[m].prevLeaf = IF ~IsLeaf(h, c) THEN h[m].prevLeaf
                                 ELSE IF m = e THEN c
                                 ELSE IF n >= 1 /\ m = c THEN h[d].firstChild[n - 1]
                                 ELSE h[m].prevLeaf
  <2>1. h1[m] = h[m] /\ IsLeaf(h1, m) /\ IsLeaf(h2, m)
    BY <1>2, <1>5, <1>8, <1>16, <1>19 DEF KeyLast
  <2>2. /\ h2[m].nextLeaf = IF Linked(h1, d, c) /\ m = Neighbour1(h1, d) THEN c ELSE h[m].nextLeaf
        /\ h2[m].prevLeaf = IF Linked(h1, d, c) /\ m = c THEN Neighbour1(h1, d) ELSE h[m].prevLeaf
    BY <1>6, <2>1 DEF ChildLast
  <2>3. /\ g[m].nextLeaf = IF IsLeaf(h, c) /\ m = c THEN e ELSE h2[m].nextLeaf
        /\ g[m].prevLeaf = IF IsLeaf(h, c) /\ m = e THEN c ELSE h2[m].prevLeaf
    BY <1>10, <1>11, <2>1 DEF ChildLast
  <2> QED
    BY <1>17, <1>18, <2>2, <2>3
<1>20. /\ h2[d].slotsinuse = n + 1 /\ h2[d].numChildren = n + 1
       /\ \A j \in 0 .. n - 1 : /\ h2[d].keySlots[j] = h[d].keySlots[j]
                                /\ h2[d].firstChild[j] = h[d].firstChild[j]
       /\ h2[d].keySlots[n] = k /\ h2[d].isrootnode = h[d].isrootnode
  BY <1>2, <1>3, <1>4, <1>6 DEF KeyLast, ChildLast
<1>21. /\ g[d].slotsinuse = h2[d].slotsinuse /\ g[d].keySlots = h2[d].keySlots
       /\ g[d].isrootnode = h2[d].isrootnode
       /\ g[d].numChildren = (n + 1) + 1 /\ g[d].firstChild[n + 1] = e /\ g # Fault
       /\ \A j \in 0 .. (n + 1) - 1 : g[d].firstChild[j] = h2[d].firstChild[j]
  BY <1>7, <1>11 DEF ChildLast
<1>22. n \in 0 .. (n + 1) - 1 /\ (n + 1) + 1 = n + 2 /\ \A j \in 0 .. n - 1 : j \in 0 .. (n + 1) - 1
  OBVIOUS
<1>23. /\ g # Fault /\ g[d].slotsinuse = n + 1 /\ g[d].numChildren = n + 2
       /\ \A j \in 0 .. n - 1 : /\ g[d].keySlots[j] = h[d].keySlots[j]
                                /\ g[d].firstChild[j] = h[d].firstChild[j]
       /\ g[d].keySlots[n] = k /\ g[d].firstChild[n] = c /\ g[d].firstChild[n + 1] = e
       /\ g[d].isrootnode = h[d].isrootnode
  BY <1>7, <1>20, <1>21, <1>22
<1>24. g[d].parent = h[d].parent
  BY <1>1, <1>15 DEF IsInner
<1> QED
  BY <1>12, <1>13, <1>14, <1>15, <1>19, <1>23, <1>24 DEF TripleLast

\* A last child that counts as gone.
LEMMA ChildDropped ==
    ASSUME NEW h \in Heap, NEW d, IsInner(h, d)
    PROVE  LET g == AddToChildren(h, d, -1)
           IN  /\ g \in Edits(h) /\ g # Fault
               /\ g[d].numChildren = h[d].numChildren - 1
               /\ g[d].slotsinuse = h[d].slotsinuse /\ g[d].keySlots = h[d].keySlots
               /\ g[d].firstChild = h[d].firstChild /\ g[d].isrootnode = h[d].isrootnode
               /\ g[d].parent = h[d].parent
               /\ \A m \in NodeIds \ {d} : g[m] = h[m]
<1> DEFINE n == h[d].numChildren
           r == [h[d] EXCEPT !.numChildren = n + -1]
           g == AddToChildren(h, d, -1)
<1>1. h[d] \in innerNode /\ d \in NodeIds /\ n \in Int
  BY LiveTypes DEF innerNode
<1>2. r \in innerNode
  <2>1. n + -1 \in Int /\ h[d] \in innerNode
    BY <1>1
  <2> HIDE DEF n
  <2> QED
    BY <2>1, InnerUpdates
<1>3. g = [h EXCEPT ![d] = r]
  BY <1>1 DEF AddToChildren, Heap
<1>4. g \in Edits(h)
  BY AddToChildrenEdits
<1>5. /\ r.numChildren = n - 1 /\ r.slotsinuse = h[d].slotsinuse /\ r.keySlots = h[d].keySlots
      /\ r.firstChild = h[d].firstChild /\ r.isrootnode = h[d].isrootnode
      /\ r.parent = h[d].parent
  BY <1>1 DEF innerNode
<1> HIDE DEF r, g
<1>6. g[d] = r /\ \A m \in NodeIds \ {d} : g[m] = h[m]
  BY <1>1, <1>3 DEF Heap
<1>7. g # Fault
  BY <1>1, <1>2, <1>6, FreeAssumption DEF Fault, node
<1> QED
  BY <1>4, <1>5, <1>6, <1>7 DEF g

\* The first half of a full parent gives its last key up, and the leaves at the cut, b
\* and c, are linked.
FirstHalfCut(h, g, d, b, c) ==
    /\ g \in Edits(h) /\ g # Fault
    /\ g[d].slotsinuse = h[d].slotsinuse - 1 /\ g[d].keySlots = h[d].keySlots
    /\ g[d].firstChild = h[d].firstChild /\ g[d].numChildren = h[d].numChildren
    /\ g[d].isrootnode = h[d].isrootnode
    /\ \A m \in NodeIds \ {d} : Live(h, m) => SameBody(h[m], g[m])
    /\ \A m \in NodeIds : Live(h, m) => g[m].parent = h[m].parent
    /\ \A m \in NodeIds : IsLeaf(h, m) =>
          /\ g[m].nextLeaf = IF IsLeaf(h, c) /\ m = b THEN c ELSE h[m].nextLeaf
          /\ g[m].prevLeaf = IF IsLeaf(h, c) /\ m = c THEN b ELSE h[m].prevLeaf

\* What the loop does at the cut.
LEMMA CutAppended ==
    ASSUME NEW h \in Heap, NEW d, IsInner(h, d), h[d].slotsinuse >= 1, h[d].slotsinuse <= NodeSlots,
           NEW p, NEW i, Live(h, p.firstChild[i]),
           IsLeaf(h, p.firstChild[i]) =>
               IsLeaf(h, p.firstChild[i - 1]) /\ p.firstChild[i - 1] # p.firstChild[i]
    PROVE  FirstHalfCut(h, CutFirstHalf(h, d, p, i), d, p.firstChild[i - 1], p.firstChild[i])
<1> DEFINE u  == h[d].slotsinuse
           r  == [h[d] EXCEPT !.slotsinuse = Dec(u)]
           h1 == [h EXCEPT ![d].slotsinuse = Dec(@)]
           b  == p.firstChild[i - 1]
           c  == p.firstChild[i]
           g  == CutFirstHalf(h, d, p, i)
<1>1. /\ h[d] \in innerNode /\ d \in NodeIds /\ u \in Nat /\ u \in UShort /\ c \in NodeIds
      /\ ~h[d].isleafnode
  BY LiveTypes, NodeTypes DEF node, IsInner
<1>2. Dec(u) = u - 1 /\ Dec(u) \in UShort
  BY <1>1, Counting, CountTypes
<1>3. r \in innerNode
  BY <1>1, <1>2, InnerUpdates
<1>4. h1 = [h EXCEPT ![d] = r]
  BY <1>1 DEF Heap
<1>5. /\ r.slotsinuse = u - 1 /\ r.keySlots = h[d].keySlots /\ r.firstChild = h[d].firstChild
      /\ r.numChildren = h[d].numChildren /\ r.isrootnode = h[d].isrootnode
      /\ r.parent = h[d].parent
  BY <1>1, <1>2 DEF innerNode
<1> HIDE DEF r, h1, u
<1>6. h1 \in Edits(h) /\ h1 \in Heap
  BY <1>3, <1>4, PutInner DEF Edits
<1>7. h1[d] = r /\ \A m \in NodeIds \ {d} : h1[m] = h[m]
  BY <1>1, <1>4 DEF Heap
<1>8. h1 # Fault
  BY <1>1, <1>3, <1>7, FreeAssumption DEF Fault, node
<1>9. g = IF h[c].isleafnode THEN LinkLeaves(h1, b, c) ELSE h1
  <2>1. h1[c].isleafnode = h[c].isleafnode
    BY <1>6, <1>8 DEF Edits, Alike, Live
  <2> QED
    BY <2>1 DEF CutFirstHalf, h1
<1>10. CASE ~IsLeaf(h, c)
  <2>1. g = h1
    BY <1>9, <1>10 DEF IsLeaf
  <2>2. \A m \in NodeIds : IsLeaf(h, m) => h1[m] = h[m]
    BY <1>1, <1>7 DEF IsLeaf
  <2>3. \A m \in NodeIds : Live(h, m) => h1[m].parent = h[m].parent
    BY <1>5, <1>7
  <2>4. \A m \in NodeIds \ {d} : Live(h, m) => SameBody(h[m], h1[m])
    BY <1>7 DEF SameBody
  <2> HIDE DEF g
  <2> QED
    BY <1>5, <1>6, <1>7, <1>8, <1>10, <2>1, <2>2, <2>3, <2>4 DEF FirstHalfCut, g, u
<1>11. CASE IsLeaf(h, c)
  <2>1. IsLeaf(h, b) /\ b # c /\ b # d /\ c # d /\ g = LinkLeaves(h1, b, c)
    BY <1>1, <1>9, <1>11 DEF IsLeaf
  <2>2. IsLeaf(h1, b) /\ IsLeaf(h1, c)
    BY <1>6, <1>8, <1>11, <2>1, EditsKeep
  <2>3. g = [h1 EXCEPT ![b].nextLeaf = c, ![c].prevLeaf = b]
    BY <2>1, <2>2 DEF LinkLeaves
  <2>4. h1[b] \in leafNode /\ h1[c] \in leafNode /\ b \in NodeIds
    BY <1>6, <2>2, LiveTypes
  <2>5. /\ g[b] = [h1[b] EXCEPT !.nextLeaf = c] /\ g[c] = [h1[c] EXCEPT !.prevLeaf = b]
        /\ \A m \in NodeIds \ {b, c} : g[m] = h1[m]
    BY <1>1, <1>6, <2>1, <2>3, <2>4 DEF Heap
  <2>6. g \in Edits(h1) /\ g \in Edits(h)
    <3>1. g \in Edits(h1)
      BY <1>6, <2>1, LinkLeavesEdits
    <3> HIDE DEF g
    <3> QED
      BY <1>6, <3>1, EditsCompose
  <2> HIDE DEF g, b, c
  <2>7. /\ SameBody(h1[b], g[b]) /\ g[b].parent = h1[b].parent /\ g[b].nextLeaf = c
        /\ g[b].prevLeaf = h1[b].prevLeaf
        /\ SameBody(h1[c], g[c]) /\ g[c].parent = h1[c].parent /\ g[c].prevLeaf = b
        /\ g[c].nextLeaf = h1[c].nextLeaf
    BY <2>4, <2>5 DEF leafNode, SameBody
  <2>8. g[d] = r
    BY <1>1, <1>7, <2>1, <2>5
  <2>9. g # Fault
    BY <1>1, <1>3, <2>8, FreeAssumption DEF Fault, node
  <2>10. ASSUME NEW m \in NodeIds \ {d} PROVE SameBody(h[m], g[m])
    <3>1. SameBody(h1[m], g[m])
      BY <2>5, <2>7 DEF SameBody
    <3> QED
      BY <1>7, <3>1
  <2>11. ASSUME NEW m \in NodeIds PROVE g[m].parent = h[m].parent
    <3>1. g[m].parent = h1[m].parent
      BY <2>5, <2>7
    <3> QED
      BY <1>5, <1>7, <3>1
  <2>12. ASSUME NEW m \in NodeIds, IsLeaf(h, m)
         PROVE  /\ g[m].nextLeaf = IF m = b THEN c ELSE h[m].nextLeaf
                /\ g[m].prevLeaf = IF m = c THEN b ELSE h[m].prevLeaf
    <3>1. h1[m] = h[m]
      BY <1>1, <1>7, <2>12 DEF IsLeaf
    <3>2. CASE m = b
      BY <2>1, <2>7, <3>1, <3>2
    <3>3. CASE m = c
      BY <2>1, <2>7, <3>1, <3>3
    <3>4. CASE m \notin {b, c}
      BY <2>5, <3>1, <3>4
    <3> QED
      BY <3>2, <3>3, <3>4
  <2> QED
    BY <1>5, <1>11, <2>6, <2>8, <2>9, <2>10, <2>11, <2>12 DEF FirstHalfCut, g, b, c, u
<1> QED
  BY <1>10, <1>11

\* The halves s of the full leaf r, the key k behind all the others.
SplitAppends(r, s, k) ==
    LET n    == r.slotsinuse
        half == n \div 2
    IN  /\ half \in Nat /\ 1 <= half /\ half < n /\ n = LeafSlots /\ n \in Nat
        /\ s.ln.isleafnode = TRUE /\ s.ln.isrootnode = FALSE /\ s.ln.slotsinuse = half
        /\ s.ln.parent = NULL /\ s.ln.nextLeaf = NULL /\ s.ln.prevLeaf = NULL
        /\ s.lp.isleafnode = TRUE /\ s.lp.isrootnode = FALSE
        /\ s.lp.slotsinuse = n + 1 - half
        /\ s.lp.parent = NULL /\ s.lp.nextLeaf = NULL /\ s.lp.prevLeaf = NULL
        /\ \A i \in 0 .. half - 1 : s.ln.keySlots[i] = r.keySlots[i]
        /\ \A i \in 0 .. n - half :
              s.lp.keySlots[i] = IF half + i < n THEN r.keySlots[half + i] ELSE k

\* A full leaf that a larger key comes to is split in the middle.
LEMMA SplitLeafAppends ==
    ASSUME NEW r \in leafNode, isfull(r), NEW k \in Keys, NEW d,
           \A i \in 0 .. r.slotsinuse - 1 : r.keySlots[i] \in Keys /\ r.keySlots[i] < k
    PROVE  SplitAppends(r, SplitLeaf(r, k, d), k)
<1> DEFINE above == SlotsAbove(r, k)
           n     == r.slotsinuse
           first == IF above # {} /\ Least(above) = 0 THEN 1 ELSE 0
           keys  == [r.keySlots  EXCEPT ![0] = IF first = 1 THEN k ELSE @]
           data  == [r.dataSlots EXCEPT ![0] = IF first = 1 THEN d ELSE @]
           pos   == IF above = {} THEN n ELSE IF first = 1 THEN 1 ELSE Least(above)
           half  == n \div 2
           low   == IF pos < half THEN half + 1 ELSE half
           Pair(i) == IF i < pos THEN <<keys[i], data[i]>>
                      ELSE IF i = pos THEN <<k, d>> ELSE <<keys[i - 1], data[i - 1]>>
           Leaf(from, count) ==
             [NewLeaf EXCEPT
                !.slotsinuse = count,
                !.keySlots   = [i \in LeafIndex |->
                                   IF i < count THEN Pair(from + i)[1] ELSE Junk],
                !.dataSlots  = [i \in LeafIndex |->
                                   IF i < count THEN Pair(from + i)[2] ELSE EmptyData]]
<1>1. n \in Nat /\ n = LeafSlots /\ n \in 2 .. 1000 /\ r.keySlots \in [0 .. n - 1 -> KeySlot]
  BY NodeTypes, SlotsAssumption DEF isfull, node
<1>2. half \in Nat /\ 1 <= half /\ half < n
  <2> HIDE DEF n
  <2> QED
    BY <1>1
<1>3. above = {}
  <2>1. \A i \in 0 .. n - 1 : ~(r.keySlots[i] > k)
    BY KeysAssumption
  <2> QED
    BY <2>1 DEF SlotsAbove
<1>4. first = 0 /\ pos = n
  BY <1>3
<1>5. keys = r.keySlots
  BY <1>1, <1>4
<1> HIDE DEF above, first, keys, data, pos
<1>6. low = half
  BY <1>1, <1>2, <1>4
<1>7. ASSUME NEW from \in 0 .. n, NEW count \in 0 .. n, from + count <= n + 1
      PROVE  /\ Leaf(from, count).slotsinuse = count /\ Leaf(from, count).isleafnode = TRUE
             /\ Leaf(from, count).isrootnode = FALSE /\ Leaf(from, count).parent = NULL
             /\ Leaf(from, count).nextLeaf = NULL /\ Leaf(from, count).prevLeaf = NULL
             /\ \A i \in 0 .. count - 1 :
                  Leaf(from, count).keySlots[i] =
                     IF from + i < n THEN r.keySlots[from + i] ELSE k
  <2> DEFINE ks == [i \in LeafIndex |-> IF i < count THEN Pair(from + i)[1] ELSE Junk]
             ds == [i \in LeafIndex |-> IF i < count THEN Pair(from + i)[2] ELSE EmptyData]
  <2>1. Leaf(from, count) = [NewLeaf EXCEPT !.slotsinuse = count, !.keySlots = ks, !.dataSlots = ds]
    OBVIOUS
  <2>2. ASSUME NEW i \in 0 .. count - 1
        PROVE  ks[i] = IF from + i < n THEN r.keySlots[from + i] ELSE k
    <3>1. i \in LeafIndex /\ i < count /\ from + i \in 0 .. n /\ (~(from + i < n) => from + i = n)
      BY <1>1, <1>7 DEF LeafIndex
    <3>2. ks[i] = Pair(from + i)[1]
      BY <3>1
    <3>3. CASE from + i < n
      <4>1. Pair(from + i) = <<keys[from + i], data[from + i]>>
        BY <1>4, <3>3
      <4> HIDE DEF Pair, ks
      <4> QED
        BY <1>5, <3>2, <3>3, <4>1
    <3>4. CASE ~(from + i < n)
      <4>1. Pair(from + i) = <<k, d>>
        BY <1>1, <1>4, <3>1, <3>4
      <4> HIDE DEF Pair, ks
      <4> QED
        BY <3>2, <3>4, <4>1
    <3> QED
      BY <3>3, <3>4
  <2> HIDE DEF ks, ds, Leaf, n
  <2>3. /\ Leaf(from, count).slotsinuse = count /\ Leaf(from, count).isleafnode = TRUE
        /\ Leaf(from, count).isrootnode = FALSE /\ Leaf(from, count).parent = NULL
        /\ Leaf(from, count).nextLeaf = NULL /\ Leaf(from, count).prevLeaf = NULL
        /\ Leaf(from, count).keySlots = ks
    BY <2>1 DEF NewLeaf
  <2> QED
    BY <2>2, <2>3
<1>8. SplitLeaf(r, k, d) = [ln |-> Leaf(0, low), lp |-> Leaf(low, n + 1 - low)]
  BY DEF SplitLeaf, above, first, keys, data, pos
<1> HIDE DEF Leaf, low, n, half
<1>9. /\ 0 \in 0 .. n /\ half \in 0 .. n /\ 0 + half <= n + 1
      /\ n + 1 - half \in 0 .. n /\ half + (n + 1 - half) <= n + 1
      /\ (n + 1 - half) - 1 = n - half
      /\ \A i \in 0 .. half - 1 : 0 + i < n /\ 0 + i = i
  BY <1>1, <1>2
<1>10. SplitLeaf(r, k, d).ln = Leaf(0, half) /\ SplitLeaf(r, k, d).lp = Leaf(half, n + 1 - half)
  BY <1>6, <1>8
<1>11. /\ Leaf(0, half).slotsinuse = half /\ Leaf(0, half).isleafnode = TRUE
       /\ Leaf(0, half).isrootnode = FALSE /\ Leaf(0, half).parent = NULL
       /\ Leaf(0, half).nextLeaf = NULL /\ Leaf(0, half).prevLeaf = NULL
       /\ \A i \in 0 .. half - 1 : Leaf(0, half).keySlots[i] = r.keySlots[i]
  <2>1. /\ Leaf(0, half).slotsinuse = half /\ Leaf(0, half).isleafnode = TRUE
        /\ Leaf(0, half).isrootnode = FALSE /\ Leaf(0, half).parent = NULL
        /\ Leaf(0, half).nextLeaf = NULL /\ Leaf(0, half).prevLeaf = NULL
        /\ \A i \in 0 .. half - 1 :
              Leaf(0, half).keySlots[i] = IF 0 + i < n THEN r.keySlots[0 + i] ELSE k
    BY <1>7, <1>9
  <2> QED
    BY <1>9, <2>1
<1>12. /\ Leaf(half, n + 1 - half).slotsinuse = n + 1 - half
       /\ Leaf(half, n + 1 - half).isleafnode = TRUE
       /\ Leaf(half, n + 1 - half).isrootnode = FALSE /\ Leaf(half, n + 1 - half).parent = NULL
       /\ Leaf(half, n + 1 - half).nextLeaf = NULL /\ Leaf(half, n + 1 - half).prevLeaf = NULL
       /\ \A i \in 0 .. n - half :
             Leaf(half, n + 1 - half).keySlots[i] =
                IF half + i < n THEN r.keySlots[half + i] ELSE k
  <2> DEFINE c == n + 1 - half
  <2>1. c \in 0 .. n /\ half \in 0 .. n /\ half + c <= n + 1 /\ c - 1 = n - half
    BY <1>9
  <2> HIDE DEF c
  <2>2. /\ Leaf(half, c).slotsinuse = c
        /\ Leaf(half, c).isleafnode = TRUE
        /\ Leaf(half, c).isrootnode = FALSE /\ Leaf(half, c).parent = NULL
        /\ Leaf(half, c).nextLeaf = NULL /\ Leaf(half, c).prevLeaf = NULL
        /\ \A i \in 0 .. c - 1 :
              Leaf(half, c).keySlots[i] = IF half + i < n THEN r.keySlots[half + i] ELSE k
    <3>1. half \in 0 .. n /\ c \in 0 .. n /\ half + c <= n + 1
      BY <2>1
    <3> HIDE DEF Leaf
    <3> QED
      <4>1. ASSUME NEW f \in 0 .. n, f + c <= n + 1
            PROVE  /\ Leaf(f, c).slotsinuse = c /\ Leaf(f, c).isleafnode = TRUE
                   /\ Leaf(f, c).isrootnode = FALSE /\ Leaf(f, c).parent = NULL
                   /\ Leaf(f, c).nextLeaf = NULL /\ Leaf(f, c).prevLeaf = NULL
                   /\ \A i \in 0 .. c - 1 :
                         Leaf(f, c).keySlots[i] = IF f + i < n THEN r.keySlots[f + i] ELSE k
        BY <1>7, <3>1, <4>1
      <4> QED
        BY <3>1, <4>1
  <2> QED
    BY <2>1, <2>2 DEF c
<1> QED
  BY <1>1, <1>2, <1>10, <1>11, <1>12 DEF SplitAppends, n, half

-----------------------------------------------------------------------------
\* What the heap h says of node m of the tree t.
LeafSays(h, t, m) ==
    LET s == h[m].slotsinuse
    IN  /\ IsLeaf(h, m) /\ s >= 1
        /\ \A i \in 0 .. s - 1 : /\ h[m].keySlots[i] \in Keys
                                 /\ t.lo[m] <= h[m].keySlots[i] /\ h[m].keySlots[i] < t.hi[m]
        /\ \A i, j \in 0 .. s - 1 : i < j => h[m].keySlots[i] < h[m].keySlots[j]
        /\ t.hi[m] = t.top => h[m].keySlots[s - 1] = t.top - 1

InnerSays(h, t, m) ==
    /\ IsInner(h, m) /\ h[m].slotsinuse = t.cnt[m] /\ h[m].numChildren = t.cnt[m] + 1
    /\ \A i \in 0 .. t.cnt[m] - 1 : h[m].keySlots[i] = t.ks[m][i]
    /\ \A i \in 0 .. t.cnt[m] : h[m].firstChild[i] = t.ch[m][i]

Says(h, t, m) == IF t.lev[m] = 0 THEN LeafSays(h, t, m) ELSE InnerSays(h, t, m)

\* A node below the root is not flagged as root and is half full.
HalfFull(h, t, m) ==
    /\ ~h[m].isrootnode
    /\ IF t.lev[m] = 0 THEN h[m].slotsinuse >= LeafSlots \div 2
                       ELSE t.cnt[m] >= NodeSlots \div 2
Fit(h, t, m) == t.par[m] # NULL => HalfFull(h, t, m)

\* The chain of leaves; the leaf before X does not lead to X yet, nor X back to it.
Follows(t, a, b) == a \in t.G /\ b \in t.G /\ t.lev[a] = 0 /\ t.lev[b] = 0 /\ t.lo[b] = t.hi[a]
After(h, t, X, m) ==
    \/ t.hi[m] = t.top /\ h[m].nextLeaf = NULL
    \/ \E b : Follows(t, m, b) /\ (h[m].nextLeaf = b \/ b = X)
Before(h, t, X, m) ==
    \/ t.lo[m] = t.bot /\ h[m].prevLeaf = NULL
    \/ \E a : Follows(t, a, m) /\ (h[m].prevLeaf = a \/ m = X)

\* The heap h holds the tree t but for the node W, the parents of F and the links of X.
Stands(h, t, W, F, X) ==
    /\ SearchTree(t) /\ IsFiniteSet(t.G)
    /\ \A m \in t.G : /\ m # W => Says(h, t, m)
                      /\ Fit(h, t, m)
                      /\ m \notin F => h[m].parent = t.par[m]
                      /\ t.lev[m] = 0 => After(h, t, X, m) /\ Before(h, t, X, m)

\* r is the root of the tree.
Crown(t, r) ==
    /\ r \in t.G /\ t.lo[r] = t.bot /\ t.hi[r] = t.top /\ t.lev[r] = t.height
    /\ \A m \in t.G : t.par[m] = NULL <=> m = r

\* The trees t and u say the same of node m.
Agree(t, u, m) ==
    /\ u.lev[m] = t.lev[m] /\ u.lo[m] = t.lo[m] /\ u.hi[m] = t.hi[m] /\ u.top = t.top
    /\ u.cnt[m] = t.cnt[m]
    /\ \A i \in Nat : u.ks[m][i] = t.ks[m][i] /\ u.ch[m][i] = t.ch[m][i]

-----------------------------------------------------------------------------
\* The body of a node is all the tree needs.
LEMMA SaysKept ==
    ASSUME NEW h \in Heap, NEW g \in Edits(h), g # Fault, NEW t, NEW u, NEW m \in NodeIds,
           SameBody(h[m], g[m]), Agree(t, u, m), Says(h, t, m), t.cnt[m] \in Nat \/ t.lev[m] = 0
    PROVE  Says(g, u, m)
<1>1. (IsLeaf(g, m) <=> IsLeaf(h, m)) /\ (IsInner(g, m) <=> IsInner(h, m))
  BY EditsKeep
<1>2. CASE t.lev[m] = 0
  BY <1>1, <1>2 DEF Says, LeafSays, SameBody, Agree
<1>3. CASE t.lev[m] # 0
  <2>1. InnerSays(h, t, m) /\ t.cnt[m] \in Nat /\ u.cnt[m] = t.cnt[m]
    BY <1>3 DEF Says, Agree
  <2>2. ~h[m].isleafnode
    BY <2>1 DEF InnerSays, IsInner
  <2>3. \A i \in 0 .. t.cnt[m] : i \in Nat
    BY <2>1
  <2>4. \A i \in 0 .. t.cnt[m] - 1 : i \in Nat
    BY <2>1
  <2>5. InnerSays(g, u, m)
    BY <1>1, <2>1, <2>2, <2>3, <2>4 DEF InnerSays, SameBody, Agree
  <2> QED
    BY <1>3, <2>5 DEF Says, Agree
<1> QED
  BY <1>2, <1>3

\* So it is for how full the node is.
LEMMA HalfFullKept ==
    ASSUME NEW h, NEW g, NEW t, NEW u, NEW m, SameBody(h[m], g[m]), Agree(t, u, m),
           HalfFull(h, t, m)
    PROVE  HalfFull(g, u, m)
  BY DEF HalfFull, SameBody, Agree

\* What a search tree says of the numbers of a node.
LEMMA Numbers ==
    ASSUME NEW t, SearchTree(t), NEW m \in t.G
    PROVE  /\ m \in NodeIds /\ m # NULL /\ t.lev[m] \in Nat /\ t.lo[m] \in Int /\ t.hi[m] \in Int
           /\ t.bot \in Int /\ t.top \in Int /\ t.height \in Nat /\ t.lev[m] <= t.height
           /\ t.bot <= t.lo[m] /\ t.lo[m] < t.hi[m] /\ t.hi[m] <= t.top
           /\ t.lev[m] # 0 => t.cnt[m] \in Nat /\ t.cnt[m] >= 1
           /\ t.par[m] # NULL => t.par[m] \in t.G
  BY NodeIdsAssumption DEF SearchTree, Bounds, Inner, Hung

\* Two nodes of a level with a common key are one.
LEMMA Unique ==
    ASSUME NEW t, SearchTree(t), NEW m \in t.G, NEW n \in t.G, t.lev[m] = t.lev[n],
           t.lo[m] = t.lo[n] \/ t.hi[m] = t.hi[n]
    PROVE  m = n
<1>1. m # n => t.hi[m] <= t.lo[n] \/ t.hi[n] <= t.lo[m]
  BY DEF SearchTree, Apart
<1> QED
  BY <1>1, Numbers

\* The way up after a split: the halves N and Nprime of the node that was split are in the
\* tree t with the key k between them, but their parent still has the old node as its last
\* child.  Nodes that were split, the leaf l.n and the inner nodes l.leaked, are not in t.
Behind(h, t, l) ==
    LET P == l.parent
        s == h[P].slotsinuse
        O == h[P].firstChild[s]
    IN  /\ P \in t.G /\ t.lev[P] > 0 /\ t.hi[P] = t.top
        /\ IsInner(h, P) /\ s >= 1 /\ h[P].numChildren = s + 1 /\ t.cnt[P] = s + 1
        /\ \A i \in 0 .. s - 1 : h[P].keySlots[i] = t.ks[P][i] /\ h[P].firstChild[i] = t.ch[P][i]
        /\ t.ks[P][s] = l.k /\ t.ch[P][s] = l.N /\ t.ch[P][s + 1] = l.Nprime
        /\ O \in {l.n} \cup l.leaked /\ Live(h, O) /\ (IsLeaf(h, O) <=> t.lev[P] = 1)

Climbing(h, t, l, r) ==
    /\ l.N \in t.G /\ l.Nprime \in t.G /\ l.N # l.Nprime /\ l.k \in Keys
    /\ HalfFull(h, t, l.N) /\ HalfFull(h, t, l.Nprime)
    /\ Live(h, l.n) /\ ({l.n} \cup l.leaked) \cap t.G = {}
    /\ l.parent = NULL => /\ Halves(t, l.N, l.Nprime, l.k)
                          /\ \A m \in t.G : t.par[m] = NULL => m \in {l.N, l.Nprime}
    /\ l.parent # NULL => Crown(t, r) /\ Behind(h, t, l)

-----------------------------------------------------------------------------
\* The fields of a tree with a node replaced.
LEMMA ReplaceFields ==
    ASSUME NEW t, NEW o, NEW a, NEW b, NEW k, NEW half \in Nat
    PROVE  LET u == Replace(t, o, a, b, k, half)
               q == t.par[o]
               d == half + 1
           IN  /\ u.G = (t.G \ {o}) \cup {a, b} /\ u.bot = t.bot /\ u.top = t.top
               /\ u.height = t.height
               /\ \A m \in NodeIds :
                  /\ u.lev[m] = IF m \in {a, b} THEN t.lev[o] ELSE t.lev[m]
                  /\ u.par[m] = IF m \in {a, b} THEN q ELSE IF t.par[m] # o THEN t.par[m]
                                ELSE IF t.ix[m] <= half THEN a ELSE b
                  /\ u.cnt[m] = IF m = a THEN half ELSE IF m = b THEN t.cnt[o] - d
                                ELSE IF m = q THEN t.cnt[q] + 1 ELSE t.cnt[m]
                  /\ u.lo[m] = IF m = a THEN t.lo[o] ELSE IF m = b THEN k ELSE t.lo[m]
                  /\ u.hi[m] = IF m = a THEN k ELSE IF m = b THEN t.hi[o] ELSE t.hi[m]
               /\ \A m \in NodeIds, i \in Nat :
                  /\ u.ks[m][i] = IF m = a THEN t.ks[o][i] ELSE IF m = b THEN t.ks[o][i + d]
                                  ELSE IF m = q /\ i = t.cnt[q] THEN k ELSE t.ks[m][i]
                  /\ u.ch[m][i] = IF m = a THEN t.ch[o][i] ELSE IF m = b THEN t.ch[o][i + d]
                                  ELSE IF m = q /\ i = t.cnt[q] THEN a
                                  ELSE IF m = q /\ i = t.cnt[q] + 1 THEN b ELSE t.ch[m][i]
  BY DEF Replace

\* Replacing the last node of a level by its halves a and b leaves a tree that stands but
\* for the parent above and the links of a.
LEMMA ReplaceStands ==
    ASSUME NEW h \in Heap, NEW t, SearchTree(t), IsFiniteSet(t.G),
           NEW o \in t.G, t.hi[o] = t.top, NEW a \in NodeIds \ t.G, NEW b \in NodeIds \ t.G, a # b,
           NEW k \in Keys, t.lo[o] < k, k < t.hi[o], NEW half \in Nat,
           t.lev[o] > 0 => half >= 1 /\ half + 2 <= t.cnt[o] /\ k = t.ks[o][half],
           NEW u, u = Replace(t, o, a, b, k, half),
           \A m \in t.G \ {o} :
              /\ Says(h, t, m) /\ Fit(h, t, m)
              /\ h[m].parent = IF t.par[m] # o THEN t.par[m] ELSE IF t.ix[m] <= half THEN a ELSE b,
           Says(h, u, a), Says(h, u, b), HalfFull(h, u, a), HalfFull(h, u, b),
           \A m \in t.G : t.lev[m] = 0 => After(h, t, NULL, m) /\ Before(h, t, NULL, m),
           t.lev[o] = 0 => /\ h[a].nextLeaf = b /\ h[a].prevLeaf = NULL
                           /\ h[b].nextLeaf = NULL /\ h[b].prevLeaf = a
    PROVE  Stands(h, u, t.par[o], {a, b}, a)
<1> DEFINE q == t.par[o]
<1>1. SearchTree(u)
  BY ReplaceTree
<1>2. IsFiniteSet(u.G)
  <2>1. u.G = ((t.G \ {o}) \cup {a}) \cup {b}
    BY DEF Replace
  <2>2. IsFiniteSet(t.G \ {o})
    BY FS_Subset
  <2>3. IsFiniteSet((t.G \ {o}) \cup {a})
    BY <2>2, FS_AddElement
  <2> QED
    BY <2>1, <2>3, FS_AddElement
<1>3. /\ u.G = (t.G \ {o}) \cup {a, b} /\ u.bot = t.bot /\ u.top = t.top
      /\ \A m \in NodeIds :
         /\ u.lev[m] = IF m \in {a, b} THEN t.lev[o] ELSE t.lev[m]
         /\ u.par[m] = IF m \in {a, b} THEN q ELSE IF t.par[m] # o THEN t.par[m]
                       ELSE IF t.ix[m] <= half THEN a ELSE b
         /\ u.cnt[m] = IF m = a THEN half ELSE IF m = b THEN t.cnt[o] - (half + 1)
                       ELSE IF m = q THEN t.cnt[q] + 1 ELSE t.cnt[m]
         /\ u.lo[m] = IF m = a THEN t.lo[o] ELSE IF m = b THEN k ELSE t.lo[m]
         /\ u.hi[m] = IF m = a THEN k ELSE IF m = b THEN t.hi[o] ELSE t.hi[m]
      /\ \A m \in NodeIds, i \in Nat :
         /\ m \notin {a, b, q} => u.ks[m][i] = t.ks[m][i] /\ u.ch[m][i] = t.ch[m][i]
  BY ReplaceFields
<1>4. NULL \notin NodeIds /\ t.G \subseteq NodeIds /\ q # o
  <2>1. q # NULL => q # o
    BY LastChild
  <2> QED
    BY <2>1, NodeIdsAssumption DEF SearchTree, Bounds
<1> HIDE DEF q
<1>5. ASSUME NEW m \in t.G \ {o}
      PROVE  /\ m \in NodeIds /\ m \notin {a, b} /\ m \in u.G
             /\ u.lev[m] = t.lev[m] /\ u.lo[m] = t.lo[m] /\ u.hi[m] = t.hi[m]
             /\ (u.par[m] = NULL <=> t.par[m] = NULL)
             /\ u.par[m] = h[m].parent
             /\ m # q => Agree(t, u, m)
  <2>1. m \in NodeIds /\ m \notin {a, b} /\ m \in u.G /\ o \in NodeIds
    BY <1>3, <1>4
  <2>2. u.lev[m] = t.lev[m] /\ u.lo[m] = t.lo[m] /\ u.hi[m] = t.hi[m] /\ u.par[m] = h[m].parent
    BY <1>3, <2>1
  <2>3. u.par[m] = NULL <=> t.par[m] = NULL
    BY <1>3, <1>4, <2>1
  <2>4. m # q => Agree(t, u, m)
    BY <1>3, <2>1, <2>2 DEF Agree
  <2> QED
    BY <2>1, <2>2, <2>3, <2>4
<1>6. ASSUME NEW m \in t.G \ {o}, m # q PROVE Says(h, u, m)
  <2>1. h \in Edits(h) /\ h # Fault
    <3>1. Live(h, m)
      BY <1>6 DEF Says, LeafSays, InnerSays, IsLeaf, IsInner
    <3> QED
      BY <3>1, Unedited DEF Fault, Live
  <2>2. SameBody(h[m], h[m])
    BY DEF SameBody
  <2>3. t.cnt[m] \in Nat \/ t.lev[m] = 0
    BY Numbers
  <2> QED
    BY <1>5, <1>6, <2>1, <2>2, <2>3, SaysKept
<1>7. ASSUME NEW m \in t.G \ {o} PROVE Fit(h, u, m)
  <2>1. CASE m = q
    <3>1. u.cnt[q] = t.cnt[q] + 1 /\ q # NULL /\ q \in t.G
      BY <1>3, <1>4, <1>5, <2>1
    <3>2. t.lev[q] = t.lev[o] + 1 /\ t.lev[o] \in Nat /\ t.cnt[q] \in Nat
      BY <3>1, LastChild, Numbers DEF q
    <3>3. t.lev[q] # 0
      BY <3>2
    <3>4. NodeSlots \div 2 \in Int
      BY SlotsAssumption
    <3>5. Fit(h, t, q)
      BY <2>1
    <3> QED
      BY <1>5, <2>1, <3>1, <3>2, <3>3, <3>4, <3>5 DEF Fit, HalfFull
  <2>2. CASE m # q
    BY <1>5, <2>2 DEF Fit, HalfFull, Agree
  <2> QED
    BY <2>1, <2>2
<1>8. \A m \in {a, b} : Fit(h, u, m)
  BY DEF Fit
<1>9. \A m \in t.G : t.lev[m] = 0 =>
        /\ t.lo[m] \in Int /\ t.hi[m] \in Int /\ t.lo[m] < t.hi[m] /\ t.hi[m] <= t.top /\ t.top \in Int
  BY Numbers
<1>10. a \in u.G /\ b \in u.G /\ u.lev[a] = t.lev[o] /\ u.lev[b] = t.lev[o]
       /\ u.lo[a] = t.lo[o] /\ u.hi[a] = k /\ u.lo[b] = k /\ u.hi[b] = t.top
  BY <1>3
<1>11. ASSUME NEW m \in u.G, u.lev[m] = 0 PROVE After(h, u, a, m)
  <2>1. CASE m \in t.G \ {o}
    <3>1. After(h, t, NULL, m) /\ t.lev[m] = 0
      BY <1>5, <1>11, <2>1
    <3>2. CASE t.hi[m] = t.top /\ h[m].nextLeaf = NULL
      BY <1>3, <1>5, <2>1, <3>2 DEF After
    <3>3. CASE \E c : Follows(t, m, c) /\ (h[m].nextLeaf = c \/ c = NULL)
      <4>1. PICK c : Follows(t, m, c) /\ (h[m].nextLeaf = c \/ c = NULL)
        BY <3>3
      <4>2. c \in t.G /\ t.lev[c] = 0 /\ t.lo[c] = t.hi[m] /\ h[m].nextLeaf = c
        BY <1>4, <4>1 DEF Follows
      <4>3. CASE c = o
        <5>1. Follows(u, m, a)
          BY <1>5, <1>10, <1>11, <2>1, <4>2, <4>3 DEF Follows
        <5> QED
          BY <5>1 DEF After
      <4>4. CASE c # o
        <5>1. Follows(u, m, c)
          BY <1>5, <1>11, <2>1, <4>2, <4>4 DEF Follows
        <5> QED
          BY <4>2, <5>1 DEF After
      <4> QED
        BY <4>3, <4>4
    <3> QED
      BY <3>1, <3>2, <3>3 DEF After
  <2>2. CASE m = a
    <3>1. t.lev[o] = 0
      BY <1>10, <1>11, <2>2
    <3>2. Follows(u, a, b)
      BY <1>10, <3>1 DEF Follows
    <3> QED
      BY <2>2, <3>1, <3>2 DEF After
  <2>3. CASE m = b
    <3>1. t.lev[o] = 0
      BY <1>10, <1>11, <2>3
    <3> QED
      BY <1>3, <1>10, <2>3, <3>1 DEF After
  <2> QED
    BY <1>3, <2>1, <2>2, <2>3
<1>12. ASSUME NEW m \in u.G, u.lev[m] = 0 PROVE Before(h, u, a, m)
  <2>1. CASE m \in t.G \ {o}
    <3>1. Before(h, t, NULL, m) /\ t.lev[m] = 0
      BY <1>5, <1>12, <2>1
    <3>2. CASE t.lo[m] = t.bot /\ h[m].prevLeaf = NULL
      BY <1>3, <1>5, <2>1, <3>2 DEF Before
    <3>3. CASE \E c : Follows(t, c, m) /\ (h[m].prevLeaf = c \/ m = NULL)
      <4>1. PICK c : Follows(t, c, m) /\ (h[m].prevLeaf = c \/ m = NULL)
        BY <3>3
      <4>2. c \in t.G /\ t.lev[c] = 0 /\ t.lo[m] = t.hi[c] /\ h[m].prevLeaf = c
        BY <1>4, <1>5, <2>1, <4>1 DEF Follows
      <4>3. c # o
        BY <1>9, <2>1, <3>1, <4>2
      <4>4. Follows(u, c, m)
        BY <1>5, <1>12, <2>1, <4>2, <4>3 DEF Follows
      <4> QED
        BY <4>2, <4>4 DEF Before
    <3> QED
      BY <3>1, <3>2, <3>3 DEF Before
  <2>2. CASE m = a
    <3>1. t.lev[o] = 0
      BY <1>10, <1>12, <2>2
    <3>2. Before(h, t, NULL, o)
      BY <3>1
    <3>3. CASE t.lo[o] = t.bot
      BY <1>3, <1>10, <2>2, <3>1, <3>3 DEF Before
    <3>4. CASE \E c : Follows(t, c, o)
      <4>1. PICK c : Follows(t, c, o)
        BY <3>4
      <4>2. c \in t.G /\ t.lev[c] = 0 /\ t.lo[o] = t.hi[c] /\ c # o
        BY <1>9, <4>1 DEF Follows
      <4>3. Follows(u, c, a)
        BY <1>5, <1>10, <3>1, <4>2 DEF Follows
      <4> QED
        BY <2>2, <4>3 DEF Before
    <3> QED
      BY <3>2, <3>3, <3>4 DEF Before
  <2>3. CASE m = b
    <3>1. t.lev[o] = 0
      BY <1>10, <1>12, <2>3
    <3>2. Follows(u, a, b)
      BY <1>10, <3>1 DEF Follows
    <3> QED
      BY <2>3, <3>1, <3>2 DEF Before
  <2> QED
    BY <1>3, <2>1, <2>2, <2>3
<1>13. ASSUME NEW m \in u.G
       PROVE  /\ m # q => Says(h, u, m)
              /\ Fit(h, u, m)
              /\ m \notin {a, b} => h[m].parent = u.par[m]
  BY <1>3, <1>5, <1>6, <1>7, <1>8
<1> QED
  BY <1>1, <1>2, <1>11, <1>12, <1>13 DEF Stands, q
\* The same, its hypotheses taken together: in h the halves a and b of o stand for o.
Halved(h, t, o, a, b, k, half, u) ==
    /\ h \in Heap /\ SearchTree(t) /\ IsFiniteSet(t.G)
    /\ o \in t.G /\ t.hi[o] = t.top /\ a \in NodeIds \ t.G /\ b \in NodeIds \ t.G /\ a # b
    /\ k \in Keys /\ t.lo[o] < k /\ k < t.hi[o] /\ half \in Nat
    /\ t.lev[o] > 0 => half >= 1 /\ half + 2 <= t.cnt[o] /\ k = t.ks[o][half]
    /\ u = Replace(t, o, a, b, k, half)
    /\ \A m \in t.G \ {o} :
          /\ Says(h, t, m) /\ Fit(h, t, m)
          /\ h[m].parent = IF t.par[m] # o THEN t.par[m] ELSE IF t.ix[m] <= half THEN a ELSE b
    /\ Says(h, u, a) /\ Says(h, u, b) /\ HalfFull(h, u, a) /\ HalfFull(h, u, b)
    /\ \A m \in t.G : t.lev[m] = 0 => After(h, t, NULL, m) /\ Before(h, t, NULL, m)
    /\ t.lev[o] = 0 => /\ h[a].nextLeaf = b /\ h[a].prevLeaf = NULL
                       /\ h[b].nextLeaf = NULL /\ h[b].prevLeaf = a

\* The two new nodes of a split stand for the old one.
LEMMA HalvesStand ==
    ASSUME NEW h, NEW t, NEW o, NEW a, NEW b, NEW k, NEW half, NEW u,
           Halved(h, t, o, a, b, k, half, u)
    PROVE  Stands(h, u, t.par[o], {a, b}, a)
<1>1. /\ h \in Heap /\ SearchTree(t) /\ IsFiniteSet(t.G)
      /\ o \in t.G /\ t.hi[o] = t.top /\ a \in NodeIds \ t.G /\ b \in NodeIds \ t.G /\ a # b
      /\ k \in Keys /\ t.lo[o] < k /\ k < t.hi[o] /\ half \in Nat
  BY DEF Halved
<1>2. t.lev[o] > 0 => half >= 1 /\ half + 2 <= t.cnt[o] /\ k = t.ks[o][half]
  BY DEF Halved
<1>3. u = Replace(t, o, a, b, k, half)
  BY DEF Halved
<1>4. \A m \in t.G \ {o} :
         /\ Says(h, t, m) /\ Fit(h, t, m)
         /\ h[m].parent = IF t.par[m] # o THEN t.par[m] ELSE IF t.ix[m] <= half THEN a ELSE b
  BY DEF Halved
<1>5. Says(h, u, a) /\ Says(h, u, b) /\ HalfFull(h, u, a) /\ HalfFull(h, u, b)
  BY DEF Halved
<1>6. \A m \in t.G : t.lev[m] = 0 => After(h, t, NULL, m) /\ Before(h, t, NULL, m)
  BY DEF Halved
<1>7. t.lev[o] = 0 => /\ h[a].nextLeaf = b /\ h[a].prevLeaf = NULL
                      /\ h[b].nextLeaf = NULL /\ h[b].prevLeaf = a
  BY DEF Halved
<1> QED
  BY <1>1, <1>2, <1>3, <1>4, <1>5, <1>6, <1>7, ReplaceStands

\* insert_in_parent is called with the halves of a last node o.
LEMMA ReplaceClimbs ==
    ASSUME NEW h \in Heap, NEW t, SearchTree(t), NEW r, Crown(t, r),
           NEW o \in t.G, t.hi[o] = t.top, NEW a \in NodeIds \ t.G, NEW b \in NodeIds \ t.G, a # b,
           NEW k \in Keys, t.lo[o] < k, k < t.hi[o], NEW half \in Nat,
           NEW u, u = Replace(t, o, a, b, k, half), SearchTree(u),
           HalfFull(h, u, a), HalfFull(h, u, b),
           t.par[o] # NULL => Says(h, t, t.par[o]),
           Live(h, o), IsLeaf(h, o) <=> t.lev[o] = 0,
           NEW n, Live(h, n), NEW leaked, ({n} \cup leaked) \cap t.G \subseteq {o}, o \in {n} \cup leaked,
           a \notin {n} \cup leaked, b \notin {n} \cup leaked,
           NEW l, l.parent = t.par[o], l.N = a, l.Nprime = b, l.k = k, l.n = n, l.leaked = leaked
    PROVE  Climbing(h, u, l, r)
<1> DEFINE q == t.par[o]
           e == t.cnt[q]
<1>1. /\ u.G = (t.G \ {o}) \cup {a, b} /\ u.bot = t.bot /\ u.top = t.top
      /\ u.height = t.height
      /\ \A m \in NodeIds :
         /\ u.lev[m] = IF m \in {a, b} THEN t.lev[o] ELSE t.lev[m]
         /\ u.par[m] = IF m \in {a, b} THEN q ELSE IF t.par[m] # o THEN t.par[m]
                       ELSE IF t.ix[m] <= half THEN a ELSE b
         /\ u.lo[m] = IF m = a THEN t.lo[o] ELSE IF m = b THEN k ELSE t.lo[m]
         /\ u.hi[m] = IF m = a THEN k ELSE IF m = b THEN t.hi[o] ELSE t.hi[m]
      /\ \A m \in NodeIds, i \in Nat : m \notin {a, b, q} =>
            u.ks[m][i] = t.ks[m][i] /\ u.ch[m][i] = t.ch[m][i]
      /\ \A i \in Nat : q \in t.G =>
            /\ u.cnt[q] = e + 1
            /\ u.ks[q][i] = IF i = e THEN k ELSE t.ks[q][i]
            /\ u.ch[q][i] = IF i = e THEN a ELSE IF i = e + 1 THEN b ELSE t.ch[q][i]
  <2>1. t.G \subseteq NodeIds
    BY DEF SearchTree, Bounds
  <2> QED
    BY <2>1, ReplaceFields
<1>2. /\ t.G \subseteq NodeIds /\ NULL \notin NodeIds /\ t.lev[o] \in Nat
      /\ a \in u.G /\ b \in u.G
  BY <1>1, NodeIdsAssumption DEF SearchTree, Bounds
<1>3. /\ r \in t.G /\ t.lo[r] = t.bot /\ t.hi[r] = t.top /\ t.lev[r] = t.height
      /\ \A m \in t.G : t.par[m] = NULL <=> m = r
  BY DEF Crown
<1>4. ({n} \cup leaked) \cap u.G = {}
  BY <1>1
<1>5. ASSUME q = NULL
      PROVE  Halves(u, a, b, k) /\ \A m \in u.G : u.par[m] = NULL => m \in {a, b}
  <2>1. o = r
    BY <1>3, <1>5
  <2>2. Halves(u, a, b, k)
    BY <1>1, <1>2, <1>3, <1>5, <2>1 DEF Halves
  <2>3. ASSUME NEW m \in u.G, m \notin {a, b} PROVE u.par[m] # NULL
    <3>1. m \in t.G \ {o} /\ m \in NodeIds /\ t.par[m] # NULL
      BY <1>1, <1>2, <1>3, <2>1, <2>3
    <3> QED
      BY <1>1, <1>2, <2>3, <3>1
  <2> QED
    BY <2>2, <2>3
<1>6. ASSUME q # NULL PROVE Crown(u, r) /\ Behind(h, u, l)
  <2>1. /\ q \in t.G /\ t.lev[q] = t.lev[o] + 1 /\ t.hi[q] = t.top /\ q # o
        /\ e \in Nat /\ e >= 1 /\ t.ch[q][e] = o
    BY <1>6, LastChild
  <2>2. o # r /\ r \in u.G /\ r \in NodeIds /\ r \notin {a, b} /\ q \in NodeIds /\ q \notin {a, b}
    BY <1>1, <1>2, <1>3, <1>6, <2>1
  <2>3. ASSUME NEW m \in u.G PROVE u.par[m] = NULL <=> m = r
    <3>1. CASE m \in {a, b}
      BY <1>1, <1>2, <1>6, <2>2, <3>1
    <3>2. CASE m \notin {a, b}
      <4>1. m \in t.G \ {o} /\ m \in NodeIds
        BY <1>1, <1>2, <3>2
      <4>2. CASE t.par[m] = o
        <5>1. u.par[m] \in {a, b}
          BY <1>1, <3>2, <4>1, <4>2
        <5>2. t.par[m] # NULL
          BY <1>2, <4>2
        <5> QED
          BY <1>2, <1>3, <4>1, <5>1, <5>2
      <4>3. CASE t.par[m] # o
        BY <1>1, <1>3, <3>2, <4>1, <4>3
      <4> QED
        BY <4>2, <4>3
    <3> QED
      BY <3>1, <3>2
  <2>4. Crown(u, r)
    BY <1>1, <1>3, <2>2, <2>3 DEF Crown
  <2>5. InnerSays(h, t, q)
    <3>1. t.lev[q] # 0 /\ Says(h, t, q)
      BY <1>2, <1>6, <2>1
    <3> QED
      BY <3>1 DEF Says
  <2>6. /\ IsInner(h, q) /\ h[q].slotsinuse = e /\ h[q].numChildren = e + 1
        /\ \A i \in 0 .. e - 1 : h[q].keySlots[i] = t.ks[q][i] /\ h[q].firstChild[i] = t.ch[q][i]
        /\ h[q].firstChild[e] = o
    <3>1. e \in 0 .. e /\ \A i \in 0 .. e - 1 : i \in 0 .. e
      BY <2>1
    <3> QED
      BY <2>1, <2>5, <3>1 DEF InnerSays
  <2> HIDE DEF q, e
  <2>7. /\ q \in u.G /\ u.lev[q] = t.lev[o] + 1 /\ u.lev[q] > 0 /\ u.hi[q] = u.top
        /\ u.cnt[q] = e + 1
    <3>1. u.lev[q] = t.lev[q] /\ u.hi[q] = t.hi[q] /\ q \in u.G
      BY <1>1, <2>1, <2>2
    <3>2. u.cnt[q] = e + 1
      BY <1>1, <2>1
    <3> QED
      BY <1>1, <1>2, <2>1, <3>1, <3>2
  <2>8. \A i \in 0 .. e - 1 : h[q].keySlots[i] = u.ks[q][i] /\ h[q].firstChild[i] = u.ch[q][i]
    <3>1. \A i \in 0 .. e - 1 : i \in Nat /\ i # e /\ i # e + 1
      BY <2>1
    <3> QED
      BY <1>1, <2>1, <2>6, <3>1
  <2>9. u.ks[q][e] = k /\ u.ch[q][e] = a /\ u.ch[q][e + 1] = b
    <3>1. e + 1 \in Nat /\ e + 1 # e
      BY <2>1
    <3> QED
      BY <1>1, <2>1, <3>1
  <2>10. IsLeaf(h, o) <=> u.lev[q] = 1
    BY <1>2, <2>7
  <2>11. l.parent = q
    BY DEF q
  <2>12. Behind(h, u, l)
    BY <2>1, <2>6, <2>7, <2>8, <2>9, <2>10, <2>11 DEF Behind
  <2> QED
    BY <2>4, <2>12
<1>7. a \in u.G /\ b \in u.G /\ l.parent = q
  BY <1>2
<1> HIDE DEF q
<1> QED
  BY <1>4, <1>5, <1>6, <1>7 DEF Climbing
=============================================================================
