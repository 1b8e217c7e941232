-------------------------- MODULE ThreadPool_proofs --------------------------
(***************************************************************************)
(* Proofs about ThreadPool, for any number of nodes, threads and tasks: the*)
(* list is sound whatever is unlinked and in what order, a walk meets no   *)
(* freed node, a pool is neither emptied nor overfilled, a suspended one   *)
(* rests, and a task goes to a waiting thread or where the fewest were.    *)
(***************************************************************************)
EXTENDS ThreadPool, Sequences, SequenceTheorems, FiniteSetTheorems,
        WellFoundedInduction, TLAPS

\* The nodes of the list, as a sequence: what the fields and links must say.
IsList(s) ==
  /\ s \in Seq(Node) /\ \A i, j \in 1..Len(s) : s[i] = s[j] => i = j
  /\ live = {s[i] : i \in 1..Len(s)} /\ Linked = Len(s)
  /\ first = IF Len(s) = 0 THEN Null ELSE s[1]
  /\ last = IF Len(s) = 0 THEN Null ELSE s[Len(s)]
  /\ \A i \in 1..Len(s) :
       /\ next[s[i]] = IF i < Len(s) THEN s[i + 1] ELSE Null
       /\ prev[s[i]] = IF i > 1 THEN s[i - 1] ELSE Null

\* The sequence that the links give.
list == [k \in 1..Linked |-> nodeAt[k - 1]]
IsOne == IsList(list)

\* A call that dismisses threads leaves at least one.
LeavesOne == pc \in {"reduceWaiting", "reduceLast"} => count < Linked

\* A suspended or closed pool takes no task and resumes nothing.
OnlyWorking ==
  pc \in {"byState", "byTasks", "byTasksRecord", "give", "giveFewest", "resume"} =>
    poolState = "working"

\* Where a walk by tasks is, and what it knows of the nodes behind it.
Walking == pc \in {"byTasks", "byTasksRecord"}
OnlyFewer ==
  pc \in {"byState", "byTasks", "byTasksRecord", "giveFewest"} =>
    \A n \in live : tasks[n] <= before[n]
Placed ==
  Walking =>
    /\ index \in 1..Linked /\ which < index
    /\ cursor = IF index < Linked THEN list[index + 1] ELSE Null
    /\ tasks[list[which + 1]] <= fewest
    /\ \A i \in 1..index : fewest <= before[list[i]]
Chosen ==
  /\ pc = "byTasksRecord" => cursor # Null /\ tasks[cursor] < fewest
  /\ pc \in {"give", "giveFewest"} => cursor # Null
  /\ pc \in {"idle", "reduceLast"} => cursor = Null

IInv ==
  /\ TypeOK /\ IsOne /\ CursorLive /\ LeavesOne /\ OnlyWorking
  /\ OnlyFewer /\ Placed /\ Chosen /\ LeastLoaded

-----------------------------------------------------------------------------
(* The list.                                                               *)

LEMMA LeastNumber ==
  ASSUME NEW S \in SUBSET Nat, S # {}
  PROVE  \E x \in S : \A y \in S : x <= y
<1>1. PICK x \in S : \A y \in S : ~(<<y, x>> \in OpToRel(<, Nat))
  BY NatLessThanWellFounded, WFMin
<1>2. ASSUME NEW y \in S PROVE x <= y
  <2>1. <<y, x>> \in Nat \X Nat
    OBVIOUS
  <2>2. ~(y < x)
    BY <1>1, <2>1 DEF OpToRel
  <2> QED BY <2>2
<1> QED BY <1>2

\* A sequence without repetitions is as long as the set of its elements is large.
LEMMA Counted ==
  ASSUME NEW s \in Seq(Node), \A i, j \in 1..Len(s) : s[i] = s[j] => i = j
  PROVE  /\ Cardinality({s[i] : i \in 1..Len(s)}) = Len(s)
         /\ Len(s) \in 0..Cardinality(Node)
<1> DEFINE S == {s[i] : i \in 1..Len(s)}
           n == Len(s)
<1>1. n \in Nat /\ \A i \in 1..n : s[i] \in Node
  OBVIOUS
<1>2. S \subseteq Node
  BY <1>1
<1>3. [i \in 1..n |-> s[i]] \in Bijection(1..n, S)
  <2> DEFINE f == [i \in 1..n |-> s[i]]
  <2>1. f \in [1..n -> S] /\ \A y \in S : \E i \in 1..n : f[i] = y
    OBVIOUS
  <2>2. \A i, j \in 1..n : f[i] = f[j] => i = j
    OBVIOUS
  <2> QED BY <2>1, <2>2 DEF Bijection, Injection, Surjection, IsInjective
<1> HIDE DEF S, n
<1>4. Cardinality(S) = n
  BY <1>1, <1>3, FS_CountingElements DEF ExistsBijection
<1>5. Cardinality(S) <= Cardinality(Node) /\ Cardinality(Node) \in Nat
  BY <1>2, PoolAssumption, FS_Subset, FS_CardinalityType
<1>6. n \in 0..Cardinality(Node)
  BY <1>1, <1>4, <1>5
<1> QED BY <1>4, <1>6 DEF S, n

LEMMA ListLength ==
  ASSUME NEW s, IsList(s)
  PROVE  /\ Cardinality(live) = Len(s) /\ Len(s) \in 0..Cardinality(Node)
         /\ Cardinality(Node) \in Nat
<1>1. /\ s \in Seq(Node) /\ \A i, j \in 1..Len(s) : s[i] = s[j] => i = j
      /\ live = {s[i] : i \in 1..Len(s)}
  BY DEF IsList
<1> QED BY <1>1, Counted, PoolAssumption, FS_CardinalityType

\* The function nodeAt is what its equation says: there is one such function, the
\* one that the sequence gives.
LEMMA NodeAt ==
  ASSUME NEW s, IsList(s)
  PROVE  \A k \in 0..Cardinality(Node) :
           nodeAt[k] = IF k < Len(s) THEN s[k + 1] ELSE Null
<1> DEFINE C == Cardinality(Node)
           Step(g) == [k \in 0..C |->
                         IF k = 0 THEN first
                         ELSE IF g[k - 1] = Null THEN Null ELSE next[g[k - 1]]]
           h == [k \in 0..C |-> IF k < Len(s) THEN s[k + 1] ELSE Null]
<1>1. s \in Seq(Node) /\ Len(s) \in Nat /\ C \in Nat
  BY PoolAssumption, FS_CardinalityType DEF IsList
<1>2. \A k \in 1..Len(s) : s[k] # Null
  BY <1>1, PoolAssumption
<1>3. h = Step(h)
  <2> SUFFICES ASSUME NEW k \in 0..C
               PROVE  h[k] = IF k = 0 THEN first
                             ELSE IF h[k - 1] = Null THEN Null ELSE next[h[k - 1]]
    OBVIOUS
  <2>1. CASE k = 0
    BY <1>1, <2>1 DEF IsList
  <2>2. CASE k # 0
    <3>1. k - 1 \in 0..C /\ k \in Nat /\ h[k - 1] = IF k - 1 < Len(s) THEN s[k] ELSE Null
      BY <1>1, <2>2
    <3>2. CASE k - 1 < Len(s)
      <4>1. k \in 1..Len(s)
        BY <1>1, <2>2, <3>1, <3>2
      <4>2. h[k - 1] = s[k] /\ s[k] # Null
        BY <1>2, <3>1, <3>2, <4>1
      <4>3. next[s[k]] = IF k < Len(s) THEN s[k + 1] ELSE Null
        BY <4>1 DEF IsList
      <4>4. h[k] = next[s[k]]
        BY <4>3
      <4> QED BY <2>2, <4>2, <4>4
    <3>3. CASE ~(k - 1 < Len(s))
      BY <1>1, <2>2, <3>1, <3>3
    <3> QED BY <3>2, <3>3
  <2> QED BY <2>1, <2>2
<1>4. nodeAt = CHOOSE g : g = Step(g)
  BY DEF nodeAt
<1>5. nodeAt = Step(nodeAt)
  <2> HIDE DEF h, Step
  <2> QED BY <1>3, <1>4
<1> DEFINE D == {k \in 0..C : nodeAt[k] # h[k]}
<1>6. D = {}
  <2> SUFFICES ASSUME D # {} PROVE FALSE
    OBVIOUS
  <2>1. D \in SUBSET Nat
    BY <1>1
  <2>2. PICK d \in D : \A y \in D : d <= y
    <3> HIDE DEF D
    <3> QED BY <2>1, LeastNumber
  <2>3. d \in 0..C /\ d \in Nat /\ nodeAt[d] # h[d]
    BY <1>1, <2>2
  <2>4. nodeAt[d] = IF d = 0 THEN first
                    ELSE IF nodeAt[d - 1] = Null THEN Null ELSE next[nodeAt[d - 1]]
    <3> HIDE DEF h, D
    <3> QED BY <1>5, <2>3
  <2>5. h[d] = IF d = 0 THEN first
               ELSE IF h[d - 1] = Null THEN Null ELSE next[h[d - 1]]
    <3> HIDE DEF h, D
    <3> QED BY <1>3, <2>3
  <2>6. d # 0 => nodeAt[d - 1] = h[d - 1]
    <3> SUFFICES ASSUME d # 0, nodeAt[d - 1] # h[d - 1] PROVE FALSE
      OBVIOUS
    <3> HIDE DEF h
    <3>1. d - 1 \in D
      BY <1>1, <2>3
    <3>2. d <= d - 1
      <4> HIDE DEF D
      <4> QED BY <2>2, <3>1
    <3> QED BY <2>3, <3>2
  <2> HIDE DEF h, D
  <2> QED BY <2>3, <2>4, <2>5, <2>6
<1>7. \A k \in 0..C : nodeAt[k] = h[k]
  <2> HIDE DEF h
  <2> QED BY <1>6
<1> QED BY <1>7

\* The sequence that the links give is the only one.
LEMMA ListIs == \A s : IsList(s) => list = s
<1> SUFFICES ASSUME NEW s, IsList(s) PROVE list = s
  OBVIOUS
<1>1. /\ s \in Seq(Node) /\ Len(s) \in 0..Cardinality(Node) /\ Linked = Len(s)
      /\ Cardinality(Node) \in Nat
  BY Counted, PoolAssumption, FS_CardinalityType DEF IsList
<1>2. \A k \in 1..Len(s) : nodeAt[k - 1] = s[k]
  <2> SUFFICES ASSUME NEW k \in 1..Len(s) PROVE nodeAt[k - 1] = s[k]
    OBVIOUS
  <2>1. k - 1 \in 0..Cardinality(Node) /\ k - 1 < Len(s) /\ (k - 1) + 1 = k
    BY <1>1
  <2>2. nodeAt[k - 1] = s[(k - 1) + 1]
    BY <2>1, NodeAt
  <2> QED BY <2>1, <2>2
<1>3. list = [k \in 1..Len(s) |-> s[k]]
  BY <1>1, <1>2 DEF list
<1>4. s = [k \in 1..Len(s) |-> s[k]]
  BY <1>1
<1> QED BY <1>3, <1>4

LEMMA OneIs == (\E s : IsList(s)) => IsOne
BY ListIs DEF IsOne

LEMMA NextOne == \A t : IsList(t)' => list' = t /\ IsOne'
<1>1. (\A s : IsList(s) => list = s)'
  BY ListIs, PTL
<1>2. ((\E s : IsList(s)) => IsOne)'
  BY OneIs, PTL
<1> QED BY <1>1, <1>2

\* What the fields and the links say of each other.
LEMMA Links ==
  ASSUME TypeOK, IsOne
  PROVE  /\ list \in Seq(Node) /\ Len(list) = Linked /\ Linked \in Nat
         /\ \A i \in 1..Linked : list[i] \in live
         /\ \A n \in live : \E i \in 1..Linked : list[i] = n
         /\ \A i, j \in 1..Linked : list[i] = list[j] => i = j
         /\ first \in live \cup {Null} /\ Null \notin live
         /\ Linked > 0 => first = list[1] /\ first \in live /\ last = list[Linked]
         /\ Linked = 0 => first = Null /\ last = Null
         /\ \A n \in live : next[n] \in live \cup {Null} /\ next[n] # n
         /\ \A i \in 1..Linked : next[list[i]] = IF i < Linked THEN list[i + 1] ELSE Null
         /\ \A i \in 1..Linked : prev[list[i]] = IF i > 1 THEN list[i - 1] ELSE Null
<1> DEFINE s == list
<1>1. /\ s \in Seq(Node) /\ Linked = Len(s) /\ live = {s[i] : i \in 1..Len(s)}
      /\ \A i, j \in 1..Len(s) : s[i] = s[j] => i = j
      /\ first = IF Len(s) = 0 THEN Null ELSE s[1]
      /\ last = IF Len(s) = 0 THEN Null ELSE s[Len(s)]
      /\ \A i \in 1..Len(s) :
           /\ next[s[i]] = IF i < Len(s) THEN s[i + 1] ELSE Null
           /\ prev[s[i]] = IF i > 1 THEN s[i - 1] ELSE Null
  BY DEF IsOne, IsList
<1> HIDE DEF s
<1>2. Linked \in Nat /\ Null \notin live
  BY <1>1, PoolAssumption DEF TypeOK
<1>3. \A n \in live : \E i \in 1..Linked : s[i] = n
  BY <1>1
<1>4. \A i \in 1..Linked : s[i] \in live /\ i \in 1..Len(s)
  BY <1>1
<1>5. Linked > 0 => first = s[1] /\ s[1] \in live /\ last = s[Linked]
  BY <1>1, <1>2, <1>4
<1>6. Linked = 0 => first = Null /\ last = Null
  BY <1>1
<1>7. \A i \in 1..Linked :
        /\ next[s[i]] = IF i < Linked THEN s[i + 1] ELSE Null
        /\ prev[s[i]] = IF i > 1 THEN s[i - 1] ELSE Null
  BY <1>1
<1>8. ASSUME NEW n \in live PROVE next[n] \in live \cup {Null} /\ next[n] # n
  <2>1. PICK i \in 1..Linked : s[i] = n
    BY <1>3
  <2>2. CASE i < Linked
    <3>1. i + 1 \in 1..Linked /\ next[n] = s[i + 1] /\ i # i + 1
      BY <1>2, <1>7, <2>1, <2>2
    <3>2. s[i + 1] # s[i]
      BY <1>1, <3>1
    <3> QED BY <1>4, <2>1, <3>1, <3>2
  <2>3. CASE ~(i < Linked)
    BY <1>2, <1>7, <2>1, <2>3
  <2> QED BY <2>2, <2>3
<1> QED BY <1>1, <1>2, <1>3, <1>4, <1>5, <1>6, <1>7, <1>8 DEF s

-----------------------------------------------------------------------------
(* What the operations do to the list.                                     *)

LEMMA SameList ==
  ASSUME IsOne, UNCHANGED <<first, last, next, prev, live, Linked>>
  PROVE  IsOne' /\ list' = list
<1> DEFINE s == list
<1>1. UNCHANGED <<first, last, next, prev, live, Linked>> /\ IsList(s)
  BY DEF IsOne
<1>2. \E t : t = s
  OBVIOUS
<1>3. PICK t : t = list
  BY <1>2
<1>4. IsList(t)
  BY <1>1, <1>3
<1>5. IsList(t)'
  BY <1>1, <1>4 DEF IsList
<1>6. list' = t /\ IsOne'
  BY <1>5, NextOne
<1> QED BY <1>3, <1>6

\* A new node at the end.
LEMMA Grown ==
  ASSUME TypeOK, IsOne, NEW n \in Node \ live,
         live' = live \cup {n}, Linked' = Linked + 1, last' = n,
         first' = IF Linked = 0 THEN n ELSE first,
         next' = [m \in Node |-> IF m = n THEN Null
                                 ELSE IF Linked > 0 /\ m = last THEN n ELSE next[m]],
         prev' = [prev EXCEPT ![n] = IF Linked = 0 THEN Null ELSE last]
  PROVE  IsOne'
<1>1. PICK s : s = list
  OBVIOUS
<1>2. /\ s \in Seq(Node) /\ Len(s) = Linked /\ Linked \in Nat
      /\ \A i \in 1..Linked : s[i] \in live
      /\ \A m \in live : \E i \in 1..Linked : s[i] = m
      /\ \A i, j \in 1..Linked : s[i] = s[j] => i = j
      /\ Linked > 0 => first = s[1] /\ last = s[Linked]
      /\ \A i \in 1..Linked : /\ next[s[i]] = IF i < Linked THEN s[i + 1] ELSE Null
                            /\ prev[s[i]] = IF i > 1 THEN s[i - 1] ELSE Null
  BY <1>1, Links
<1>3. PICK t : t = Append(s, n)
  OBVIOUS
<1>4. /\ t \in Seq(Node) /\ Len(t) = Linked + 1 /\ t[Linked + 1] = n
      /\ \A i \in 1..Linked : t[i] = s[i]
  BY <1>2, <1>3, AppendProperties
<1>5. \A i \in 1..(Linked + 1) : i \in 1..Linked \/ i = Linked + 1
  BY <1>2
<1>6. \A i, j \in 1..Len(t) : t[i] = t[j] => i = j
  <2> SUFFICES ASSUME NEW i \in 1..(Linked + 1), NEW j \in 1..(Linked + 1), t[i] = t[j]
               PROVE  i = j
    BY <1>4
  <2>1. CASE i \in 1..Linked /\ j \in 1..Linked
    BY <1>2, <1>4, <2>1
  <2>2. CASE i = Linked + 1 /\ j \in 1..Linked
    BY <1>2, <1>4, <2>2
  <2>3. CASE i \in 1..Linked /\ j = Linked + 1
    BY <1>2, <1>4, <2>3
  <2> QED BY <1>5, <2>1, <2>2, <2>3
<1>7. live' = {t[i] : i \in 1..Len(t)}
  <2>1. \A m \in live' : \E i \in 1..(Linked + 1) : t[i] = m
    <3> SUFFICES ASSUME NEW m \in live' PROVE \E i \in 1..(Linked + 1) : t[i] = m
      OBVIOUS
    <3>1. CASE m = n
      BY <1>2, <1>4, <3>1
    <3>2. CASE m # n
      <4>1. PICK i \in 1..Linked : s[i] = m
        BY <1>2, <3>2
      <4>2. i \in 1..(Linked + 1)
        BY <1>2
      <4> QED BY <1>4, <4>1, <4>2
    <3> QED BY <3>1, <3>2
  <2>2. \A i \in 1..(Linked + 1) : t[i] \in live'
    BY <1>2, <1>4, <1>5
  <2> QED BY <1>4, <2>1, <2>2
<1>8. first' = t[1] /\ last' = t[Len(t)] /\ Linked' = Len(t) /\ Len(t) # 0
  <2>1. CASE Linked = 0
    BY <1>2, <1>4, <2>1
  <2>2. CASE Linked # 0
    BY <1>2, <1>4, <2>2
  <2> QED BY <2>1, <2>2
<1>9. ASSUME NEW i \in 1..Len(t)
      PROVE  /\ next'[t[i]] = IF i < Len(t) THEN t[i + 1] ELSE Null
             /\ prev'[t[i]] = IF i > 1 THEN t[i - 1] ELSE Null
  <2>1. next \in [Node -> Node \cup {Null}] /\ prev \in [Node -> Node \cup {Null}]
    BY DEF TypeOK
  <2>2. CASE i = Linked + 1
    <3>1. t[i] = n /\ next'[n] = Null /\ prev'[n] = IF Linked = 0 THEN Null ELSE last
      BY <1>4, <2>1, <2>2
    <3>2. Linked > 0 => t[i - 1] = last
      BY <1>2, <1>4, <2>2
    <3> QED BY <1>2, <1>4, <2>2, <3>1, <3>2
  <2>3. CASE i \in 1..Linked
    <3>1. t[i] = s[i] /\ s[i] # n /\ s[i] \in Node
      BY <1>2, <1>4, <2>3
    <3>2. prev'[t[i]] = prev[s[i]]
      BY <2>1, <3>1
    <3>3. prev[s[i]] = IF i > 1 THEN t[i - 1] ELSE Null
      <4>1. i > 1 => i - 1 \in 1..Linked
        BY <1>2, <2>3
      <4> QED BY <1>2, <1>4, <2>3, <4>1
    <3>4. CASE i = Linked
      <4>1. s[i] = last /\ Linked > 0
        BY <1>2, <2>3, <3>4
      <4>2. next'[t[i]] = n
        BY <3>1, <4>1
      <4> QED BY <1>2, <1>4, <3>2, <3>3, <3>4, <4>2
    <3>5. CASE i # Linked
      <4>1. Linked \in 1..Linked /\ s[i] # s[Linked] /\ i < Linked /\ i + 1 \in 1..Linked
        BY <1>2, <2>3, <3>5
      <4>2. next'[t[i]] = next[s[i]]
        BY <1>2, <3>1, <4>1
      <4>3. next[s[i]] = t[i + 1]
        BY <1>2, <1>4, <2>3, <4>1
      <4> QED BY <1>4, <3>2, <3>3, <4>1, <4>2, <4>3
    <3> QED BY <3>4, <3>5
  <2> QED BY <1>4, <1>5, <2>2, <2>3
<1>10. IsList(t)'
  BY <1>4, <1>6, <1>7, <1>8, <1>9 DEF IsList
<1> QED BY <1>10, NextOne

\* The last of several nodes goes.
LEMMA Shortened ==
  ASSUME TypeOK, IsOne, Linked > 1,
         live' = live \ {last}, Linked' = Linked - 1, last' = prev[last],
         next' = [next EXCEPT ![prev[last]] = Null],
         prev' = [prev EXCEPT ![last] = Null],
         UNCHANGED first
  PROVE  IsOne'
<1>1. PICK s : s = list
  OBVIOUS
<1>2. /\ s \in Seq(Node) /\ Len(s) = Linked /\ Linked \in Nat
      /\ \A i \in 1..Linked : s[i] \in live /\ s[i] \in Node
      /\ \A m \in live : \E i \in 1..Linked : s[i] = m
      /\ \A i, j \in 1..Linked : s[i] = s[j] => i = j
      /\ first = s[1] /\ last = s[Linked]
      /\ \A i \in 1..Linked : /\ next[s[i]] = IF i < Linked THEN s[i + 1] ELSE Null
                            /\ prev[s[i]] = IF i > 1 THEN s[i - 1] ELSE Null
  BY <1>1, Links
<1>3. PICK t : t = SubSeq(s, 1, Linked - 1)
  OBVIOUS
<1>4. /\ t \in Seq(Node) /\ Len(t) = Linked - 1
      /\ \A i \in 1..(Linked - 1) : t[i] = s[i] /\ i \in 1..Linked /\ i # Linked
      /\ Linked \in 1..Linked /\ Linked - 1 \in 1..Linked
  BY <1>2, <1>3
<1>5. prev[last] = s[Linked - 1]
  BY <1>2, <1>4
<1>6. \A i, j \in 1..Len(t) : t[i] = t[j] => i = j
  BY <1>2, <1>4
<1>7. live' = {t[i] : i \in 1..Len(t)}
  <2>1. \A m \in live' : \E i \in 1..(Linked - 1) : t[i] = m
    <3> SUFFICES ASSUME NEW m \in live' PROVE \E i \in 1..(Linked - 1) : t[i] = m
      OBVIOUS
    <3>1. PICK i \in 1..Linked : s[i] = m
      BY <1>2
    <3>2. i # Linked
      BY <1>2, <3>1
    <3>3. i \in 1..(Linked - 1)
      BY <1>2, <3>2
    <3> QED BY <1>4, <3>1, <3>3
  <2>2. \A i \in 1..(Linked - 1) : t[i] \in live'
    BY <1>2, <1>4
  <2> QED BY <1>4, <2>1, <2>2
<1>8. first' = t[1] /\ last' = t[Len(t)] /\ Linked' = Len(t) /\ Len(t) # 0
  BY <1>2, <1>4, <1>5
<1>9. ASSUME NEW i \in 1..Len(t)
      PROVE  /\ next'[t[i]] = IF i < Len(t) THEN t[i + 1] ELSE Null
             /\ prev'[t[i]] = IF i > 1 THEN t[i - 1] ELSE Null
  <2>1. next \in [Node -> Node \cup {Null}] /\ prev \in [Node -> Node \cup {Null}]
    BY DEF TypeOK
  <2>2. t[i] = s[i] /\ i \in 1..Linked /\ i # Linked /\ s[i] # last /\ s[i] \in Node
    BY <1>2, <1>4
  <2>3. prev'[t[i]] = prev[s[i]]
    BY <2>1, <2>2
  <2>4. prev[s[i]] = IF i > 1 THEN t[i - 1] ELSE Null
    <3>1. i > 1 => i - 1 \in 1..(Linked - 1)
      BY <1>2, <2>2
    <3> QED BY <1>2, <1>4, <2>2, <3>1
  <2>5. CASE i = Linked - 1
    <3>1. next'[t[i]] = Null
      BY <1>5, <2>1, <2>2, <2>5
    <3> QED BY <1>2, <1>4, <2>3, <2>4, <2>5, <3>1
  <2>6. CASE i # Linked - 1
    <3>1. i < Linked - 1 /\ i + 1 \in 1..(Linked - 1) /\ i < Linked
      BY <1>2, <2>2, <2>6
    <3>2. s[i] # s[Linked - 1]
      BY <1>2, <1>4, <2>2, <2>6
    <3>3. next'[t[i]] = next[s[i]]
      BY <1>5, <2>1, <2>2, <3>2
    <3>4. next[s[i]] = t[i + 1]
      BY <1>2, <1>4, <2>2, <3>1
    <3> QED BY <1>4, <2>3, <2>4, <3>1, <3>3, <3>4
  <2> QED BY <2>5, <2>6
<1>10. IsList(t)'
  BY <1>4, <1>6, <1>7, <1>8, <1>9 DEF IsList
<1> QED BY <1>10, NextOne

\* _Free_node() of one of several nodes, wherever it is.
LEMMA Freed ==
  ASSUME TypeOK, IsOne, Linked > 1, NEW n \in live, FreeNode(n),
         pc = "reduceWaiting", UNCHANGED pc
  PROVE  /\ IsOne' /\ live' = live \ {n}
         /\ Linked = size /\ Linked' = size' /\ Linked' = Linked - 1
<1>1. PICK s : s = list
  OBVIOUS
<1>2. /\ s \in Seq(Node) /\ Len(s) = Linked /\ Linked \in Nat
      /\ \A k \in 1..Linked : s[k] \in live /\ s[k] \in Node /\ s[k] # Null
      /\ \A m \in live : \E k \in 1..Linked : s[k] = m
      /\ \A j, k \in 1..Linked : s[j] = s[k] => j = k
      /\ first = s[1] /\ last = s[Linked]
      /\ \A k \in 1..Linked : /\ next[s[k]] = IF k < Linked THEN s[k + 1] ELSE Null
                            /\ prev[s[k]] = IF k > 1 THEN s[k - 1] ELSE Null
  BY <1>1, Links
<1>3. PICK i \in 1..Linked : s[i] = n
  BY <1>2
<1>4. /\ next[n] = IF i < Linked THEN s[i + 1] ELSE Null
      /\ prev[n] = IF i > 1 THEN s[i - 1] ELSE Null
      /\ (n = first) <=> (i = 1)
      /\ (n = last) <=> (i = Linked)
      /\ 1 \in 1..Linked /\ Linked \in 1..Linked
  <2>1. 1 \in 1..Linked /\ Linked \in 1..Linked
    BY <1>2
  <2> QED BY <1>2, <1>3, <2>1
<1>5. PICK t : t = [k \in 1..(Linked - 1) |-> IF k < i THEN s[k] ELSE s[k + 1]]
  OBVIOUS
<1>6. \A k \in 1..(Linked - 1) : k \in 1..Linked /\ k + 1 \in 1..Linked
  BY <1>2
<1>7. t \in [1..(Linked - 1) -> Node]
  BY <1>2, <1>5, <1>6
<1>8. /\ t \in Seq(Node) /\ Len(t) = Linked - 1
      /\ \A k \in 1..(Linked - 1) : t[k] = IF k < i THEN s[k] ELSE s[k + 1]
  BY <1>2, <1>5, <1>7
<1>9. \A j, k \in 1..Len(t) : t[j] = t[k] => j = k
  <2> SUFFICES ASSUME NEW j \in 1..(Linked - 1), NEW k \in 1..(Linked - 1), t[j] = t[k]
               PROVE  j = k
    BY <1>8
  <2> DEFINE at(l) == IF l < i THEN l ELSE l + 1
  <2>1. t[j] = s[at(j)] /\ t[k] = s[at(k)] /\ at(j) \in 1..Linked /\ at(k) \in 1..Linked
    BY <1>6, <1>8
  <2>2. at(j) = at(k)
    <3> HIDE DEF at
    <3> QED BY <1>2, <2>1
  <2> QED BY <2>2
<1>10. /\ live' = live \ {n}
       /\ Linked = size /\ Linked' = size' /\ Linked' = Linked - 1
  <2>1. size' = size - 1 /\ live' = live \ {n}
    BY DEF FreeNode, Destroys
  <2>2. size \in Nat /\ Linked = size + 0 /\ Linked' = size' + 0
    BY PoolAssumption DEF TypeOK, Linked, CallerAt
  <2> QED BY <2>1, <2>2
<1>11. live' = {t[k] : k \in 1..Len(t)}
  <2>1. ASSUME NEW m \in live' PROVE \E k \in 1..(Linked - 1) : t[k] = m
    <3>1. PICK k \in 1..Linked : s[k] = m /\ k # i
      BY <1>2, <1>3, <1>10
    <3>2. CASE k < i
      <4>1. k \in 1..(Linked - 1)
        BY <1>2, <3>2
      <4> QED BY <1>8, <3>1, <3>2, <4>1
    <3>3. CASE k > i
      <4>1. k - 1 \in 1..(Linked - 1) /\ ~(k - 1 < i) /\ (k - 1) + 1 = k
        BY <1>2, <3>3
      <4>2. t[k - 1] = s[(k - 1) + 1]
        BY <1>8, <4>1
      <4> QED BY <3>1, <4>1, <4>2
    <3> QED BY <3>1, <3>2, <3>3
  <2>2. ASSUME NEW k \in 1..(Linked - 1) PROVE t[k] \in live'
    <3>1. CASE k < i
      BY <1>2, <1>3, <1>6, <1>8, <1>10, <3>1
    <3>2. CASE ~(k < i)
      <4>1. t[k] = s[k + 1] /\ k + 1 # i /\ k + 1 \in 1..Linked
        BY <1>6, <1>8, <3>2
      <4> QED BY <1>2, <1>3, <1>10, <4>1
    <3> QED BY <3>1, <3>2
  <2> QED BY <1>8, <2>1, <2>2
<1>12. first' = t[1] /\ last' = t[Len(t)] /\ Len(t) # 0
  <2>1. /\ first' = IF n = first /\ next[n] # Null THEN next[n] ELSE first
        /\ last' = IF n # first /\ n = last THEN prev[n] ELSE last
    BY DEF FreeNode
  <2>2. 1 \in 1..(Linked - 1) /\ Linked - 1 \in 1..(Linked - 1)
    BY <1>2
  <2>3. first' = t[1]
    <3>1. CASE i = 1
      <4>1. t[1] = s[2] /\ next[n] = s[2] /\ s[2] # Null
        BY <1>2, <1>4, <1>8, <2>2, <3>1
      <4> QED BY <1>4, <2>1, <3>1, <4>1
    <3>2. CASE i # 1
      <4>1. t[1] = s[1]
        BY <1>8, <2>2, <3>2
      <4> QED BY <1>2, <1>4, <2>1, <3>2, <4>1
    <3> QED BY <3>1, <3>2
  <2>4. last' = t[Linked - 1]
    <3>1. CASE i = Linked
      <4>1. t[Linked - 1] = s[Linked - 1] /\ prev[n] = s[Linked - 1] /\ i # 1
        BY <1>2, <1>4, <1>8, <2>2, <3>1
      <4> QED BY <1>4, <2>1, <3>1, <4>1
    <3>2. CASE i # Linked
      <4>1. ~(Linked - 1 < i) /\ (Linked - 1) + 1 = Linked
        BY <1>2, <3>2
      <4>2. t[Linked - 1] = s[Linked]
        BY <1>8, <2>2, <4>1
      <4> QED BY <1>2, <1>4, <2>1, <3>2, <4>2
    <3> QED BY <3>1, <3>2
  <2> QED BY <1>2, <1>8, <2>3, <2>4
<1>13. ASSUME NEW k \in 1..(Linked - 1)
       PROVE  /\ next'[t[k]] = IF k < Linked - 1 THEN t[k + 1] ELSE Null
              /\ prev'[t[k]] = IF k > 1 THEN t[k - 1] ELSE Null
  <2>1. \A m \in Node :
          /\ next'[m] = IF m = n THEN Null
                        ELSE IF n # first /\ m = prev[n] THEN next[n] ELSE next[m]
          /\ prev'[m] = IF m = n \/ (n = first /\ m = next[n]) THEN Null
                        ELSE IF m = next[n] THEN prev[n] ELSE prev[m]
    BY DEF FreeNode
  <2>2. CASE k < i
    <3>1. /\ t[k] = s[k] /\ k \in 1..Linked /\ k # i /\ k < Linked
          /\ s[k] # n /\ s[k] \in Node
      BY <1>2, <1>3, <1>6, <1>8, <2>2
    <3>2. s[k] # next[n]
      <4>1. i < Linked => i + 1 \in 1..Linked /\ s[k] # s[i + 1]
        BY <1>2, <2>2, <3>1
      <4> QED BY <1>2, <1>4, <3>1, <4>1
    <3>3. prev'[t[k]] = prev[s[k]]
      BY <2>1, <3>1, <3>2
    <3>4. prev[s[k]] = IF k > 1 THEN t[k - 1] ELSE Null
      <4>1. k > 1 => k - 1 \in 1..(Linked - 1) /\ k - 1 < i
        BY <1>2, <2>2
      <4> QED BY <1>2, <1>8, <3>1, <4>1
    <3>5. CASE k = i - 1
      <4>1. n # first /\ s[k] = prev[n]
        BY <1>4, <3>1, <3>5
      <4>2. next'[t[k]] = next[n]
        BY <2>1, <3>1, <4>1
      <4>3. next[n] = IF k < Linked - 1 THEN t[k + 1] ELSE Null
        <5>1. CASE i < Linked
          <6>1. k + 1 = i /\ i \in 1..(Linked - 1) /\ k < Linked - 1
            BY <1>2, <3>5, <5>1
          <6>2. t[i] = s[i + 1]
            BY <1>8, <6>1
          <6> QED BY <1>4, <5>1, <6>1, <6>2
        <5>2. CASE i = Linked
          BY <1>4, <3>5, <5>2
        <5> QED BY <1>2, <5>1, <5>2
      <4> QED BY <3>3, <3>4, <4>2, <4>3
    <3>6. CASE k < i - 1
      <4>1. i > 1 /\ i - 1 \in 1..Linked /\ k # i - 1
        BY <1>2, <3>6
      <4>2. s[k] # prev[n]
        BY <1>2, <1>4, <3>1, <4>1
      <4>3. next'[t[k]] = next[s[k]] /\ next[s[k]] = s[k + 1]
        BY <1>2, <2>1, <3>1, <4>2
      <4>4. k + 1 \in 1..(Linked - 1) /\ k + 1 < i /\ k < Linked - 1
        BY <1>2, <3>6
      <4>5. t[k + 1] = s[k + 1]
        BY <1>8, <4>4
      <4> QED BY <3>3, <3>4, <4>3, <4>4, <4>5
    <3> QED BY <1>2, <2>2, <3>5, <3>6
  <2>3. CASE ~(k < i)
    <3>1. /\ t[k] = s[k + 1] /\ k + 1 \in 1..Linked /\ k + 1 # i
          /\ s[k + 1] # n /\ s[k + 1] \in Node
      BY <1>2, <1>3, <1>6, <1>8, <2>3
    <3>2. n # first => s[k + 1] # prev[n]
      <4>1. i # 1 => i - 1 \in 1..Linked /\ i - 1 # k + 1 /\ i > 1
        BY <1>2, <2>3
      <4> QED BY <1>2, <1>4, <3>1, <4>1
    <3>3. next'[t[k]] = next[s[k + 1]]
      BY <2>1, <3>1, <3>2
    <3>4. next[s[k + 1]] = IF k < Linked - 1 THEN t[k + 1] ELSE Null
      <4>1. CASE k < Linked - 1
        <5>1. k + 1 \in 1..(Linked - 1) /\ ~(k + 1 < i) /\ k + 1 < Linked
          BY <1>2, <2>3, <4>1
        <5>2. t[k + 1] = s[(k + 1) + 1]
          BY <1>8, <5>1
        <5> QED BY <1>2, <3>1, <4>1, <5>1, <5>2
      <4>2. CASE ~(k < Linked - 1)
        <5>1. ~(k + 1 < Linked)
          BY <1>2, <4>2
        <5> QED BY <1>2, <3>1, <4>2, <5>1
      <4> QED BY <4>1, <4>2
    <3>5. CASE k = i
      <4>1. next[n] = s[k + 1]
        BY <1>2, <1>4, <3>5
      <4>2. prev'[t[k]] = IF i = 1 THEN Null ELSE prev[n]
        BY <1>4, <2>1, <3>1, <4>1
      <4>3. i > 1 => i - 1 \in 1..(Linked - 1) /\ i - 1 < i
        BY <1>2
      <4>4. i > 1 => prev[n] = t[i - 1]
        BY <1>4, <1>8, <4>3
      <4> QED BY <3>3, <3>4, <3>5, <4>2, <4>4
    <3>6. CASE k > i
      <4>1. s[k + 1] # next[n]
        <5>1. i + 1 \in 1..Linked /\ i + 1 # k + 1 /\ i < Linked
          BY <1>2, <3>6
        <5> QED BY <1>2, <1>4, <3>1, <5>1
      <4>2. prev'[t[k]] = prev[s[k + 1]]
        BY <2>1, <3>1, <4>1
      <4>3. prev[s[k + 1]] = s[k]
        <5>1. k + 1 > 1 /\ (k + 1) - 1 = k
          BY <1>2
        <5> QED BY <1>2, <3>1, <5>1
      <4>4. k - 1 \in 1..(Linked - 1) /\ ~(k - 1 < i) /\ (k - 1) + 1 = k /\ k > 1
        BY <1>2, <3>6
      <4>5. t[k - 1] = s[k]
        BY <1>8, <4>4
      <4> QED BY <3>3, <3>4, <4>2, <4>3, <4>4, <4>5
    <3> QED BY <2>3, <3>5, <3>6
  <2> QED BY <2>2, <2>3
<1>14. IsList(t)'
  <2>1. \A k \in 1..Len(t) :
          /\ next'[t[k]] = IF k < Len(t) THEN t[k + 1] ELSE Null
          /\ prev'[t[k]] = IF k > 1 THEN t[k - 1] ELSE Null
    BY <1>8, <1>13
  <2> QED BY <1>8, <1>9, <1>10, <1>11, <1>12, <2>1 DEF IsList
<1> QED BY <1>10, <1>14, NextOne

\* close() frees every node.
LEMMA Emptied ==
  ASSUME TypeOK, IsOne, Close
  PROVE  IsOne' /\ live' = {}
<1>1. PICK s : s = list
  OBVIOUS
<1>2. /\ IsList(s) /\ \A n \in live : \E k \in 1..Len(s) : s[k] = n
      /\ Len(s) \in 0..Cardinality(Node) /\ Cardinality(Node) \in Nat
  <2>1. IsList(s)
    BY <1>1 DEF IsOne
  <2> QED BY <2>1, ListLength DEF IsList
<1>3. \A n \in live : \E k \in 0..Cardinality(Node) : nodeAt[k] = n
  <2> SUFFICES ASSUME NEW n \in live PROVE \E k \in 0..Cardinality(Node) : nodeAt[k] = n
    OBVIOUS
  <2>1. PICK k \in 1..Len(s) : s[k] = n
    BY <1>2
  <2>2. k - 1 \in 0..Cardinality(Node) /\ k - 1 < Len(s) /\ (k - 1) + 1 = k
    BY <1>2
  <2>3. nodeAt[k - 1] = s[(k - 1) + 1]
    BY <1>2, <2>2, NodeAt
  <2> QED BY <2>1, <2>2, <2>3
<1>4. live' = live \ ({nodeAt[k] : k \in 0..Cardinality(Node)} \ {Null})
  BY DEF Close, Destroys
<1>5. Null \notin live
  BY PoolAssumption DEF TypeOK
<1>6. live' = {}
  BY <1>3, <1>4, <1>5
<1>7. first' = Null /\ last' = Null /\ Linked' = 0
  <2>1. first' = Null /\ last' = Null /\ size' = 0 /\ pc' = "idle"
    BY DEF Close, CallerAt
  <2> QED BY <2>1 DEF Linked, CallerAt
<1>8. <<>> \in Seq(Node) /\ Len(<<>>) = 0 /\ 1..0 = {}
  OBVIOUS
<1>9. IsList(<<>>)'
  BY <1>6, <1>7, <1>8 DEF IsList
<1> QED BY <1>6, <1>9, NextOne

\* The property in the terms of the sequence.
LEMMA WellFormed == TypeOK /\ IsOne => ListWellFormed
<1> SUFFICES ASSUME TypeOK, IsOne PROVE ListWellFormed
  OBVIOUS
<1>1. PICK s : s = list
  OBVIOUS
<1>2. /\ s \in Seq(Node) /\ Len(s) = Linked /\ Linked \in Nat
      /\ \A k \in 1..Linked : s[k] \in live
      /\ \A m \in live : \E k \in 1..Linked : s[k] = m
      /\ Linked > 0 => first = s[1] /\ last = s[Linked]
      /\ Linked = 0 => first = Null /\ last = Null
      /\ Null \notin live
      /\ \A k \in 1..Linked : /\ next[s[k]] = IF k < Linked THEN s[k + 1] ELSE Null
                            /\ prev[s[k]] = IF k > 1 THEN s[k - 1] ELSE Null
  BY <1>1, Links
<1>3. /\ IsList(s) /\ Linked = Cardinality(live)
      /\ Linked \in 0..Cardinality(Node) /\ Cardinality(Node) \in Nat
  <2>1. IsList(s)
    BY <1>1 DEF IsOne
  <2> QED BY <1>2, <2>1, ListLength
<1>4. \A k \in 0..Cardinality(Node) : nodeAt[k] = IF k < Linked THEN s[k + 1] ELSE Null
  <2>1. \A k \in 0..Cardinality(Node) :
          nodeAt[k] = IF k < Len(s) THEN s[k + 1] ELSE Null
    BY <1>3, NodeAt
  <2> QED BY <1>2, <2>1
<1>5. live = {nodeAt[k] : k \in 0..Cardinality(Node)} \ {Null}
  <2>1. ASSUME NEW n \in live PROVE \E k \in 0..Cardinality(Node) : nodeAt[k] = n
    <3>1. PICK k \in 1..Linked : s[k] = n
      BY <1>2
    <3>2. k - 1 \in 0..Cardinality(Node) /\ k - 1 < Linked /\ (k - 1) + 1 = k
      BY <1>2, <1>3
    <3>3. nodeAt[k - 1] = s[(k - 1) + 1]
      BY <1>4, <3>2
    <3> QED BY <3>1, <3>2, <3>3
  <2>2. ASSUME NEW k \in 0..Cardinality(Node), nodeAt[k] # Null PROVE nodeAt[k] \in live
    <3>1. k < Linked /\ nodeAt[k] = s[k + 1]
      BY <1>4, <2>2
    <3>2. k + 1 \in 1..Linked
      BY <1>2, <1>3, <3>1
    <3> QED BY <1>2, <3>1, <3>2
  <2>3. Null \notin live
    BY <1>2
  <2> QED BY <2>1, <2>2, <2>3
<1>6. CASE Linked = 0
  BY <1>2, <1>3, <1>5, <1>6 DEF ListWellFormed
<1>7. CASE Linked # 0
  <2>1. 1 \in 1..Linked /\ Linked \in 1..Linked /\ Linked > 0
    BY <1>2, <1>7
  <2>2. /\ Linked - 1 \in 0..Cardinality(Node) /\ Linked - 1 < Linked
        /\ (Linked - 1) + 1 = Linked
    BY <1>2, <1>3, <1>7
  <2>3. nodeAt[Linked - 1] = s[(Linked - 1) + 1]
    BY <1>4, <2>2
  <2>4. nodeAt[Linked - 1] = last /\ next[last] = Null /\ prev[first] = Null
    BY <1>2, <2>1, <2>2, <2>3
  <2>5. ASSUME NEW n \in live, next[n] # Null PROVE prev[next[n]] = n
    <3>1. PICK k \in 1..Linked : s[k] = n
      BY <1>2
    <3>2. k < Linked /\ next[n] = s[k + 1]
      BY <1>2, <2>5, <3>1
    <3>3. k + 1 \in 1..Linked /\ k + 1 > 1 /\ (k + 1) - 1 = k
      BY <1>2, <3>2
    <3> QED BY <1>2, <3>1, <3>2, <3>3
  <2> QED BY <1>3, <1>5, <1>7, <2>4, <2>5 DEF ListWellFormed
<1> QED BY <1>6, <1>7

-----------------------------------------------------------------------------
(* Every step keeps the invariant.                                         *)

ListTypes ==
  /\ first \in Node \cup {Null} /\ last \in Node \cup {Null}
  /\ size \in 0..SizeMax
  /\ next \in [Node -> Node \cup {Null}] /\ prev \in [Node -> Node \cup {Null}]
  /\ live \subseteq Node
ThreadTypes ==
  /\ state \in [Node -> {"terminated", "waiting", "working"}]
  /\ tasks \in [Node -> 0..MaxTasks]
WalkTypes ==
  /\ index \in Nat /\ fewest \in 0..MaxTasks /\ which \in Nat
  /\ before \in [Node -> 0..MaxTasks]

LEMMA Types ==
  TypeOK <=>
    /\ ListTypes /\ ThreadTypes /\ WalkTypes
    /\ poolState \in {"closed", "waiting", "working"}
    /\ pc \in {"idle", "grow", "reduceWaiting", "reduceLast", "byState",
               "byTasks", "byTasksRecord", "give", "giveFewest", "suspend",
               "resume", "crashed"}
    /\ count \in 0..SizeMax
    /\ cursor \in Node \cup {Null}
BY DEF TypeOK, ListTypes, ThreadTypes, WalkTypes

LEMMA LinkedFits == IsOne => Linked \in 0..SizeMax /\ Linked = Cardinality(live)
<1> SUFFICES ASSUME IsOne PROVE Linked \in 0..SizeMax /\ Linked = Cardinality(live)
  OBVIOUS
<1>1. /\ Len(list) \in 0..Cardinality(Node) /\ Cardinality(Node) \in Nat
      /\ Linked = Len(list) /\ Cardinality(live) = Len(list)
  BY ListLength DEF IsOne, IsList
<1> QED BY <1>1, PoolAssumption

LEMMA NextLinkedFits == IsOne' => Linked' \in 0..SizeMax /\ Linked' = Cardinality(live')
<1>1. (IsOne => Linked \in 0..SizeMax /\ Linked = Cardinality(live))'
  BY LinkedFits, PTL
<1> QED BY <1>1

\* Outside _Reduce()'s second pass the size counts every node.
LEMMA LinkedIs == TypeOK /\ pc # "reduceLast" => Linked = size
BY PoolAssumption DEF TypeOK, Linked, CallerAt

LEMMA LinkedStays ==
  ASSUME TypeOK, UNCHANGED size,
         \/ pc # "reduceLast" /\ pc' # "reduceLast"
         \/ UNCHANGED <<pc, count>>
         \/ count = 0 /\ pc' # "reduceLast"
  PROVE  Linked' = Linked
<1>1. CASE \/ pc # "reduceLast" /\ pc' # "reduceLast"
           \/ UNCHANGED <<pc, count>>
  BY <1>1 DEF Linked, CallerAt
<1>2. CASE count = 0 /\ pc' # "reduceLast"
  BY <1>2, PoolAssumption DEF TypeOK, Linked, CallerAt
<1> QED BY <1>1, <1>2

\* Between calls, while the pool grows and at the end nothing is asked of the walk.
NoWalk == LeavesOne /\ OnlyWorking /\ OnlyFewer /\ Placed /\ Chosen /\ LeastLoaded

AtEase == pc \in {"grow", "crashed"} \/ (pc = "idle" /\ cursor = Null)

LEMMA AtRest == AtEase => NoWalk
BY DEF AtEase, NoWalk, LeavesOne, OnlyWorking, OnlyFewer, Placed, Walking, Chosen,
       LeastLoaded

LEMMA ReturnsKeep ==
  ASSUME IInv, Returns, IsOne', ListTypes', ThreadTypes', UNCHANGED poolState
  PROVE  IInv'
<1>1. /\ pc' = "idle" /\ count' = 0 /\ cursor' = Null
      /\ index' = 0 /\ fewest' = 0 /\ which' = 0
      /\ before' = [n \in Node |-> 0]
  BY DEF Returns
<1>2. NoWalk'
  <2>1. AtEase'
    BY <1>1 DEF AtEase
  <2> QED BY <2>1, AtRest, PTL
<1>3. 0 \in 0..SizeMax /\ 0 \in 0..MaxTasks
  BY PoolAssumption
<1>4. WalkTypes'
  BY <1>1, <1>3 DEF WalkTypes
<1>5. TypeOK'
  <2>1. poolState' \in {"closed", "waiting", "working"}
    BY DEF IInv, TypeOK
  <2>2. (/\ ListTypes /\ ThreadTypes /\ WalkTypes
         /\ poolState \in {"closed", "waiting", "working"}
         /\ pc \in {"idle", "grow", "reduceWaiting", "reduceLast", "byState",
                    "byTasks", "byTasksRecord", "give", "giveFewest", "suspend",
                    "resume", "crashed"}
         /\ count \in 0..SizeMax
         /\ cursor \in Node \cup {Null})'
    BY <1>1, <1>3, <1>4, <2>1
  <2> QED BY <2>2, Types, PTL
<1>6. CursorLive'
  BY <1>1 DEF CursorLive
<1> QED BY <1>2, <1>5, <1>6 DEF IInv, NoWalk

\* A step that leaves the list alone.
LEMMA ListStays ==
  ASSUME IInv, UNCHANGED listVars,
         \/ pc # "reduceLast" /\ pc' # "reduceLast"
         \/ UNCHANGED <<pc, count>>
         \/ count = 0 /\ pc' # "reduceLast"
  PROVE  /\ IsOne' /\ list' = list /\ ListTypes' /\ UNCHANGED Linked
         /\ UNCHANGED <<first, last, size, next, prev, live>>
         /\ first \in live \cup {Null}
         /\ \A n \in live : next[n] \in live \cup {Null}
         /\ Null \notin live /\ live \subseteq Node
<1>1. TypeOK /\ IsOne
  BY DEF IInv
<1>2. UNCHANGED <<first, last, size, next, prev, live>>
  BY DEF listVars
<1>3. IsOne' /\ list' = list /\ UNCHANGED Linked
  <2>1. UNCHANGED Linked
    BY <1>1, <1>2, LinkedStays
  <2> QED BY <1>1, <1>2, <2>1, SameList
<1>4. ListTypes'
  BY <1>1, <1>2 DEF TypeOK, ListTypes
<1> QED BY <1>1, <1>2, <1>3, <1>4, Links DEF TypeOK

LEMMA WorkerKeeps ==
  ASSUME IInv, NEW n \in live, WorkerTakes(n) \/ WorkerSettles(n)
  PROVE  IInv'
<1>1. /\ UNCHANGED listVars
      /\ UNCHANGED <<poolState, pc, count, cursor, index, fewest, which, before>>
  BY DEF WorkerTakes, WorkerSettles, walkVars
<1>2. /\ IsOne' /\ list' = list /\ ListTypes' /\ UNCHANGED Linked
      /\ UNCHANGED <<first, last, size, next, prev, live>> /\ live \subseteq Node
  BY <1>1, ListStays
<1>3. ThreadTypes /\ tasks \in [Node -> 0..MaxTasks]
  BY DEF IInv, TypeOK, ThreadTypes
<1>4. ThreadTypes' /\ \A m \in Node : tasks'[m] <= tasks[m]
  <2>1. CASE WorkerTakes(n)
    <3>1. /\ tasks' = [tasks EXCEPT ![n] = @ - 1] /\ tasks[n] > 0
          /\ UNCHANGED state
      BY <2>1 DEF WorkerTakes
    <3>2. tasks[n] - 1 \in 0..MaxTasks /\ n \in Node
      BY <1>2, <1>3, <3>1, PoolAssumption
    <3>3. tasks' \in [Node -> 0..MaxTasks] /\ tasks'[n] = tasks[n] - 1
          /\ \A m \in Node \ {n} : tasks'[m] = tasks[m]
      BY <1>3, <3>1, <3>2
    <3>4. \A m \in Node : tasks'[m] <= tasks[m]
      BY <1>3, <3>3, PoolAssumption
    <3> QED BY <1>3, <3>1, <3>3, <3>4 DEF ThreadTypes
  <2>2. CASE WorkerSettles(n)
    <3>1. state' = [state EXCEPT ![n] = "waiting"] /\ UNCHANGED tasks
      BY <2>2 DEF WorkerSettles
    <3>2. \A m \in Node : tasks[m] \in Nat /\ tasks'[m] = tasks[m]
      BY <1>3, <3>1, PoolAssumption
    <3>3. \A m \in Node : tasks'[m] <= tasks[m]
      BY <3>2
    <3>4. ThreadTypes'
      BY <1>3, <3>1 DEF ThreadTypes
    <3> QED BY <3>3, <3>4
  <2> QED BY <2>1, <2>2
<1>5. TypeOK'
  <2>1. TypeOK
    BY DEF IInv
  <2> QED BY <1>1, <1>2, <1>4, <2>1 DEF TypeOK, ThreadTypes, ListTypes
<1>6. CursorLive' /\ LeavesOne' /\ OnlyWorking'
  BY <1>1, <1>2 DEF IInv, CursorLive, LeavesOne, OnlyWorking
<1>7. \A m \in Node : tasks[m] \in Nat /\ tasks'[m] \in Nat /\ before[m] \in Nat
  BY <1>3, <1>4, PoolAssumption DEF ThreadTypes, IInv, TypeOK
<1>8. OnlyFewer'
  BY <1>1, <1>2, <1>4, <1>7 DEF IInv, OnlyFewer
<1>9. Placed' /\ Chosen'
  <2>1. \A i \in 1..Linked : list[i] \in Node
    BY <1>2, Links DEF IInv
  <2>2. Linked \in Nat /\ which \in Nat /\ fewest \in Nat
    BY PoolAssumption, LinkedFits DEF IInv, TypeOK
  <2>3. Placed'
    <3> SUFFICES ASSUME Walking
                 PROVE  /\ index \in 1..Linked /\ which < index
                        /\ cursor = IF index < Linked THEN list[index + 1] ELSE Null
                        /\ tasks'[list[which + 1]] <= fewest
                        /\ \A i \in 1..index : fewest <= before[list[i]]
      BY <1>1, <1>2 DEF Placed, Walking
    <3>1. /\ index \in 1..Linked /\ which < index
          /\ cursor = IF index < Linked THEN list[index + 1] ELSE Null
          /\ tasks[list[which + 1]] <= fewest
          /\ \A i \in 1..index : fewest <= before[list[i]]
      BY DEF IInv, Placed
    <3>2. list[which + 1] \in Node
      BY <2>1, <2>2, <3>1
    <3> QED BY <1>4, <1>7, <2>2, <3>1, <3>2
  <2>4. Chosen'
    <3>1. cursor # Null => cursor \in Node
      BY DEF IInv, TypeOK
    <3> QED BY <1>1, <1>4, <1>7, <2>2, <3>1 DEF IInv, Chosen
  <2> QED BY <2>3, <2>4
<1>10. LeastLoaded'
  <2>1. pc = "give" => state'[cursor] = "waiting"
    <3>1. state' = state \/ state' = [state EXCEPT ![n] = "waiting"]
      BY DEF WorkerTakes, WorkerSettles
    <3>2. state \in [Node -> {"terminated", "waiting", "working"}]
      BY <1>3 DEF ThreadTypes
    <3>3. pc = "give" => state[cursor] = "waiting" /\ cursor \in Node
      BY DEF IInv, Chosen, TypeOK, LeastLoaded
    <3> QED BY <3>1, <3>2, <3>3
  <2>2. ASSUME pc = "giveFewest", NEW m \in live PROVE tasks'[cursor] <= before[m]
    <3>1. cursor \in Node /\ tasks[cursor] <= before[m] /\ m \in Node
      BY <1>2, <2>2 DEF IInv, Chosen, TypeOK, LeastLoaded
    <3> QED BY <1>4, <1>7, <3>1
  <2> QED BY <1>1, <1>2, <2>1, <2>2 DEF LeastLoaded
<1> QED BY <1>2, <1>5, <1>6, <1>8, <1>9, <1>10 DEF IInv

LEMMA ReturnsOnly ==
  ASSUME IInv, Returns, UNCHANGED <<listVars, poolState>>, ThreadTypes',
         pc # "reduceLast" \/ count = 0
  PROVE  IInv'
<1>1. UNCHANGED listVars /\ pc' = "idle"
  BY DEF Returns
<1>2. IsOne' /\ ListTypes'
  BY <1>1, ListStays
<1> QED BY <1>2, ReturnsKeep

LEMMA ThreadsStay == TypeOK /\ UNCHANGED threadVars => ThreadTypes'
BY DEF TypeOK, ThreadTypes, threadVars

LEMMA IncreaseKeeps ==
  ASSUME IInv, NEW c \in Counts, Increase(c)
  PROVE  IInv'
<1>1. /\ UNCHANGED listVars /\ pc = "idle" /\ pc' = "grow" /\ count' = c
      /\ UNCHANGED <<state, tasks, poolState, cursor, index, fewest, which, before>>
  BY DEF Increase, CallerAt, threadVars, walkVars
<1>2. IsOne' /\ ListTypes' /\ live' = live
  BY <1>1, ListStays
<1>3. NoWalk'
  <2>1. AtEase'
    BY <1>1 DEF AtEase
  <2> QED BY <2>1, AtRest, PTL
<1>4. TypeOK'
  BY <1>1, <1>2, PoolAssumption DEF IInv, TypeOK, ListTypes
<1> QED BY <1>1, <1>2, <1>3, <1>4 DEF IInv, NoWalk, CursorLive

LEMMA GrowKeeps == ASSUME IInv, Grow PROVE IInv'
<1>1. PICK n \in Node \ live, s \in {"waiting", "terminated"} :
        /\ live' = live \cup {n}
        /\ first' = IF size = 0 THEN n ELSE first
        /\ last' = n
        /\ next' = [m \in Node |-> IF m = n THEN Null
                                   ELSE IF size > 0 /\ m = last THEN n ELSE next[m]]
        /\ prev' = [prev EXCEPT ![n] = IF size = 0 THEN Null ELSE last]
        /\ state' = [state EXCEPT ![n] = s]
        /\ tasks' = [tasks EXCEPT ![n] = 0]
  BY DEF Grow
<1>2. /\ pc = "grow" /\ count > 0 /\ size' = size + 1 /\ count' = count - 1
      /\ UNCHANGED <<poolState, pc, cursor, index, fewest, which, before>>
  BY DEF Grow, CallerAt, walkVars
<1>3. TypeOK /\ IsOne
  BY DEF IInv
<1>4. IsOne' /\ size' = Linked'
  <2>1. size \in Nat /\ Linked = size + 0 /\ Linked' = size' + 0
    BY <1>2, <1>3, PoolAssumption DEF TypeOK, Linked, CallerAt
  <2>2. Linked = size /\ Linked' = size'
    BY <1>2, <2>1
  <2> QED BY <1>1, <1>2, <1>3, <2>2, Grown
<1>5. size' \in 0..SizeMax
  BY <1>4, NextLinkedFits
<1>6. ListTypes'
  BY <1>1, <1>3, <1>5 DEF TypeOK, ListTypes
<1>7. ThreadTypes'
  <2>1. 0 \in 0..MaxTasks
    BY PoolAssumption
  <2> QED BY <1>1, <1>3, <2>1 DEF TypeOK, ThreadTypes
<1>8. count' \in 0..SizeMax
  BY <1>2, <1>3, PoolAssumption DEF TypeOK
<1>9. TypeOK'
  BY <1>2, <1>3, <1>6, <1>7, <1>8 DEF TypeOK, ListTypes, ThreadTypes
<1>10. NoWalk'
  <2>1. AtEase'
    BY <1>2 DEF AtEase
  <2> QED BY <2>1, AtRest, PTL
<1>11. CursorLive'
  BY <1>1, <1>2 DEF IInv, CursorLive
<1> QED BY <1>4, <1>9, <1>10, <1>11 DEF IInv, NoWalk

LEMMA DecreaseKeeps ==
  ASSUME IInv, NEW c \in Counts, Decrease(c)
  PROVE  IInv'
<1>1. /\ UNCHANGED listVars /\ pc = "idle" /\ pc' = "reduceWaiting"
      /\ count' = c /\ cursor' = first
      /\ c < size
      /\ UNCHANGED <<state, tasks, poolState, index, fewest, which, before>>
  BY DEF Decrease, CallerAt, Walks, threadVars, walkVars
<1>2. IsOne' /\ ListTypes' /\ live' = live /\ Linked' = size /\ first \in live \cup {Null}
  BY <1>1, ListStays, LinkedIs DEF IInv
<1>3. TypeOK'
  BY <1>1, <1>2, PoolAssumption DEF IInv, TypeOK, ListTypes
<1>4. CursorLive' /\ LeavesOne'
  BY <1>1, <1>2 DEF CursorLive, LeavesOne
<1>5. OnlyWorking' /\ OnlyFewer' /\ Placed' /\ Chosen' /\ LeastLoaded'
  BY <1>1 DEF OnlyWorking, OnlyFewer, Placed, Walking, Chosen, LeastLoaded
<1> QED BY <1>2, <1>3, <1>4, <1>5 DEF IInv

LEMMA DestroysTypes ==
  ASSUME TypeOK, NEW S, Destroys(S)
  PROVE  ThreadTypes' /\ live' = live \ S
<1>1. 0 \in 0..MaxTasks
  BY PoolAssumption
<1> QED BY <1>1 DEF TypeOK, ThreadTypes, Destroys

LEMMA ReduceWaitingKeeps == ASSUME IInv, ReduceWaiting PROVE IInv'
<1>1. /\ pc = "reduceWaiting" /\ cursor # Null /\ count > 0 /\ cursor' = next[cursor]
      /\ UNCHANGED <<poolState, pc, index, fewest, which, before>>
  BY DEF ReduceWaiting, CallerAt, walkVars
<1>2. /\ TypeOK /\ IsOne /\ cursor \in live /\ count < Linked
      /\ Linked \in Nat /\ count \in Nat /\ Linked = size
  BY <1>1, PoolAssumption, LinkedIs, LinkedFits DEF IInv, CursorLive, LeavesOne, TypeOK
<1>3. next[cursor] \in live \cup {Null} /\ next[cursor] # cursor
  BY <1>2, Links
<1>4. OnlyWorking' /\ OnlyFewer' /\ Placed' /\ Chosen' /\ LeastLoaded'
  BY <1>1 DEF OnlyWorking, OnlyFewer, Placed, Walking, Chosen, LeastLoaded
<1>5. CASE state[cursor] = "waiting"
  <2>1. FreeNode(cursor) /\ count' = count - 1
    BY <1>5 DEF ReduceWaiting
  <2>2. Linked > 1
    BY <1>1, <1>2
  <2>3. IsOne' /\ live' = live \ {cursor} /\ size' = Linked' /\ Linked' = Linked - 1
    BY <1>1, <1>2, <2>1, <2>2, Freed
  <2>4. ThreadTypes'
    BY <1>2, <2>1, DestroysTypes DEF FreeNode
  <2>5. ListTypes'
    <3>1. size' \in 0..SizeMax
      BY <2>3, NextLinkedFits
    <3>2. next[cursor] \in Node \cup {Null} /\ prev[cursor] \in Node \cup {Null}
      BY <1>2 DEF TypeOK
    <3>3. /\ first' = IF cursor = first /\ next[cursor] # Null THEN next[cursor] ELSE first
          /\ last' = IF cursor # first /\ cursor = last THEN prev[cursor] ELSE last
          /\ next' = [m \in Node |-> IF m = cursor THEN Null
                                     ELSE IF cursor # first /\ m = prev[cursor]
                                     THEN next[cursor] ELSE next[m]]
          /\ prev' = [m \in Node |-> IF m = cursor \/ (cursor = first /\ m = next[cursor])
                                     THEN Null
                                     ELSE IF m = next[cursor] THEN prev[cursor]
                                     ELSE prev[m]]
      BY <2>1 DEF FreeNode
    <3>4. first' \in Node \cup {Null} /\ last' \in Node \cup {Null}
      BY <1>2, <3>2, <3>3 DEF TypeOK
    <3>5. next' \in [Node -> Node \cup {Null}] /\ prev' \in [Node -> Node \cup {Null}]
      BY <1>2, <3>2, <3>3 DEF TypeOK
    <3> QED BY <1>2, <2>3, <3>1, <3>4, <3>5 DEF TypeOK, ListTypes
  <2>6. count' \in 0..SizeMax /\ count' < Linked'
    BY <1>1, <1>2, <2>1, <2>3, PoolAssumption DEF TypeOK
  <2>7. TypeOK'
    BY <1>1, <1>2, <1>3, <2>4, <2>5, <2>6 DEF TypeOK, ListTypes, ThreadTypes
  <2>8. CursorLive' /\ LeavesOne'
    BY <1>1, <1>3, <2>3, <2>6 DEF CursorLive, LeavesOne
  <2> QED BY <1>4, <2>3, <2>7, <2>8 DEF IInv
<1>6. CASE state[cursor] # "waiting"
  <2>1. UNCHANGED listVars /\ UNCHANGED <<state, tasks, count>>
    BY <1>6 DEF ReduceWaiting, threadVars
  <2>2. /\ IsOne' /\ ListTypes' /\ live' = live /\ Linked' = Linked
        /\ live \subseteq Node
    BY <1>1, <2>1, ListStays
  <2>3. TypeOK'
    BY <1>1, <1>2, <1>3, <2>1, <2>2 DEF TypeOK, ListTypes
  <2>4. CursorLive' /\ LeavesOne'
    BY <1>1, <1>2, <1>3, <2>1, <2>2 DEF CursorLive, LeavesOne
  <2> QED BY <1>4, <2>2, <2>3, <2>4 DEF IInv
<1> QED BY <1>5, <1>6

LEMMA ReduceWaitingDoneKeeps == ASSUME IInv, ReduceWaitingDone PROVE IInv'
<1>1. /\ pc = "reduceWaiting" /\ UNCHANGED <<first, last, next, prev, live>>
      /\ UNCHANGED <<state, tasks, poolState>>
  BY DEF ReduceWaitingDone, CallerAt, threadVars
<1>2. ThreadTypes'
  BY <1>1 DEF IInv, TypeOK, ThreadTypes
<1>3. CASE count = 0
  <2>1. Returns /\ UNCHANGED size
    BY <1>3 DEF ReduceWaitingDone
  <2>2. UNCHANGED <<listVars, poolState>>
    BY <1>1, <2>1 DEF listVars
  <2> QED BY <1>2, <1>3, <2>1, <2>2, ReturnsOnly
<1>4. CASE count # 0
  <2>1. /\ pc' = "reduceLast" /\ cursor' = Null /\ size' = size - count
        /\ UNCHANGED <<count, index, fewest, which, before>>
    BY <1>4 DEF ReduceWaitingDone, Walks, walkVars
  <2>2. TypeOK /\ IsOne /\ Linked = size /\ size \in 0..SizeMax /\ count \in 0..SizeMax
        /\ count < Linked
    BY <1>1, LinkedIs DEF IInv, TypeOK, LeavesOne
  <2>3. size' \in 0..SizeMax /\ size' + count = size
    BY <2>1, <2>2, PoolAssumption
  <2>4. Linked' = Linked
    BY <2>1, <2>2, <2>3 DEF Linked, CallerAt
  <2>5. IsOne'
    BY <1>1, <2>2, <2>4, SameList
  <2>6. TypeOK'
    BY <1>1, <2>1, <2>2, <2>3 DEF TypeOK
  <2>7. CursorLive' /\ LeavesOne'
    BY <1>1, <2>1, <2>2, <2>4 DEF CursorLive, LeavesOne
  <2>8. OnlyWorking' /\ OnlyFewer' /\ Placed' /\ Chosen' /\ LeastLoaded'
    BY <2>1 DEF OnlyWorking, OnlyFewer, Placed, Walking, Chosen, LeastLoaded
  <2> QED BY <2>5, <2>6, <2>7, <2>8 DEF IInv
<1> QED BY <1>3, <1>4

LEMMA ReduceLastKeeps == ASSUME IInv, ReduceLast PROVE IInv'
<1>1. /\ pc = "reduceLast" /\ count > 0 /\ count' = count - 1
      /\ next' = [next EXCEPT ![prev[last]] = Null]
      /\ prev' = [prev EXCEPT ![last] = Null]
      /\ last' = prev[last] /\ Destroys({last})
      /\ UNCHANGED <<first, size, poolState, pc, cursor, index, fewest, which, before>>
  BY DEF ReduceLast, CallerAt, walkVars
<1>2. /\ TypeOK /\ IsOne /\ count < Linked /\ Linked \in Nat /\ count \in Nat
      /\ size \in Nat
  BY <1>1, PoolAssumption, LinkedFits DEF IInv, LeavesOne, TypeOK
<1>3. Linked > 1 /\ last \in live /\ prev[last] \in live /\ Linked' = Linked - 1
  <2>1. Linked > 1 /\ Linked \in 1..Linked /\ Linked - 1 \in 1..Linked
    BY <1>1, <1>2
  <2>2. Linked = size + count /\ Linked' = size + (count - 1)
    BY <1>1 DEF Linked, CallerAt
  <2> QED BY <1>2, <2>1, <2>2, Links
<1>4. ThreadTypes' /\ live' = live \ {last}
  BY <1>1, <1>2, DestroysTypes
<1>5. IsOne'
  BY <1>1, <1>2, <1>3, <1>4, Shortened
<1>6. ListTypes'
  BY <1>1, <1>2, <1>3, <1>4 DEF TypeOK, ListTypes
<1>7. count' \in 0..SizeMax /\ count' < Linked'
  BY <1>1, <1>2, <1>3, PoolAssumption DEF TypeOK
<1>8. TypeOK'
  BY <1>1, <1>2, <1>4, <1>6, <1>7 DEF TypeOK, ListTypes, ThreadTypes
<1>9. LeavesOne' /\ OnlyWorking' /\ OnlyFewer' /\ Placed' /\ Chosen' /\ LeastLoaded'
  BY <1>1, <1>7
     DEF IInv, LeavesOne, OnlyWorking, OnlyFewer, Placed, Walking, Chosen, LeastLoaded
<1>10. CursorLive'
  BY <1>1 DEF IInv, Chosen, CursorLive
<1> QED BY <1>5, <1>8, <1>9, <1>10 DEF IInv

\* The returns of the methods that change nothing with them.
LEMMA DoneKeeps ==
  ASSUME IInv, GrowDone \/ GrowFails \/ ReduceLastDone \/ EachDone
  PROVE  IInv'
<1>1. /\ Returns /\ UNCHANGED listVars /\ UNCHANGED threadVars /\ UNCHANGED poolState
      /\ pc # "reduceLast" \/ count = 0
  BY DEF GrowDone, GrowFails, ReduceLastDone, EachDone, CallerAt
<1>2. ThreadTypes'
  BY <1>1, ThreadsStay DEF IInv
<1> QED BY <1>1, <1>2, ReturnsOnly

LEMMA SubmitKeeps == ASSUME IInv, Submit PROVE IInv'
<1>1. /\ UNCHANGED listVars /\ pc = "idle" /\ pc' = "byState"
      /\ cursor' = first /\ before' = tasks
      /\ poolState = "working"
      /\ UNCHANGED <<state, tasks, poolState, count, index, fewest, which>>
  BY DEF Submit, CallerAt, Walks, threadVars
<1>2. /\ IsOne' /\ ListTypes' /\ live' = live /\ first \in live \cup {Null}
      /\ live \subseteq Node
  BY <1>1, ListStays
<1>3. TypeOK'
  BY <1>1, <1>2 DEF IInv, TypeOK, ListTypes
<1>4. CursorLive' /\ LeavesOne' /\ OnlyWorking' /\ Placed' /\ Chosen' /\ LeastLoaded'
  BY <1>1, <1>2
     DEF CursorLive, LeavesOne, OnlyWorking, Placed, Walking, Chosen, LeastLoaded
<1>5. OnlyFewer'
  <2>1. \A n \in live : tasks[n] \in Nat
    BY <1>2, PoolAssumption DEF IInv, TypeOK
  <2> QED BY <1>1, <1>2, <2>1 DEF OnlyFewer
<1> QED BY <1>2, <1>3, <1>4, <1>5 DEF IInv

LEMMA ByStateKeeps == ASSUME IInv, ByState PROVE IInv'
<1>1. /\ pc = "byState" /\ cursor # Null
      /\ \/ pc' = "give" /\ cursor' = cursor /\ state[cursor] = "waiting"
         \/ pc' = "byState" /\ cursor' = next[cursor]
      /\ UNCHANGED listVars
      /\ UNCHANGED <<state, tasks, poolState, count, index, fewest, which, before>>
  BY DEF ByState, Walks, CallerAt, threadVars, walkVars
<1>2. /\ IsOne' /\ ListTypes' /\ live' = live /\ live \subseteq Node
      /\ \A n \in live : next[n] \in live \cup {Null}
  BY <1>1, ListStays
<1>3. cursor' \in live \cup {Null} /\ (pc' = "give" => cursor' # Null)
  BY <1>1, <1>2 DEF IInv, CursorLive
<1>4. TypeOK'
  BY <1>1, <1>2, <1>3 DEF IInv, TypeOK, ListTypes
<1>5. CursorLive' /\ LeavesOne' /\ OnlyWorking' /\ Placed' /\ Chosen' /\ LeastLoaded'
  BY <1>1, <1>2, <1>3
     DEF IInv, CursorLive, LeavesOne, OnlyWorking, Placed, Walking, Chosen, LeastLoaded
<1>6. OnlyFewer'
  BY <1>1, <1>2 DEF IInv, OnlyFewer
<1> QED BY <1>2, <1>4, <1>5, <1>6 DEF IInv

LEMMA ByTasksBeginKeeps == ASSUME IInv, ByTasksBegin PROVE IInv'
<1>1. /\ pc = "byState" /\ UNCHANGED listVars
      /\ UNCHANGED <<state, tasks, poolState, count, before>>
      /\ IF first = Null
           THEN pc' = "crashed" /\ cursor' = Null /\ UNCHANGED <<index, fewest, which>>
           ELSE /\ pc' = "byTasks" /\ cursor' = next[first]
                /\ fewest' = tasks[first] /\ which' = 0 /\ index' = 1
  BY DEF ByTasksBegin, Walks, CallerAt, threadVars
<1>2. /\ IsOne' /\ list' = list /\ ListTypes' /\ live' = live /\ live \subseteq Node
      /\ Linked' = Linked /\ first \in live \cup {Null}
      /\ \A n \in live : next[n] \in live \cup {Null}
  BY <1>1, ListStays
<1>3. CASE first = Null
  <2>1. TypeOK'
    BY <1>1, <1>2, <1>3 DEF IInv, TypeOK, ListTypes
  <2>2. AtEase'
    BY <1>1, <1>3 DEF AtEase
  <2>3. NoWalk'
    BY <2>2, AtRest, PTL
  <2> QED BY <1>1, <1>2, <1>3, <2>1, <2>3 DEF IInv, NoWalk, CursorLive
<1>4. CASE first # Null
  <2>1. /\ pc' = "byTasks" /\ cursor' = next[first] /\ first \in live
        /\ fewest' = tasks[first] /\ which' = 0 /\ index' = 1
    BY <1>1, <1>2, <1>4
  <2>2. /\ Linked \in Nat /\ Linked # 0 /\ first = list[1] /\ 1 \in 1..Linked
        /\ next[first] = IF 1 < Linked THEN list[2] ELSE Null
    <3>1. TypeOK /\ IsOne
      BY DEF IInv
    <3>2. Linked \in Nat /\ Linked # 0
      BY <1>4, <3>1, Links
    <3>3. 1 \in 1..Linked /\ Linked > 0
      BY <3>2
    <3> QED BY <3>1, <3>2, <3>3, Links
  <2>3. tasks[first] \in 0..MaxTasks /\ tasks[first] \in Nat /\ tasks[first] <= before[first]
    BY <1>1, <1>2, <2>1, PoolAssumption DEF IInv, TypeOK, OnlyFewer
  <2>4. TypeOK'
    BY <1>1, <1>2, <2>1, <2>3 DEF IInv, TypeOK, ListTypes
  <2>5. CursorLive' /\ LeavesOne' /\ OnlyWorking' /\ Chosen' /\ LeastLoaded'
    BY <1>1, <1>2, <2>1
       DEF IInv, CursorLive, LeavesOne, OnlyWorking, Chosen, LeastLoaded
  <2>6. OnlyFewer'
    BY <1>1, <1>2, <2>1 DEF IInv, OnlyFewer
  <2>7. Placed'
    <3>1. /\ 1 \in 1..Linked' /\ 0 < 1
          /\ cursor' = IF 1 < Linked' THEN list'[1 + 1] ELSE Null
          /\ tasks'[list'[0 + 1]] <= fewest'
          /\ \A i \in 1..1 : fewest' <= before'[list'[i]]
      BY <1>1, <1>2, <2>1, <2>2, <2>3
    <3> QED BY <2>1, <3>1 DEF Placed
  <2> QED BY <1>2, <2>4, <2>5, <2>6, <2>7 DEF IInv
<1> QED BY <1>3, <1>4

LEMMA ByTasksCompareKeeps == ASSUME IInv, ByTasksCompare PROVE IInv'
<1>1. /\ pc = "byTasks" /\ cursor # Null /\ UNCHANGED listVars
      /\ UNCHANGED <<state, tasks, poolState, count, fewest, which, before>>
      /\ IF tasks[cursor] < fewest
           THEN pc' = "byTasksRecord" /\ cursor' = cursor /\ UNCHANGED index
           ELSE pc' = "byTasks" /\ cursor' = next[cursor] /\ index' = index + 1
  BY DEF ByTasksCompare, Walks, CallerAt, threadVars
<1>2. /\ IsOne' /\ list' = list /\ ListTypes' /\ live' = live /\ live \subseteq Node
      /\ Linked' = Linked /\ cursor \in live
      /\ \A n \in live : next[n] \in live \cup {Null}
  BY <1>1, ListStays DEF IInv, CursorLive
<1>3. /\ index \in 1..Linked /\ which < index
      /\ cursor = IF index < Linked THEN list[index + 1] ELSE Null
      /\ tasks[list[which + 1]] <= fewest
      /\ \A i \in 1..index : fewest <= before[list[i]]
  BY <1>1 DEF IInv, Placed, Walking
<1>4. /\ index < Linked /\ cursor = list[index + 1] /\ index + 1 \in 1..Linked
      /\ next[cursor] = IF index + 1 < Linked THEN list[(index + 1) + 1] ELSE Null
      /\ Linked \in Nat /\ index \in Nat /\ which \in Nat
  <2>1. TypeOK /\ IsOne
    BY DEF IInv
  <2>2. Linked \in Nat /\ index \in Nat /\ which \in Nat
    BY <2>1, Links DEF TypeOK
  <2>3. index < Linked /\ cursor = list[index + 1]
    BY <1>1, <1>3
  <2>4. index + 1 \in 1..Linked
    BY <2>2, <2>3
  <2> QED BY <2>1, <2>2, <2>3, <2>4, Links
<1>5. /\ tasks[cursor] \in Nat /\ fewest \in Nat
      /\ tasks[cursor] <= before[cursor] /\ before[cursor] \in Nat
  BY <1>1, <1>2, PoolAssumption DEF IInv, TypeOK, OnlyFewer
<1>6. TypeOK'
  <2>1. index' \in Nat /\ cursor' \in Node \cup {Null}
    BY <1>1, <1>2, <1>4
  <2> QED BY <1>1, <1>2, <2>1 DEF IInv, TypeOK, ListTypes
<1>7. CursorLive' /\ LeavesOne' /\ OnlyWorking' /\ LeastLoaded'
  BY <1>1, <1>2 DEF IInv, CursorLive, LeavesOne, OnlyWorking, LeastLoaded
<1>8. OnlyFewer'
  BY <1>1, <1>2 DEF IInv, OnlyFewer
<1>9. Placed' /\ Chosen'
  <2>1. CASE tasks[cursor] < fewest
    BY <1>1, <1>2, <1>3, <2>1 DEF Placed, Walking, Chosen
  <2>2. CASE ~(tasks[cursor] < fewest)
    <3>1. pc' = "byTasks" /\ cursor' = next[cursor] /\ index' = index + 1
      BY <1>1, <2>2
    <3>2. \A i \in 1..(index + 1) : i \in 1..index \/ i = index + 1
      BY <1>4
    <3>3. fewest <= before[cursor]
      BY <1>5, <2>2
    <3>4. \A i \in 1..(index + 1) : fewest <= before[list[i]]
      BY <1>3, <1>4, <3>2, <3>3
    <3>5. which < index + 1
      BY <1>3, <1>4
    <3>6. Placed'
      BY <1>1, <1>2, <1>3, <1>4, <3>1, <3>4, <3>5 DEF Placed, Walking
    <3> QED BY <3>1, <3>6 DEF Chosen
  <2> QED BY <2>1, <2>2
<1> QED BY <1>2, <1>6, <1>7, <1>8, <1>9 DEF IInv

LEMMA ByTasksRecordKeeps == ASSUME IInv, ByTasksRecord PROVE IInv'
<1>1. /\ pc = "byTasksRecord" /\ UNCHANGED listVars
      /\ fewest' = tasks[cursor] /\ which' = index
      /\ pc' = "byTasks" /\ cursor' = next[cursor] /\ index' = index + 1
      /\ UNCHANGED <<state, tasks, poolState, count, before>>
  BY DEF ByTasksRecord, Walks, CallerAt, threadVars
<1>2. /\ IsOne' /\ list' = list /\ ListTypes' /\ live' = live /\ live \subseteq Node
      /\ Linked' = Linked /\ cursor \in live /\ tasks[cursor] < fewest
      /\ \A n \in live : next[n] \in live \cup {Null}
  BY <1>1, ListStays DEF IInv, CursorLive, Chosen
<1>3. /\ index \in 1..Linked /\ cursor = IF index < Linked THEN list[index + 1] ELSE Null
      /\ \A i \in 1..index : fewest <= before[list[i]]
      /\ cursor # Null
  BY <1>1 DEF IInv, Placed, Walking, Chosen
<1>4. /\ index < Linked /\ cursor = list[index + 1] /\ index + 1 \in 1..Linked
      /\ next[cursor] = IF index + 1 < Linked THEN list[(index + 1) + 1] ELSE Null
      /\ Linked \in Nat /\ index \in Nat
      /\ \A i \in 1..Linked : list[i] \in live
  <2>1. TypeOK /\ IsOne
    BY DEF IInv
  <2>2. Linked \in Nat /\ index \in Nat /\ \A i \in 1..Linked : list[i] \in live
    BY <2>1, Links DEF TypeOK
  <2>3. index < Linked /\ cursor = list[index + 1]
    BY <1>3
  <2>4. index + 1 \in 1..Linked
    BY <2>2, <2>3
  <2> QED BY <2>1, <2>2, <2>3, <2>4, Links
<1>5. /\ tasks[cursor] \in 0..MaxTasks /\ tasks[cursor] \in Nat /\ fewest \in Nat
      /\ tasks[cursor] <= before[cursor]
      /\ \A n \in live : before[n] \in Nat
  BY <1>1, <1>2, PoolAssumption DEF IInv, TypeOK, OnlyFewer
<1>6. TypeOK'
  <2>1. index' \in Nat /\ which' \in Nat /\ cursor' \in Node \cup {Null}
    BY <1>1, <1>2, <1>4
  <2> QED BY <1>1, <1>2, <1>5, <2>1 DEF IInv, TypeOK, ListTypes
<1>7. CursorLive' /\ LeavesOne' /\ OnlyWorking' /\ LeastLoaded' /\ Chosen'
  BY <1>1, <1>2 DEF IInv, CursorLive, LeavesOne, OnlyWorking, LeastLoaded, Chosen
<1>8. OnlyFewer'
  BY <1>1, <1>2 DEF IInv, OnlyFewer
<1>9. Placed'
  <2>1. ASSUME NEW i \in 1..(index + 1) PROVE tasks[cursor] <= before[list[i]]
    <3>1. CASE i = index + 1
      BY <1>4, <1>5, <3>1
    <3>2. CASE i # index + 1
      <4>1. i \in 1..index /\ i \in 1..Linked
        BY <1>4, <3>2
      <4>2. fewest <= before[list[i]] /\ before[list[i]] \in Nat
        BY <1>3, <1>4, <1>5, <4>1
      <4> QED BY <1>2, <1>5, <4>2
    <3> QED BY <3>1, <3>2
  <2>2. index < index + 1
    BY <1>4
  <2>3. tasks'[list'[index + 1]] <= fewest'
    BY <1>1, <1>2, <1>4, <1>5
  <2> QED BY <1>1, <1>2, <1>4, <2>1, <2>2, <2>3 DEF Placed
<1> QED BY <1>2, <1>6, <1>7, <1>8, <1>9 DEF IInv

LEMMA SelectThreadKeeps == ASSUME IInv, SelectThread PROVE IInv'
<1>1. /\ pc = "byTasks" /\ cursor = Null /\ UNCHANGED listVars
      /\ pc' = "giveFewest"
      /\ cursor' = IF which = Linked - 1 THEN last ELSE nodeAt[which]
      /\ UNCHANGED <<state, tasks, poolState, count, index, fewest, which, before>>
  <2>1. pc = "byTasks" /\ cursor' = IF which = size - 1 THEN last ELSE nodeAt[which]
    BY DEF SelectThread, Walks, CallerAt
  <2>2. Linked = size
    BY <2>1, LinkedIs DEF IInv
  <2> QED BY <2>1, <2>2 DEF SelectThread, Walks, CallerAt, threadVars, walkVars
<1>2. /\ IsOne' /\ ListTypes' /\ live' = live /\ live \subseteq Node /\ Null \notin live
      /\ Linked' = Linked
  BY <1>1, ListStays
<1>3. /\ index \in 1..Linked /\ which < index
      /\ cursor = IF index < Linked THEN list[index + 1] ELSE Null
      /\ tasks[list[which + 1]] <= fewest
      /\ \A i \in 1..index : fewest <= before[list[i]]
  BY <1>1 DEF IInv, Placed, Walking
<1>4. /\ Linked \in Nat /\ \A i \in 1..Linked : list[i] \in live
      /\ Len(list) = Linked
      /\ \A n \in live : \E i \in 1..Linked : list[i] = n
      /\ Linked > 0 => last = list[Linked]
      /\ index \in Nat /\ which \in Nat /\ IsList(list)
  BY Links DEF IInv, TypeOK, IsOne
<1>5. index = Linked
  <2>1. index < Linked => index + 1 \in 1..Linked
    BY <1>3, <1>4
  <2> QED BY <1>1, <1>2, <1>3, <1>4, <2>1
<1>6. cursor' = list[which + 1] /\ which + 1 \in 1..Linked
  <2>1. which + 1 \in 1..Linked /\ Linked > 0
    BY <1>3, <1>4, <1>5
  <2>2. CASE which = Linked - 1
    <3>1. which + 1 = Linked
      BY <1>4, <2>2
    <3> QED BY <1>1, <1>4, <2>1, <2>2, <3>1
  <2>3. CASE which # Linked - 1
    <3>1. Len(list) \in 0..Cardinality(Node) /\ Cardinality(Node) \in Nat
      BY <1>4, ListLength
    <3>2. which \in 0..Cardinality(Node) /\ which < Len(list)
      BY <1>4, <2>1, <3>1
    <3>3. nodeAt[which] = list[which + 1]
      BY <1>4, <3>2, NodeAt
    <3> QED BY <1>1, <2>1, <2>3, <3>3
  <2> QED BY <2>2, <2>3
<1>7. cursor' \in live
  BY <1>4, <1>6
<1>8. TypeOK'
  BY <1>1, <1>2, <1>7 DEF IInv, TypeOK, ListTypes
<1>9. CursorLive' /\ LeavesOne' /\ OnlyWorking' /\ OnlyFewer' /\ Placed' /\ Chosen'
  BY <1>1, <1>2, <1>7
     DEF IInv, CursorLive, LeavesOne, OnlyWorking, OnlyFewer, Placed, Walking, Chosen
<1>10. LeastLoaded'
  <2> SUFFICES ASSUME NEW n \in live PROVE tasks[list[which + 1]] <= before[n]
    BY <1>1, <1>2, <1>6 DEF LeastLoaded
  <2>1. PICK i \in 1..Linked : list[i] = n
    BY <1>4
  <2>2. fewest <= before[n]
    BY <1>3, <1>5, <2>1
  <2>3. tasks[list[which + 1]] \in Nat /\ fewest \in Nat /\ before[n] \in Nat
    BY <1>2, <1>4, <1>6, PoolAssumption DEF IInv, TypeOK
  <2> QED BY <1>3, <2>2, <2>3
<1> QED BY <1>2, <1>8, <1>9, <1>10 DEF IInv

LEMMA GiveKeeps == ASSUME IInv, Give PROVE IInv'
<1>1. /\ pc \in {"give", "giveFewest"} /\ pc # "reduceLast"
      /\ Returns /\ UNCHANGED <<listVars, poolState>>
  BY DEF Give
<1>2. /\ state \in [Node -> {"terminated", "waiting", "working"}]
      /\ tasks \in [Node -> 0..MaxTasks] /\ cursor \in Node
  BY <1>1 DEF IInv, TypeOK, Chosen
<1>3. CASE state[cursor] = "terminated" \/ tasks[cursor] = MaxTasks
  <2>1. UNCHANGED threadVars /\ TypeOK
    BY <1>3 DEF Give, IInv
  <2> QED BY <1>1, <2>1, ThreadsStay, ReturnsOnly
<1>4. CASE ~(state[cursor] = "terminated" \/ tasks[cursor] = MaxTasks)
  <2>1. /\ tasks' = [tasks EXCEPT ![cursor] = @ + 1]
        /\ state' = [state EXCEPT ![cursor] = "working"] \/ UNCHANGED state
    BY <1>4 DEF Give
  <2>2. tasks[cursor] + 1 \in 0..MaxTasks
    <3>1. tasks[cursor] \in 0..MaxTasks /\ tasks[cursor] # MaxTasks
      BY <1>2, <1>4
    <3> QED BY <3>1, PoolAssumption
  <2>3. tasks' \in [Node -> 0..MaxTasks]
    BY <1>2, <2>1, <2>2
  <2>4. state' \in [Node -> {"terminated", "waiting", "working"}]
    BY <1>2, <2>1
  <2> QED BY <1>1, <2>3, <2>4, ReturnsOnly DEF ThreadTypes
<1> QED BY <1>3, <1>4

LEMMA BeginEachKeeps == ASSUME IInv, Suspend \/ Resume PROVE IInv'
<1>1. /\ UNCHANGED listVars /\ pc = "idle" /\ cursor' = first
      /\ pc' \in {"suspend", "resume"} /\ poolState' \in {"waiting", "working"}
      /\ pc' = "resume" => poolState' = "working"
      /\ UNCHANGED <<state, tasks, count, index, fewest, which, before>>
  BY DEF Suspend, Resume, CallerAt, Walks, threadVars, walkVars
<1>2. /\ IsOne' /\ ListTypes' /\ live' = live /\ live \subseteq Node
      /\ first \in live \cup {Null}
  BY <1>1, ListStays
<1>3. TypeOK'
  BY <1>1, <1>2 DEF IInv, TypeOK, ListTypes
<1>4. CursorLive' /\ LeavesOne' /\ OnlyWorking' /\ OnlyFewer' /\ Placed' /\ Chosen'
      /\ LeastLoaded'
  BY <1>1, <1>2 DEF CursorLive, LeavesOne, OnlyWorking, OnlyFewer, Placed, Walking,
                    Chosen, LeastLoaded
<1> QED BY <1>2, <1>3, <1>4 DEF IInv

LEMMA EachKeeps == ASSUME IInv, SuspendEach \/ ResumeEach PROVE IInv'
<1>1. /\ UNCHANGED listVars /\ cursor # Null /\ cursor' = next[cursor]
      /\ pc \in {"suspend", "resume"} /\ pc' = pc
      /\ UNCHANGED <<tasks, poolState, count, index, fewest, which, before>>
  BY DEF SuspendEach, ResumeEach, Walks, CallerAt, walkVars
<1>2. /\ IsOne' /\ ListTypes' /\ live' = live /\ live \subseteq Node /\ cursor \in live
      /\ \A n \in live : next[n] \in live \cup {Null}
  BY <1>1, ListStays DEF IInv, CursorLive
<1>3. state' \in [Node -> {"terminated", "waiting", "working"}]
  <2>1. state \in [Node -> {"terminated", "waiting", "working"}]
    BY DEF IInv, TypeOK
  <2>2. \/ state' = [state EXCEPT ![cursor] = IF @ = "working" THEN "waiting" ELSE @]
        \/ state' = [state EXCEPT ![cursor] = IF @ = "waiting" THEN "working" ELSE @]
        \/ UNCHANGED state
    BY DEF SuspendEach, ResumeEach
  <2> QED BY <2>1, <2>2
<1>4. TypeOK'
  BY <1>1, <1>2, <1>3 DEF IInv, TypeOK, ListTypes
<1>5. OnlyWorking'
  BY <1>1 DEF IInv, OnlyWorking
<1>6. CursorLive' /\ LeavesOne' /\ OnlyFewer' /\ Placed' /\ Chosen' /\ LeastLoaded'
  BY <1>1, <1>2 DEF CursorLive, LeavesOne, OnlyFewer, Placed, Walking, Chosen,
                    LeastLoaded
<1> QED BY <1>2, <1>4, <1>5, <1>6 DEF IInv

LEMMA CloseKeeps == ASSUME IInv, Close PROVE IInv'
<1>1. /\ pc = "idle" /\ pc' = "idle" /\ poolState' = "closed"
      /\ first' = Null /\ last' = Null /\ size' = 0
      /\ next' = [n \in Node |-> Null] /\ prev' = [n \in Node |-> Null]
      /\ UNCHANGED <<count, cursor, index, fewest, which, before>>
  BY DEF Close, CallerAt, walkVars
<1>2. TypeOK /\ IsOne /\ CursorLive
  BY DEF IInv
<1>3. IsOne' /\ live' = {}
  BY <1>2, Emptied
<1>4. ThreadTypes'
  <2>1. Destroys({nodeAt[k] : k \in 0..Cardinality(Node)} \ {Null})
    BY DEF Close
  <2> QED BY <1>2, <2>1, DestroysTypes
<1>5. TypeOK'
  <2>1. 0 \in 0..SizeMax
    BY PoolAssumption
  <2> QED BY <1>1, <1>2, <1>3, <1>4, <2>1 DEF TypeOK, ThreadTypes
<1>6. cursor = Null
  BY <1>1 DEF IInv, Chosen
<1>7. NoWalk'
  <2>1. AtEase'
    BY <1>1, <1>6 DEF AtEase
  <2> QED BY <2>1, AtRest, PTL
<1> QED BY <1>1, <1>3, <1>5, <1>6, <1>7 DEF IInv, NoWalk, CursorLive

-----------------------------------------------------------------------------
(* The specification.                                                      *)

LEMMA InitHolds == Init => IInv
<1> SUFFICES ASSUME Init PROVE IInv
  OBVIOUS
<1>1. 0 \in 0..SizeMax /\ 0 \in 0..MaxTasks
  BY PoolAssumption
<1>2. count \in 0..SizeMax
  <2>1. PICK c \in InitialCounts : count = IF c < HardwareThreads THEN c ELSE 0
    BY DEF Init
  <2> QED BY <1>1, <2>1, PoolAssumption
<1>3. TypeOK
  BY <1>1, <1>2 DEF Init, TypeOK
<1>4. IsList(<<>>)
  <2>1. <<>> \in Seq(Node) /\ Len(<<>>) = 0 /\ 1..0 = {}
    OBVIOUS
  <2>2. Linked = 0
    BY DEF Init, Linked, CallerAt
  <2> QED BY <2>1, <2>2 DEF Init, IsList
<1>5. IsOne
  BY <1>4, OneIs
<1>6. NoWalk
  <2>1. AtEase
    BY DEF Init, AtEase
  <2> QED BY <2>1, AtRest
<1> QED BY <1>3, <1>5, <1>6 DEF IInv, NoWalk, CursorLive, Init

LEMMA NextKeeps == IInv /\ [Next]_vars => IInv'
<1> SUFFICES ASSUME IInv, [Next]_vars PROVE IInv'
  OBVIOUS
<1>1. CASE Workers
  BY <1>1, WorkerKeeps DEF Workers
<1>2. CASE Caller
  <2>1. ASSUME NEW c \in Counts, Increase(c) \/ Decrease(c) PROVE IInv'
    BY <2>1, IncreaseKeeps, DecreaseKeeps
  <2>2. CASE Grow \/ ReduceWaiting \/ ReduceWaitingDone \/ ReduceLast
    BY <2>2, GrowKeeps, ReduceWaitingKeeps, ReduceWaitingDoneKeeps, ReduceLastKeeps
  <2>3. CASE GrowDone \/ GrowFails \/ ReduceLastDone \/ EachDone
    BY <2>3, DoneKeeps
  <2>4. CASE Submit \/ ByState \/ ByTasksBegin \/ ByTasksCompare \/ ByTasksRecord
    BY <2>4, SubmitKeeps, ByStateKeeps, ByTasksBeginKeeps, ByTasksCompareKeeps,
       ByTasksRecordKeeps
  <2>5. CASE SelectThread \/ Give \/ Close
    BY <2>5, SelectThreadKeeps, GiveKeeps, CloseKeeps
  <2>6. CASE Suspend \/ SuspendEach \/ Resume \/ ResumeEach
    BY <2>6, BeginEachKeeps, EachKeeps
  <2> QED BY <1>2, <2>1, <2>2, <2>3, <2>4, <2>5, <2>6 DEF Caller
<1>3. CASE UNCHANGED vars
  <2>1. /\ UNCHANGED listVars
        /\ UNCHANGED <<state, tasks, poolState, pc, count, cursor, index, fewest, which,
                       before>>
    BY <1>3 DEF vars, threadVars, walkVars
  <2>2. IsOne' /\ list' = list /\ ListTypes' /\ live' = live /\ Linked' = Linked
    BY <2>1, ListStays
  <2>3. TypeOK'
    BY <2>1, <2>2 DEF IInv, TypeOK, ListTypes
  <2>4. CursorLive' /\ LeavesOne' /\ OnlyWorking' /\ OnlyFewer' /\ LeastLoaded'
    BY <2>1, <2>2 DEF IInv, CursorLive, LeavesOne, OnlyWorking, OnlyFewer, LeastLoaded
  <2>5. Placed' /\ Chosen'
    BY <2>1, <2>2 DEF IInv, Placed, Walking, Chosen
  <2> QED BY <2>2, <2>3, <2>4, <2>5 DEF IInv
<1> QED BY <1>1, <1>2, <1>3 DEF Next

\* The inductive invariant of the pool, at every step of its walks
\* (thread_pool.cpp:25-401).
THEOREM Invariant == Spec => []IInv
BY InitHolds, NextKeeps, PTL DEF Spec

\* The fields keep their types, and the number of threads stays one of size_t.
THEOREM TypeCorrect == Spec => []TypeOK
<1>1. IInv => TypeOK
  BY DEF IInv
<1> QED BY <1>1, Invariant, PTL

\* The list is what its three fields say, and has exactly the allocated nodes.
THEOREM ListIsSound == Spec => []ListWellFormed
<1>1. IInv => ListWellFormed
  BY WellFormed DEF IInv
<1> QED BY <1>1, Invariant, PTL

\* No walk ever holds a node that was freed under it.
THEOREM WalksAreSafe == Spec => []CursorLive
<1>1. IInv => CursorLive
  BY DEF IInv
<1> QED BY <1>1, Invariant, PTL

\* A task goes to a waiting thread or, when the walk found none, to one that is no
\* busier than any was when the call began.
THEOREM FewestFound == Spec => []LeastLoaded
<1>1. IInv => LeastLoaded
  BY DEF IInv
<1> QED BY <1>1, Invariant, PTL

-----------------------------------------------------------------------------
(* What a step may do.                                                     *)

Reducing == pc \in {"reduceWaiting", "reduceLast"}

\* The methods that change neither the list nor count, and do not dismiss.
LEMMA OtherSteps ==
  ASSUME ~Reducing,
         \/ GrowDone \/ GrowFails \/ EachDone
         \/ Submit \/ ByState \/ ByTasksBegin \/ ByTasksCompare \/ ByTasksRecord
         \/ SelectThread \/ Give
         \/ Suspend \/ SuspendEach \/ Resume \/ ResumeEach
  PROVE  UNCHANGED listVars /\ pc' # "grow" /\ ~Reducing'
<1>1. CASE GrowDone \/ GrowFails \/ EachDone \/ Give
  BY <1>1 DEF GrowDone, GrowFails, EachDone, Give, Returns, Reducing
<1>2. CASE Submit \/ ByState \/ ByTasksBegin \/ ByTasksCompare \/ ByTasksRecord
  BY <1>2 DEF Submit, ByState, ByTasksBegin, ByTasksCompare, ByTasksRecord, Walks,
              Reducing
<1>3. CASE SelectThread \/ Suspend \/ SuspendEach \/ Resume \/ ResumeEach
  BY <1>3 DEF SelectThread, Suspend, SuspendEach, Resume, ResumeEach, Walks, Reducing
<1> QED BY <1>1, <1>2, <1>3

\* How many threads a step hires or dismisses.
LEMMA SizeSteps ==
  ASSUME IInv, Next
  PROVE  \/ Linked' = Linked /\ count' = count /\ pc' = pc
         \/ ~Reducing /\ Linked' = Linked /\ pc' # "grow"
         \/ \E c \in Counts : Increase(c) /\ Linked' = Linked
         \/ /\ pc = "grow" /\ pc' = "grow" /\ count > 0
            /\ Linked' = Linked + 1 /\ count' = count - 1
         \/ /\ Reducing /\ pc' = pc /\ count > 0 /\ Linked > 1
            /\ Linked' = Linked - 1 /\ count' = count - 1
         \/ Reducing /\ Linked' = Linked /\ count' = count /\ pc' = "reduceLast"
         \/ Reducing /\ Linked' = Linked /\ live' = live /\ count = 0 /\ pc' = "idle"
         \/ pc = "idle" /\ pc' = "idle" /\ poolState' = "closed" /\ Linked' = 0
<1>1. CASE Workers
  BY <1>1 DEF Workers, WorkerTakes, WorkerSettles, listVars, Linked, CallerAt
<1>2. TypeOK /\ IsOne /\ size \in Nat /\ count \in Nat /\ Linked \in Nat
  BY PoolAssumption, LinkedFits DEF IInv, TypeOK
<1>3. ASSUME NEW c \in Counts, Increase(c) PROVE Increase(c) /\ Linked' = Linked
  <2>1. pc = "idle" /\ pc' = "grow" /\ size' = size
    BY <1>3 DEF Increase, CallerAt, listVars
  <2> QED BY <1>2, <1>3, <2>1, LinkedStays
<1>4. ASSUME NEW c \in Counts, Decrease(c)
      PROVE  ~Reducing /\ Linked' = Linked /\ pc' # "grow"
  <2>1. pc = "idle" /\ pc' = "reduceWaiting" /\ size' = size
    BY <1>4 DEF Decrease, CallerAt, Walks, listVars
  <2> QED BY <1>2, <2>1, LinkedStays DEF Reducing
<1>5. CASE Grow
  <2>1. /\ pc = "grow" /\ pc' = "grow" /\ count > 0
        /\ size' = size + 1 /\ count' = count - 1
    BY <1>5 DEF Grow, CallerAt
  <2>2. Linked = size + 0 /\ Linked' = size' + 0
    BY <2>1 DEF Linked, CallerAt
  <2> QED BY <1>2, <2>1, <2>2
<1>6. CASE ReduceWaiting
  <2>1. pc = "reduceWaiting" /\ count > 0 /\ pc' = pc /\ cursor # Null
    BY <1>6 DEF ReduceWaiting, CallerAt
  <2>2. count < Linked /\ cursor \in live
    BY <2>1 DEF IInv, LeavesOne, CursorLive
  <2>3. CASE state[cursor] = "waiting"
    <3>1. FreeNode(cursor) /\ count' = count - 1
      BY <1>6, <2>3 DEF ReduceWaiting
    <3>2. Linked > 1
      BY <1>2, <2>1, <2>2
    <3>3. Linked' = Linked - 1
      BY <1>2, <2>1, <2>2, <3>1, <3>2, Freed
    <3> QED BY <2>1, <3>1, <3>2, <3>3 DEF Reducing
  <2>4. CASE state[cursor] # "waiting"
    <3>1. size' = size /\ count' = count
      BY <1>6, <2>4 DEF ReduceWaiting, listVars
    <3> QED BY <1>2, <2>1, <3>1, LinkedStays
  <2> QED BY <2>3, <2>4
<1>7. CASE ReduceWaitingDone
  <2>1. pc = "reduceWaiting" /\ live' = live /\ Linked = size + 0
    BY <1>7 DEF ReduceWaitingDone, Linked, CallerAt
  <2>2. CASE count = 0
    <3>1. pc' = "idle" /\ size' = size
      BY <1>7, <2>2 DEF ReduceWaitingDone, Returns
    <3> QED BY <1>2, <2>1, <2>2, <3>1, LinkedStays DEF Reducing
  <2>3. CASE count # 0
    <3>1. pc' = "reduceLast" /\ count' = count /\ size' = size - count
      BY <1>7, <2>3 DEF ReduceWaitingDone, Walks
    <3>2. Linked' = (size - count) + count
      BY <3>1 DEF Linked, CallerAt
    <3> QED BY <1>2, <2>1, <3>1, <3>2 DEF Reducing
  <2> QED BY <2>2, <2>3
<1>8. CASE ReduceLast
  <2>1. /\ pc = "reduceLast" /\ pc' = pc /\ count > 0
        /\ size' = size /\ count' = count - 1
    BY <1>8 DEF ReduceLast, CallerAt
  <2>2. Linked = size + count /\ Linked' = size + (count - 1) /\ count < Linked
    BY <2>1 DEF IInv, LeavesOne, Linked, CallerAt
  <2> QED BY <1>2, <2>1, <2>2 DEF Reducing
<1>9. CASE ReduceLastDone
  <2>1. pc = "reduceLast" /\ count = 0 /\ pc' = "idle" /\ size' = size /\ live' = live
    BY <1>9 DEF ReduceLastDone, CallerAt, Returns, listVars
  <2> QED BY <1>2, <2>1, LinkedStays DEF Reducing
<1>10. CASE \/ GrowDone \/ GrowFails \/ EachDone
            \/ Submit \/ ByState \/ ByTasksBegin \/ ByTasksCompare \/ ByTasksRecord
            \/ SelectThread \/ Give
            \/ Suspend \/ SuspendEach \/ Resume \/ ResumeEach
  <2>1. ~Reducing
    BY <1>10 DEF GrowDone, GrowFails, EachDone, Submit, ByState, ByTasksBegin,
                 ByTasksCompare, ByTasksRecord, SelectThread, Give, Suspend, SuspendEach,
                 Resume, ResumeEach, CallerAt, Reducing
  <2>2. UNCHANGED listVars /\ pc' # "grow" /\ ~Reducing'
    BY <1>10, <2>1, OtherSteps
  <2>3. size' = size /\ pc # "reduceLast" /\ pc' # "reduceLast"
    BY <2>1, <2>2 DEF listVars, Reducing
  <2> QED BY <1>2, <2>1, <2>2, <2>3, LinkedStays
<1>11. CASE Close
  <2>1. pc = "idle" /\ pc' = "idle" /\ poolState' = "closed" /\ size' = 0
    BY <1>11 DEF Close, CallerAt
  <2> QED BY <2>1 DEF Linked, CallerAt
<1>12. Workers \/ Caller
  BY DEF Next
<1> QED BY <1>1, <1>3, <1>4, <1>5, <1>6, <1>7, <1>8, <1>9, <1>10, <1>11, <1>12 DEF Caller

\* The nodes on the list are the allocated ones, before a step and after it.
LEMMA LinkedCounts ==
  ASSUME IInv, Next
  PROVE  /\ Linked = Cardinality(live) /\ Linked' = Cardinality(live')
         /\ Linked \in Nat /\ Linked' \in Nat /\ count \in Nat
         /\ Linked = 0 <=> live = {}
         /\ Linked' = 0 <=> live' = {}
<1>1. IInv'
  BY NextKeeps
<1>2. /\ Linked \in 0..SizeMax /\ Linked = Cardinality(live)
      /\ Linked' \in 0..SizeMax /\ Linked' = Cardinality(live')
  BY <1>1, LinkedFits, NextLinkedFits DEF IInv
<1>3. IsFiniteSet(live) /\ IsFiniteSet(live')
  <2>1. live \subseteq Node /\ live' \subseteq Node
    BY <1>1 DEF IInv, TypeOK
  <2> QED BY <2>1, PoolAssumption, FS_Subset
<1>4. (Cardinality(live) = 0 <=> live = {}) /\ (Cardinality(live') = 0 <=> live' = {})
  BY <1>3, FS_EmptySet
<1> QED BY <1>2, <1>4, PoolAssumption DEF IInv, TypeOK

\* decrease_threads(c) dismisses exactly c threads in its two passes, the second of
\* which takes them off the size before the first of them goes
\* (thread_pool.cpp:118-153).
THEOREM DismissesExactly == Spec => DecreaseExact
<1>1. IInv /\ [Next]_vars =>
        [CallerAt("reduceWaiting") \/ CallerAt("reduceLast") =>
           /\ pc' # "idle" => Cardinality(live') + count = Cardinality(live) + count'
           /\ pc' = "idle" => count = 0 /\ live' = live]_vars
  <2> SUFFICES ASSUME IInv, Next, Reducing
               PROVE  /\ pc' # "idle" =>
                           Cardinality(live') + count = Cardinality(live) + count'
                      /\ pc' = "idle" => count = 0 /\ live' = live
    BY DEF CallerAt, Reducing
  <2>1. pc \in {"reduceWaiting", "reduceLast"}
    BY DEF Reducing
  <2>2. \A c \in Counts : ~Increase(c)
    BY <2>1 DEF Increase, CallerAt
  <2>3. /\ pc' # "idle" => Linked' + count = Linked + count'
        /\ pc' = "idle" => count = 0 /\ live' = live
    BY <2>1, <2>2, LinkedCounts, SizeSteps
  <2> QED BY <2>3, LinkedCounts
<1> QED BY <1>1, Invariant, PTL DEF Spec, DecreaseExact

\* A pool that has hired a thread keeps one until it is closed.
THEOREM KeepsOne == Spec => NeverEmptied
<1>1. IInv /\ [Next]_vars => [live # {} /\ poolState' # "closed" => live' # {}]_vars
  <2> SUFFICES ASSUME IInv, Next, live # {}, poolState' # "closed" PROVE live' # {}
    OBVIOUS
  <2>1. Linked # 0 /\ Linked \in Nat
    BY LinkedCounts
  <2>2. Linked' # 0
    BY <2>1, SizeSteps
  <2> QED BY <2>2, LinkedCounts
<1> QED BY <1>1, Invariant, PTL DEF Spec, NeverEmptied

\* No request is so large that size_t wraps around in the test of the hardware's
\* threads.
NoWrap == \A c \in Counts : c + HardwareThreads <= SizeMax + 1

Room ==
  /\ Linked < HardwareThreads
  /\ pc = "grow" => Linked + count < HardwareThreads

LEMMA NoWrapModulo ==
  ASSUME NEW a \in Nat, NEW m \in Nat, a < m
  PROVE  a % m = a
OBVIOUS

\* The pool never has as many threads as the hardware, however it is resized, as
\* long as no request wraps around (thread_pool.cpp:323-330).
THEOREM LeavesTheHardwareOne ==
  ASSUME NoWrap
  PROVE  Spec => []WithinHardware
<1>1. Init => Room
  <2> SUFFICES ASSUME Init PROVE Room
    OBVIOUS
  <2>1. PICK c \in InitialCounts : count = IF c < HardwareThreads THEN c ELSE 0
    BY DEF Init
  <2>2. c \in Nat /\ Linked = 0 /\ HardwareThreads \in Nat \ {0}
    BY PoolAssumption DEF Init, Linked, CallerAt
  <2> QED BY <2>1, <2>2 DEF Room
<1>2. IInv /\ Room /\ [Next]_vars => Room'
  <2> SUFFICES ASSUME IInv, Room, [Next]_vars PROVE Room'
    OBVIOUS
  <2>1. Linked \in Nat /\ count \in Nat /\ HardwareThreads \in Nat /\ SizeMax \in Nat
    BY PoolAssumption, LinkedFits DEF IInv, TypeOK
  <2>2. ASSUME NEW c \in Counts, Increase(c), Linked' = Linked
        PROVE  Room'
    <3>1. pc = "idle" /\ size = Linked
      BY <2>2, LinkedIs DEF Increase, CallerAt, IInv
    <3>2. /\ c \in Nat /\ c + HardwareThreads <= SizeMax + 1
          /\ (Linked + c) % (SizeMax + 1) <= HardwareThreads - 1 /\ count' = c
          /\ Linked < HardwareThreads
      BY <2>2, <3>1, PoolAssumption DEF NoWrap, Increase, Room
    <3>3. Linked + c \in Nat /\ SizeMax + 1 \in Nat /\ Linked + c < SizeMax + 1
      BY <2>1, <3>2
    <3>4. (Linked + c) % (SizeMax + 1) = Linked + c
      BY <3>3, NoWrapModulo
    <3>5. Linked + c < HardwareThreads
      BY <2>1, <3>2, <3>4
    <3> QED BY <2>2, <3>2, <3>5 DEF Room
  <2>3. CASE UNCHANGED vars
    BY <2>3 DEF Room, Linked, CallerAt, vars, listVars
  <2>4. CASE Next
    <3>1. HardwareThreads > 0 /\ (pc = "grow" => ~Reducing /\ pc # "idle")
      BY PoolAssumption DEF Reducing
    <3>2. /\ Reducing => pc # "grow"
          /\ pc = "idle" => pc # "grow"
      BY DEF Reducing
    <3> QED BY <2>1, <2>2, <2>4, <3>1, <3>2, SizeSteps DEF Room
  <2> QED BY <2>3, <2>4
<1>3. IInv /\ Room => WithinHardware
  BY LinkedFits DEF IInv, Room, WithinHardware
<1> QED BY <1>1, <1>2, <1>3, Invariant, PTL DEF Spec

\* A suspended pool rests: none of its threads starts to work.
THEOREM Rests == Spec => SuspendedPoolRests
<1>1. ASSUME IInv, Next, poolState = "waiting", poolState' = "waiting",
             NEW n \in live', state'[n] = "working"
      PROVE  n \in live /\ state[n] = "working"
  <2>1. /\ state \in [Node -> {"terminated", "waiting", "working"}] /\ live \subseteq Node
        /\ pc \notin {"byState", "byTasks", "byTasksRecord", "give", "giveFewest", "resume"}
    BY <1>1 DEF IInv, TypeOK, OnlyWorking
  <2>2. CASE UNCHANGED live /\ UNCHANGED state
    BY <1>1, <2>2
  <2>3. CASE Workers
    <3>1. PICK m \in live : WorkerTakes(m) \/ WorkerSettles(m)
      BY <2>3 DEF Workers
    <3>2. UNCHANGED live /\ (UNCHANGED state \/ state' = [state EXCEPT ![m] = "waiting"])
      BY <3>1 DEF WorkerTakes, WorkerSettles, listVars
    <3> QED BY <1>1, <2>1, <3>2
  <2>4. ASSUME NEW c \in Counts, Increase(c) \/ Decrease(c)
        PROVE  UNCHANGED live /\ UNCHANGED state
    BY <2>4 DEF Increase, Decrease, listVars, threadVars
  <2>5. CASE Grow
    <3>1. PICK m \in Node \ live, s \in {"waiting", "terminated"} :
            live' = live \cup {m} /\ state' = [state EXCEPT ![m] = s]
      BY <2>5 DEF Grow
    <3> QED BY <1>1, <2>1, <3>1
  <2>6. ASSUME NEW S, Destroys(S) PROVE n \in live /\ state[n] = "working"
    BY <1>1, <2>1, <2>6 DEF Destroys
  <2>7. CASE ReduceWaiting
    <3>1. FreeNode(cursor) \/ (UNCHANGED live /\ UNCHANGED state)
      BY <2>7 DEF ReduceWaiting, listVars, threadVars
    <3> QED BY <2>2, <2>6, <3>1 DEF FreeNode
  <2>8. CASE ReduceLast
    BY <2>6, <2>8 DEF ReduceLast
  <2>9. CASE \/ ReduceWaitingDone \/ ReduceLastDone \/ GrowDone \/ GrowFails \/ EachDone
             \/ Submit \/ Suspend
    <3>1. UNCHANGED live /\ UNCHANGED state
      BY <2>9 DEF ReduceWaitingDone, ReduceLastDone, GrowDone, GrowFails, EachDone,
                  Submit, Suspend, listVars, threadVars
    <3> QED BY <2>2, <3>1
  <2>10. CASE SuspendEach
    <3>1. /\ UNCHANGED live
          /\ \/ state' = [state EXCEPT ![cursor] = IF @ = "working" THEN "waiting" ELSE @]
             \/ UNCHANGED state
      BY <2>10 DEF SuspendEach, listVars
    <3> QED BY <1>1, <2>1, <3>1
  <2>11. /\ ~ByState /\ ~ByTasksBegin /\ ~ByTasksCompare /\ ~ByTasksRecord
         /\ ~SelectThread /\ ~Give /\ ~ResumeEach /\ ~Resume /\ ~Close
    BY <1>1, <2>1 DEF ByState, ByTasksBegin, ByTasksCompare, ByTasksRecord,
                      SelectThread, Give, ResumeEach, Resume, Close, CallerAt
  <2>12. Workers \/ Caller
    BY <1>1 DEF Next
  <2> QED BY <2>2, <2>3, <2>4, <2>5, <2>7, <2>8, <2>9, <2>10, <2>11, <2>12 DEF Caller
<1>2. IInv /\ [Next]_vars =>
        [poolState = "waiting" /\ poolState' = "waiting" =>
           \A n \in live' : state'[n] = "working" => n \in live /\ state[n] = "working"]_vars
  BY <1>1
<1> QED BY <1>2, Invariant, PTL DEF Spec, SuspendedPoolRests
=============================================================================
