--------------------------- MODULE Process_proofs ---------------------------
(***************************************************************************)
(* Proofs about Process, for any objects, names, numbers of processes and  *)
(* handles: types, who owns a handle and what it refers to, what an object *)
(* says of its process, and that no open handle is forgotten.              *)
(***************************************************************************)
EXTENDS Process, SequenceTheorems, WellFoundedInduction, TLAPS

Distinct(t) == \A j, k \in DOMAIN t : t[j].pid = t[k].pid => j = k

\* The system lets go of a process that has ended with its last handle.
AllHeld == \A k \in DOMAIN table : Held(table[k], refers)

\* This process runs.
SelfRuns ==
  \E k \in DOMAIN table :
    table[k].pid = Self /\ table[k].name = SelfName /\ table[k].alive

\* In t the number p is that of the first process with the name n.
Named(e, n) == e.name = n /\ e.alive
FirstIn(t, n, p) ==
  \E k \in DOMAIN t :
    /\ t[k].pid = p /\ Named(t[k], n)
    /\ \A j \in DOMAIN t : Named(t[j], n) => k <= j

\* What the lookups of open() find, unless the process has ended.
Looked ==
  pc \in {"opening", "asking"} /\ ~raced[caller] /\ id[caller] # 0 =>
    IF wanted = SelfName THEN id[caller] = Self ELSE FirstIn(table, wanted, id[caller])
FoundAgain == pc = "token" /\ ~raced[caller] => found = id[caller]

\* SaysTheTruth, with the process named.
TruthOf(o) ==
  handle[o] # Null /\ ~raced[o] =>
    \E k \in DOMAIN table :
      /\ table[k].pid = refers[handle[o]]
      /\ name[o] = table[k].name
      /\ elevated[o] /\ caller # o => table[k].elevated
Truth == \A o \in Objects : TruthOf(o)

IInv ==
  /\ TypeOK
  /\ AllHeld /\ SelfRuns
  /\ OneOwner /\ IdOfHandle
  /\ Looked /\ FoundAgain /\ Truth

-----------------------------------------------------------------------------
(* Tables.                                                                 *)

LEMMA LeastNumber ==
  ASSUME NEW S \in SUBSET Nat, S # {}
  PROVE  \E x \in S : \A y \in S : x <= y
<1>1. PICK x \in S : \A y \in S : ~(<<y, x>> \in OpToRel(<, Nat))
  BY NatLessThanWellFounded, WFMin
<1>2. ASSUME NEW y \in S PROVE x <= y
  <2>1. <<y, x>> \in Nat \X Nat
    OBVIOUS
  <2>2. ~(y < x)
    BY <1>1, <2>1 DEF OpToRel
  <2> QED BY <2>2
<1> QED BY <1>2

LEMMA MinOfOne == ASSUME NEW i \in Nat PROVE Min({i}) = i
BY DEF Min

\* Without its entry i.
LEMMA Removed ==
  ASSUME NEW S, NEW t \in Seq(S), NEW i \in DOMAIN t
  PROVE  /\ RemoveAt(t, i) \in Seq(S) /\ Len(RemoveAt(t, i)) = Len(t) - 1
         /\ \A j \in 1..(Len(t) - 1) :
              RemoveAt(t, i)[j] = IF j < i THEN t[j] ELSE t[j + 1]
<1> DEFINE l == SubSeq(t, 1, i - 1)
           r == SubSeq(t, i + 1, Len(t))
<1>1. /\ l \in Seq(S) /\ Len(l) = i - 1
      /\ r \in Seq(S) /\ Len(r) = Len(t) - i
      /\ i \in Nat /\ Len(t) \in Nat /\ 1 <= i /\ i <= Len(t)
  OBVIOUS
<1>2. /\ \A j \in 1..(i - 1) : l[j] = t[j]
      /\ \A j \in 1..(Len(t) - i) : r[j] = t[j + i]
  OBVIOUS
<1>3. RemoveAt(t, i) = l \o r
  BY DEF RemoveAt
<1> HIDE DEF l, r
<1>4. /\ l \o r \in Seq(S) /\ Len(l \o r) = Len(l) + Len(r)
      /\ \A j \in 1..(Len(l) + Len(r)) :
           (l \o r)[j] = IF j <= Len(l) THEN l[j] ELSE r[j - Len(l)]
  BY <1>1, ConcatProperties
<1>5. ASSUME NEW j \in 1..(Len(t) - 1)
      PROVE  (l \o r)[j] = IF j < i THEN t[j] ELSE t[j + 1]
  <2>1. CASE j < i
    <3>1. j \in 1..(Len(l) + Len(r)) /\ j <= Len(l) /\ j \in 1..(i - 1)
      BY <1>1, <2>1
    <3>2. (l \o r)[j] = l[j]
      BY <1>4, <3>1
    <3> QED BY <1>2, <2>1, <3>1, <3>2
  <2>2. CASE ~(j < i)
    <3>1. (l \o r)[j] = r[j - Len(l)]
      <4>1. j \in 1..(Len(l) + Len(r)) /\ ~(j <= Len(l))
        BY <1>1, <2>2
      <4> QED BY <1>4, <4>1
    <3>2. j - Len(l) \in 1..(Len(t) - i) /\ (j - Len(l)) + i = j + 1
      BY <1>1, <2>2
    <3> QED BY <1>2, <2>2, <3>1, <3>2
  <2> QED BY <2>1, <2>2
<1>6. Len(l) + Len(r) = Len(t) - 1
  BY <1>1
<1> QED BY <1>3, <1>4, <1>5, <1>6

\* No more than one entry goes.
LEMMA KnownIs ==
  ASSUME NEW t \in Seq(Entry), NEW r, NEW i \in DOMAIN t,
         \A k \in DOMAIN t \ {i} : Held(t[k], r)
  PROVE  Known(t, r) = IF Held(t[i], r) THEN t ELSE RemoveAt(t, i)
<1>1. DOMAIN t = 1..Len(t) /\ i \in Nat
  OBVIOUS
<1>2. CASE Held(t[i], r)
  BY <1>1, <1>2 DEF Known, RemoveFirstMatch
<1>3. CASE ~Held(t[i], r)
  <2>1. {k \in 1..Len(t) : ~Held(t[k], r)} = {i}
    BY <1>1, <1>3
  <2>2. SelectInSeq(t, LAMBDA p : ~Held(p, r)) = i
    BY <1>1, <2>1, MinOfOne DEF SelectInSeq
  <2>3. Known(t, r) = RemoveAt(t, SelectInSeq(t, LAMBDA p : ~Held(p, r)))
    BY <1>1, <1>3 DEF Known, RemoveFirstMatch
  <2> QED BY <1>3, <2>2, <2>3
<1> QED BY <1>2, <1>3

\* The table u is the table t without some entries of processes that have ended.
Shrinks(t, u, r) ==
  /\ u \in Seq(Entry) /\ Distinct(u)
  /\ \A j \in DOMAIN u : Held(u[j], r) /\ \E k \in DOMAIN t : u[j] = t[k]
  /\ \A k \in DOMAIN t : Held(t[k], r) => \E j \in DOMAIN u : u[j] = t[k]
  /\ \A n, p : FirstIn(t, n, p) => FirstIn(u, n, p)

LEMMA KnownFacts ==
  ASSUME NEW t \in Seq(Entry), Distinct(t), NEW r, NEW i \in DOMAIN t,
         \A k \in DOMAIN t \ {i} : Held(t[k], r)
  PROVE  Shrinks(t, Known(t, r), r)
<1>1. CASE Held(t[i], r)
  <2>1. Known(t, r) = t
    BY <1>1, KnownIs
  <2> QED BY <1>1, <2>1 DEF Shrinks
<1>2. CASE ~Held(t[i], r)
  <2> DEFINE u == RemoveAt(t, i)
  <2>1. Known(t, r) = u
    BY <1>2, KnownIs
  <2>2. /\ u \in Seq(Entry) /\ Len(u) = Len(t) - 1
        /\ DOMAIN u = 1..Len(u) /\ DOMAIN t = 1..Len(t) /\ Len(t) \in Nat
        /\ \A j \in 1..(Len(t) - 1) : u[j] = IF j < i THEN t[j] ELSE t[j + 1]
    BY Removed
  <2> HIDE DEF u
  <2> DEFINE m == [j \in DOMAIN u |-> IF j < i THEN j ELSE j + 1]
  <2>3. \A j \in DOMAIN u : u[j] = t[m[j]] /\ m[j] \in DOMAIN t \ {i}
    BY <2>2
  <2>4. \A j, k \in DOMAIN u : m[j] = m[k] => j = k
    BY <2>2
  <2>5. \A k \in DOMAIN t \ {i} : \E j \in DOMAIN u : m[j] = k
    <3> SUFFICES ASSUME NEW k \in DOMAIN t \ {i} PROVE \E j \in DOMAIN u : m[j] = k
      OBVIOUS
    <3>1. CASE k < i
      <4>1. k \in DOMAIN u /\ m[k] = k
        BY <2>2, <3>1
      <4> QED BY <4>1
    <3>2. CASE k > i
      <4>1. k - 1 \in DOMAIN u /\ m[k - 1] = k
        BY <2>2, <3>2
      <4> QED BY <4>1
    <3> QED BY <2>2, <3>1, <3>2
  <2>6. \A j, k \in DOMAIN u : m[j] <= m[k] => j <= k
    BY <2>2
  <2> HIDE DEF m
  <2>7. Distinct(u)
    BY <2>3, <2>4 DEF Distinct
  <2>8. \A j \in DOMAIN u : Held(u[j], r) /\ \E k \in DOMAIN t : u[j] = t[k]
    BY <2>3
  <2>9. \A k \in DOMAIN t : Held(t[k], r) => \E j \in DOMAIN u : u[j] = t[k]
    BY <1>2, <2>3, <2>5
  <2>10. ASSUME NEW n, NEW p, FirstIn(t, n, p) PROVE FirstIn(u, n, p)
    <3>1. PICK k \in DOMAIN t :
            /\ t[k].pid = p /\ Named(t[k], n)
            /\ \A j \in DOMAIN t : Named(t[j], n) => k <= j
      BY <2>10 DEF FirstIn
    <3>2. k # i
      BY <1>2, <3>1 DEF Named, Held
    <3>3. PICK j \in DOMAIN u : m[j] = k
      BY <2>5, <3>2
    <3>4. u[j].pid = p /\ Named(u[j], n)
      BY <2>3, <3>1, <3>3
    <3>5. \A l \in DOMAIN u : Named(u[l], n) => j <= l
      BY <2>3, <2>6, <3>1, <3>3
    <3> QED BY <3>4, <3>5 DEF FirstIn
  <2> QED BY <2>1, <2>2, <2>7, <2>8, <2>9, <2>10 DEF Shrinks
<1> QED BY <1>1, <1>2

LEMMA OfPidIs ==
  ASSUME Distinct(table), NEW k \in DOMAIN table
  PROVE  OfPid(table[k].pid) = table[k]
<1> DEFINE c == CHOOSE j \in DOMAIN table : table[j].pid = table[k].pid
<1>1. c \in DOMAIN table /\ table[c].pid = table[k].pid
  OBVIOUS
<1>2. c = k
  BY <1>1 DEF Distinct
<1>3. OfPid(table[k].pid) = table[c]
  BY DEF OfPid
<1> HIDE DEF c
<1> QED BY <1>2, <1>3

\* A lookup finds the first process that runs under the name.
LEMMA LookupFinds ==
  ASSUME table \in Seq(Entry), NEW n, n # SelfName
  PROVE  /\ Lookup(n) = 0 \/ FirstIn(table, n, Lookup(n))
         /\ Lookup(n) \in Pids \cup {0}
         /\ \A p : FirstIn(table, n, p) => Lookup(n) = p
<1> DEFINE I == {k \in 1..Len(table) : Named(table[k], n)}
           m == SelectInSeq(table, LAMBDA p : p.name = n /\ p.alive)
<1>1. I = {k \in 1..Len(table) : table[k].name = n /\ table[k].alive}
  BY DEF Named
<1>2. m = IF I # {} THEN Min(I) ELSE 0
  BY <1>1 DEF SelectInSeq
<1>3. Lookup(n) = IF m = 0 THEN 0 ELSE table[m].pid
  BY DEF Lookup
<1>4. I \in SUBSET Nat /\ DOMAIN table = 1..Len(table)
  <2>1. DOMAIN table = 1..Len(table) /\ Len(table) \in Nat
    BY LenProperties
  <2>2. I \subseteq 1..Len(table)
    OBVIOUS
  <2> HIDE DEF I
  <2> QED BY <2>1, <2>2
<1> HIDE DEF m
<1>5. CASE I = {}
  <2>1. Lookup(n) = 0
    BY <1>2, <1>3, <1>5
  <2>2. \A p : ~FirstIn(table, n, p)
    BY <1>4, <1>5 DEF FirstIn
  <2> QED BY <2>1, <2>2
<1>6. CASE I # {}
  <2>1. \E x \in I : \A y \in I : x <= y
    <3> HIDE DEF I
    <3> QED BY <1>4, <1>6, LeastNumber
  <2>2. m \in I /\ \A y \in I : m <= y
    <3> HIDE DEF I
    <3> QED BY <1>2, <1>6, <2>1 DEF Min
  <2>3. m \in DOMAIN table /\ m # 0 /\ Named(table[m], n)
        /\ \A j \in DOMAIN table : Named(table[j], n) => m <= j
    BY <1>4, <2>2
  <2>4. Lookup(n) = table[m].pid
    BY <1>3, <2>3
  <2>5. FirstIn(table, n, Lookup(n))
    BY <2>3, <2>4 DEF FirstIn
  <2>6. ASSUME NEW p, FirstIn(table, n, p) PROVE Lookup(n) = p
    <3>1. PICK k \in DOMAIN table :
            /\ table[k].pid = p /\ Named(table[k], n)
            /\ \A j \in DOMAIN table : Named(table[j], n) => k <= j
      BY <2>6 DEF FirstIn
    <3>2. k <= m /\ m <= k
      BY <2>3, <3>1
    <3>3. k = m
      BY <1>4, <2>3, <3>2
    <3> QED BY <2>4, <3>1, <3>3
  <2>7. Lookup(n) \in Pids
    <3>1. table[m] \in Entry
      BY <2>3
    <3> QED BY <2>4, <3>1 DEF Entry
  <2> QED BY <2>5, <2>6, <2>7
<1> QED BY <1>5, <1>6

-----------------------------------------------------------------------------
(* Steps of the system.                                                    *)

Same(d, e) == d.pid = e.pid /\ d.name = e.name /\ d.elevated = e.elevated

\* After a step the table is in order, and has what a handle refers to.
SystemKeeps ==
  /\ table' \in Seq(Entry) /\ Distinct(table)' /\ AllHeld' /\ SelfRuns'
  /\ \A k \in DOMAIN table :
       (\E h \in Handles : refers'[h] = table[k].pid) =>
         \E j \in DOMAIN table' : Same(table'[j], table[k])

LEMMA StartsKeeps ==
  ASSUME TypeOK, AllHeld, SelfRuns,
         NEW n \in Names, NEW p \in Pids, NEW e \in BOOLEAN, Starts(n, p, e),
         \A h \in Handles : refers[h] # 0 => refers'[h] = refers[h]
  PROVE  /\ SystemKeeps
         /\ \E j \in DOMAIN table' : table'[j] = Running(n, p, e)
         /\ \A m, q : FirstIn(table, m, q) => FirstIn(table', m, q)
<1> DEFINE new == Running(n, p, e)
<1>1. new \in Entry /\ new.pid = p /\ new.alive
  BY DEF Running, Entry
<1>2. table \in Seq(Entry) /\ Distinct(table) /\ table' = Append(table, new)
  BY DEF TypeOK, Distinct, Starts
<1>3. \A k \in DOMAIN table : table[k].pid # p
  BY DEF Starts, InTable
<1> HIDE DEF new
<1>4. /\ table' \in Seq(Entry) /\ DOMAIN table = 1..Len(table)
      /\ DOMAIN table' = 1..(Len(table) + 1) /\ Len(table) \in Nat
      /\ \A k \in 1..Len(table) : table'[k] = table[k]
      /\ table'[Len(table) + 1] = new
  BY <1>1, <1>2, AppendProperties
<1>5. /\ DOMAIN table \subseteq DOMAIN table'
      /\ \A k \in DOMAIN table : table'[k] = table[k]
      /\ \A k \in DOMAIN table' : k \in DOMAIN table \/ table'[k] = new
  BY <1>4
<1>6. Distinct(table)'
  <2>1. \A j, k \in DOMAIN table' :
          \/ j \in DOMAIN table /\ k \in DOMAIN table
          \/ j \in DOMAIN table /\ k = Len(table) + 1
          \/ j = Len(table) + 1 /\ k \in DOMAIN table
          \/ j = Len(table) + 1 /\ k = Len(table) + 1
    BY <1>4
  <2> QED BY <1>1, <1>2, <1>3, <1>4, <1>5, <2>1 DEF Distinct
<1>7. AllHeld'
  <2> SUFFICES ASSUME NEW k \in DOMAIN table' PROVE Held(table'[k], refers')
    BY DEF AllHeld
  <2>1. CASE table'[k] = new
    BY <1>1, <2>1 DEF Held
  <2>2. CASE k \in DOMAIN table
    <3>1. table[k] \in Entry /\ table'[k] = table[k] /\ Held(table[k], refers)
      BY <1>2, <1>5, <2>2 DEF AllHeld
    <3>2. table[k].pid # 0
      BY <3>1, ProcessAssumption DEF Entry
    <3> QED BY <3>1, <3>2 DEF Held
  <2> QED BY <1>5, <2>1, <2>2
<1>8. SelfRuns'
  BY <1>5 DEF SelfRuns
<1>9. \A k \in DOMAIN table : \E j \in DOMAIN table' : Same(table'[j], table[k])
  BY <1>5 DEF Same
<1>10. \E j \in DOMAIN table' : table'[j] = new
  BY <1>4
<1>11. ASSUME NEW m, NEW q, FirstIn(table, m, q) PROVE FirstIn(table', m, q)
  <2>1. PICK k \in DOMAIN table :
          /\ table[k].pid = q /\ Named(table[k], m)
          /\ \A j \in DOMAIN table : Named(table[j], m) => k <= j
    BY <1>11 DEF FirstIn
  <2>2. k \in DOMAIN table' /\ table'[k] = table[k]
    BY <1>5, <2>1
  <2>3. ASSUME NEW j \in DOMAIN table', Named(table'[j], m) PROVE k <= j
    <3>1. CASE j \in DOMAIN table
      BY <1>5, <2>1, <2>3, <3>1
    <3>2. CASE j \notin DOMAIN table
      <4>1. k \in 1..Len(table) /\ j \in 1..(Len(table) + 1) /\ j \notin 1..Len(table)
        BY <1>4, <3>2
      <4> QED BY <1>4, <4>1
    <3> QED BY <3>1, <3>2
  <2> QED BY <2>1, <2>2, <2>3 DEF FirstIn
<1> QED BY <1>4, <1>6, <1>7, <1>8, <1>9, <1>10, <1>11 DEF SystemKeeps, new

LEMMA TableTypes ==
  TypeOK => /\ table \in Seq(Entry) /\ Distinct(table)
            /\ \A k \in DOMAIN table : table[k] \in Entry /\ table[k].pid \in Pids \ {0}
<1> SUFFICES ASSUME TypeOK
             PROVE  /\ table \in Seq(Entry) /\ Distinct(table)
                    /\ \A k \in DOMAIN table :
                         table[k] \in Entry /\ table[k].pid \in Pids \ {0}
  OBVIOUS
<1>1. table \in Seq(Entry) /\ Distinct(table)
  BY DEF TypeOK, Distinct
<1>2. \A k \in DOMAIN table : table[k] \in Entry
  BY <1>1
<1> QED BY <1>1, <1>2, ProcessAssumption DEF Entry

\* The entry i may have ended, or lost its last handle.
LEMMA RemovesKeeps ==
  ASSUME TypeOK, SelfRuns,
         NEW t \in Seq(Entry), DOMAIN t = DOMAIN table,
         NEW i \in DOMAIN table,
         \A k \in DOMAIN table \ {i} : t[k] = table[k] /\ Held(table[k], refers'),
         Same(t[i], table[i]), table[i].pid = Self => t[i] = table[i],
         table' = Known(t, refers')
  PROVE  SystemKeeps /\ \A n, q : FirstIn(t, n, q) => FirstIn(table', n, q)
<1>1. \A k \in DOMAIN table : Same(t[k], table[k])
  BY DEF Same
<1>2. Distinct(t)
  BY <1>1 DEF TypeOK, Distinct, Same
<1>3. Shrinks(t, table', refers')
  BY <1>2, KnownFacts
<1>4. table' \in Seq(Entry) /\ Distinct(table)' /\ AllHeld'
  BY <1>3 DEF Shrinks, AllHeld, Distinct
<1>5. SelfRuns'
  <2>1. PICK k \in DOMAIN table :
          table[k].pid = Self /\ table[k].name = SelfName /\ table[k].alive
    BY DEF SelfRuns
  <2>2. t[k] = table[k]
    BY <2>1
  <2>3. Held(t[k], refers')
    BY <2>1, <2>2 DEF Held
  <2>4. PICK j \in DOMAIN table' : table'[j] = t[k]
    BY <1>3, <2>3 DEF Shrinks
  <2> QED BY <2>1, <2>2, <2>4 DEF SelfRuns
<1>6. ASSUME NEW k \in DOMAIN table, NEW h \in Handles, refers'[h] = table[k].pid
      PROVE  \E j \in DOMAIN table' : Same(table'[j], table[k])
  <2>1. Held(t[k], refers')
    BY <1>1, <1>6 DEF Held, Same
  <2>2. PICK j \in DOMAIN table' : table'[j] = t[k]
    BY <1>3, <2>1 DEF Shrinks
  <2> QED BY <1>1, <2>2
<1>7. \A n, q : FirstIn(t, n, q) => FirstIn(table', n, q)
  BY <1>3 DEF Shrinks
<1> QED BY <1>4, <1>5, <1>6, <1>7 DEF SystemKeeps

LEMMA EndsKeeps ==
  ASSUME TypeOK, AllHeld, SelfRuns, NEW p \in Pids, InTable(p), Ends(p, refers'),
         \A h \in Handles : refers[h] # 0 /\ refers[h] # p => refers'[h] = refers[h]
  PROVE  /\ SystemKeeps
         /\ \A n, q : q # p /\ FirstIn(table, n, q) => FirstIn(table', n, q)
<1> DEFINE t == [k \in DOMAIN table |->
                   IF table[k].pid = p THEN [table[k] EXCEPT !.alive = FALSE]
                   ELSE table[k]]
<1>1. table \in Seq(Entry) /\ Distinct(table) /\ \A k \in DOMAIN table : table[k] \in Entry
  BY TableTypes
<1>2. t \in Seq(Entry) /\ DOMAIN t = DOMAIN table
  <2>1. DOMAIN table = 1..Len(table) /\ Len(table) \in Nat
    BY <1>1, LenProperties
  <2>2. \A k \in DOMAIN table : t[k] \in Entry
    BY <1>1 DEF Entry
  <2>3. t \in [1..Len(table) -> Entry]
    BY <2>1, <2>2
  <2> HIDE DEF t
  <2>4. t \in Seq(Entry)
    BY <2>1, <2>3, IsASeq
  <2> QED BY <2>1, <2>3, <2>4
<1>3. p # Self /\ table' = Known(t, refers')
  BY DEF Ends
<1>4. \A k \in DOMAIN table : table[k].pid # p => t[k] = table[k]
  OBVIOUS
<1>5. \A k \in DOMAIN table : Same(t[k], table[k]) /\ (t[k].alive => t[k] = table[k])
  BY <1>1 DEF Same, Entry
<1> HIDE DEF t
<1>6. PICK i \in DOMAIN table : table[i].pid = p
  BY DEF InTable
<1>7. ASSUME NEW k \in DOMAIN table \ {i}
      PROVE  t[k] = table[k] /\ Held(table[k], refers')
  <2>1. table[k].pid # p /\ table[k].pid # 0
    BY <1>1, <1>6, ProcessAssumption DEF Distinct, Entry
  <2>2. Held(table[k], refers)
    BY DEF AllHeld
  <2> QED BY <1>4, <2>1, <2>2 DEF Held
<1>8. SystemKeeps /\ \A n, q : FirstIn(t, n, q) => FirstIn(table', n, q)
  BY <1>2, <1>3, <1>5, <1>6, <1>7, RemovesKeeps
<1>9. ASSUME NEW n, NEW q, q # p, FirstIn(table, n, q) PROVE FirstIn(t, n, q)
  <2>1. PICK k \in DOMAIN table :
          /\ table[k].pid = q /\ Named(table[k], n)
          /\ \A j \in DOMAIN table : Named(table[j], n) => k <= j
    BY <1>9 DEF FirstIn
  <2>2. t[k] = table[k]
    BY <1>4, <1>9, <2>1
  <2>3. \A j \in DOMAIN t : Named(t[j], n) => Named(table[j], n)
    BY <1>2, <1>5 DEF Named
  <2> QED BY <1>2, <2>1, <2>2, <2>3 DEF FirstIn
<1> QED BY <1>8, <1>9

LEMMA ClosesKeeps ==
  ASSUME TypeOK, AllHeld, SelfRuns, NEW h \in Handles, refers[h] # 0,
         Closes(h), table' = Known(table, refers')
  PROVE  SystemKeeps
<1>1. table \in Seq(Entry)
  BY TableTypes
<1>2. PICK i \in DOMAIN table : table[i].pid = refers[h]
  BY DEF TypeOK, InTable, Free
<1>3. \A g \in Handles : refers'[g] = IF g = h THEN 0 ELSE refers[g]
  BY DEF Closes, TypeOK
<1>4. ASSUME NEW k \in DOMAIN table \ {i} PROVE Held(table[k], refers')
  <2>1. table[k].pid # refers[h]
    BY <1>2 DEF TypeOK
  <2>2. Held(table[k], refers)
    BY DEF AllHeld
  <2> QED BY <1>3, <2>1, <2>2 DEF Held
<1> QED BY <1>1, <1>2, <1>4, RemovesKeeps DEF Same

LEMMA OpensKeeps ==
  ASSUME TypeOK, AllHeld, SelfRuns, UNCHANGED table,
         \A h \in Handles : refers[h] # 0 => refers'[h] = refers[h]
  PROVE  SystemKeeps
<1>1. table' \in Seq(Entry) /\ Distinct(table)'
  BY TableTypes DEF Distinct
<1>2. AllHeld'
  BY TableTypes DEF AllHeld, Held
<1> QED BY <1>1, <1>2 DEF SystemKeeps, SelfRuns, Same

-----------------------------------------------------------------------------
(* Objects.                                                                *)

\* An object that keeps its handle goes on to say the truth.
LEMMA TruthKeeps ==
  ASSUME TypeOK, SystemKeeps, NEW o \in Objects, TruthOf(o),
         handle'[o] = handle[o] /\ name'[o] = name[o],
         elevated'[o] = elevated[o],
         raced[o] => raced'[o],
         handle[o] # Null => refers'[handle[o]] = refers[handle[o]],
         caller = o => caller' = o
  PROVE  TruthOf(o)'
<1> SUFFICES ASSUME handle'[o] # Null, ~raced'[o]
             PROVE  \E k \in DOMAIN table' :
                      /\ table'[k].pid = refers'[handle'[o]]
                      /\ name'[o] = table'[k].name
                      /\ elevated'[o] /\ caller' # o => table'[k].elevated
  BY DEF TruthOf
<1>1. PICK k \in DOMAIN table :
        /\ table[k].pid = refers[handle[o]]
        /\ name[o] = table[k].name
        /\ elevated[o] /\ caller # o => table[k].elevated
  BY DEF TruthOf
<1>2. handle[o] \in Handles /\ refers'[handle[o]] = table[k].pid
  BY <1>1 DEF TypeOK
<1>3. PICK j \in DOMAIN table' : Same(table'[j], table[k])
  BY <1>2 DEF SystemKeeps
<1>4. table'[j].pid = refers'[handle'[o]] /\ name'[o] = table'[j].name
  BY <1>1, <1>2, <1>3 DEF Same
<1>5. elevated'[o] /\ caller' # o => table'[j].elevated
  BY <1>1, <1>3 DEF Same
<1> QED BY <1>4, <1>5

\* What a handle refers to stays in the table.
LEMMA TargetStays ==
  ASSUME TypeOK, SystemKeeps, NEW h \in Handles, refers[h] # 0, refers'[h] = refers[h]
  PROVE  InTable(refers[h])'
<1>1. PICK k \in DOMAIN table : table[k].pid = refers[h]
  BY DEF TypeOK, InTable, Free
<1>2. PICK j \in DOMAIN table' : Same(table'[j], table[k])
  BY <1>1 DEF SystemKeeps
<1> QED BY <1>1, <1>2 DEF InTable, Same

\* A call sets an object that does not get the handle of another one.
LEMMA SetsKeeps ==
  ASSUME IInv, SystemKeeps, Idle, UNCHANGED call, NEW o \in Objects,
         NEW h \in Handles \cup {Null}, NEW p \in Pids \cup {0}, NEW e \in BOOLEAN,
         NEW n \in Names \cup {""}, Sets(o, h, p, e, n),
         refers' \in [Handles -> Pids \cup {0}],
         \A g \in Handles : refers[g] # 0 /\ g # handle[o] => refers'[g] = refers[g],
         \A g \in Handles : refers[g] = 0 /\ g # h => refers'[g] = 0,
         handle[o] \in Handles /\ handle[o] # h => refers'[handle[o]] = 0,
         h # Null =>
           /\ refers[h] = 0 /\ refers'[h] = p /\ p # 0
           /\ \E k \in DOMAIN table' :
                /\ table'[k].pid = p /\ table'[k].name = n
                /\ e => table'[k].elevated
  PROVE  IInv'
<1> USE DEF Null
<1>1. /\ handle \in [Objects -> Handles \cup {Null}] /\ id \in [Objects -> Pids \cup {0}]
      /\ elevated \in [Objects -> BOOLEAN] /\ name \in [Objects -> Names \cup {""}]
      /\ raced \in [Objects -> BOOLEAN]
      /\ pc = "idle" /\ caller = Nobody
  BY DEF IInv, TypeOK, Idle
<1>2. /\ pc' = "idle" /\ caller' = Nobody /\ wanted' = wanted /\ found' = found
      /\ handle' = [handle EXCEPT ![o] = h] /\ id' = [id EXCEPT ![o] = p]
      /\ elevated' = [elevated EXCEPT ![o] = e] /\ name' = [name EXCEPT ![o] = n]
      /\ raced' = [raced EXCEPT ![o] = FALSE]
  BY <1>1 DEF Sets, call
<1>3. /\ handle'[o] = h /\ id'[o] = p /\ elevated'[o] = e /\ name'[o] = n
      /\ raced'[o] = FALSE
      /\ \A q \in Objects \ {o} :
           /\ handle'[q] = handle[q] /\ id'[q] = id[q] /\ name'[q] = name[q]
           /\ elevated'[q] = elevated[q] /\ raced'[q] = raced[q]
  BY <1>1, <1>2
<1>4. \A q \in Objects \ {o} :
        handle[q] # Null =>
          /\ handle[q] \in Handles /\ refers[handle[q]] # 0
          /\ handle[q] # handle[o] /\ handle[q] # h
          /\ refers'[handle[q]] = refers[handle[q]]
  BY <1>1 DEF IInv, OneOwner, Free
<1>5. TypeOK'
  <2>1. /\ handle' \in [Objects -> Handles \cup {Null}]
        /\ id' \in [Objects -> Pids \cup {0}]
        /\ elevated' \in [Objects -> BOOLEAN] /\ name' \in [Objects -> Names \cup {""}]
        /\ raced' \in [Objects -> BOOLEAN]
    BY <1>1, <1>2
  <2>2. /\ table' \in Seq(Entry)
        /\ \A j, k \in DOMAIN table' : table'[j].pid = table'[k].pid => j = k
    BY DEF SystemKeeps, Distinct
  <2>3. ASSUME NEW g \in Handles, refers'[g] # 0 PROVE InTable(refers[g])'
    <3>1. CASE g = h
      <4>1. h # Null
        BY <3>1, ProcessAssumption
      <4>2. refers'[g] = p /\ \E k \in DOMAIN table' : table'[k].pid = p
        BY <3>1, <4>1
      <4> QED BY <4>2 DEF InTable
    <3>2. CASE g # h
      <4>1. refers[g] # 0 /\ refers'[g] = refers[g]
        BY <1>1, <2>3, <3>2, ProcessAssumption
      <4>2. TypeOK
        BY DEF IInv
      <4> QED BY <4>1, <4>2, TargetStays
    <3> QED BY <3>1, <3>2
  <2>4. wanted' \in Names /\ found' \in Pids \cup {0}
    BY <1>2 DEF IInv, TypeOK
  <2> QED BY <1>2, <2>1, <2>2, <2>3, <2>4 DEF TypeOK, Idle, Free
<1>6. AllHeld' /\ SelfRuns'
  BY DEF SystemKeeps
<1>7. OneOwner' /\ IdOfHandle'
  <2>1. ASSUME NEW q \in Objects, handle'[q] # Null
        PROVE  /\ refers'[handle'[q]] # 0 /\ id'[q] = refers'[handle'[q]]
               /\ \A s \in Objects \ {q} : handle'[s] # handle'[q]
    <3>1. CASE q = o
      <4>1. refers'[handle'[q]] # 0 /\ id'[q] = refers'[handle'[q]]
        BY <1>3, <2>1, <3>1
      <4>2. ASSUME NEW s \in Objects \ {q} PROVE handle'[s] # handle'[q]
        <5>1. handle'[s] = handle[s] /\ handle'[q] = h /\ h # Null
          BY <1>3, <2>1, <3>1
        <5>2. handle[s] # Null => handle[s] # h
          BY <1>4, <3>1
        <5> QED BY <5>1, <5>2
      <4> QED BY <4>1, <4>2
    <3>2. CASE q # o
      <4>1. handle[q] # Null /\ handle'[q] = handle[q] /\ id'[q] = id[q]
        BY <1>3, <2>1, <3>2
      <4>2. refers'[handle'[q]] # 0 /\ id'[q] = refers'[handle'[q]]
        BY <1>4, <3>2, <4>1 DEF IInv, IdOfHandle
      <4>3. \A s \in Objects \ {q} : handle[s] # handle[q]
        BY <4>1 DEF IInv, OneOwner
      <4>4. \A s \in Objects \ {q} : handle'[s] # handle'[q]
        BY <1>3, <1>4, <3>2, <4>1, <4>3
      <4> QED BY <4>2, <4>4
    <3> QED BY <3>1, <3>2
  <2> QED BY <2>1 DEF OneOwner, IdOfHandle, Free
<1>8. Looked' /\ FoundAgain'
  BY <1>2 DEF Looked, FoundAgain
<1>9. Truth'
  <2> SUFFICES ASSUME NEW q \in Objects PROVE TruthOf(q)'
    BY DEF Truth
  <2>1. CASE q = o
    BY <1>3, <2>1 DEF TruthOf
  <2>2. CASE q # o
    <3>1. TypeOK /\ TruthOf(q)
      BY DEF IInv, Truth
    <3>2. caller' = caller
      BY <1>1, <1>2
    <3> QED BY <1>3, <1>4, <2>2, <3>1, <3>2, TruthKeeps
  <2> QED BY <2>1, <2>2
<1> QED BY <1>5, <1>6, <1>7, <1>8, <1>9 DEF IInv

LEMMA CreateKeeps ==
  ASSUME IInv, NEW o \in Objects, NEW n \in Names, Create(o, n)
  PROVE  IInv'
<1>1. PICK p \in Pids, h \in Handles :
        /\ Free(h) /\ Starts(n, p, SelfElevated)
        /\ refers' = [refers EXCEPT ![h] = p]
        /\ Sets(o, h, p, FALSE, n)
  BY DEF Create
<1>2. Idle /\ handle[o] = Null /\ UNCHANGED call
  BY DEF Create
<1>3. /\ TypeOK /\ AllHeld /\ SelfRuns /\ refers \in [Handles -> Pids \cup {0}]
      /\ refers[h] = 0 /\ SelfElevated \in BOOLEAN
  BY <1>1, ProcessAssumption DEF IInv, TypeOK, Free
<1>4. /\ refers' \in [Handles -> Pids \cup {0}]
      /\ refers'[h] = p /\ \A g \in Handles : g # h => refers'[g] = refers[g]
  BY <1>1, <1>3
<1>5. /\ SystemKeeps
      /\ \E j \in DOMAIN table' : table'[j] = Running(n, p, SelfElevated)
  BY <1>1, <1>3, <1>4, StartsKeeps
<1>6. p # 0 /\ handle[o] \notin Handles
  BY <1>2, ProcessAssumption DEF Null
<1>7. \E k \in DOMAIN table' : table'[k].pid = p /\ table'[k].name = n
  BY <1>5 DEF Running
<1> QED BY <1>1, <1>2, <1>3, <1>4, <1>5, <1>6, <1>7, SetsKeeps

LEMMA CreateElevatedKeeps ==
  ASSUME IInv, NEW o \in Objects, NEW n \in Names, CreateElevated(o, n)
  PROVE  IInv'
<1>1. PICK p \in Pids :
        /\ Starts(n, p, TRUE)
        /\ \/ \E h \in Handles :
                /\ Free(h)
                /\ refers' = [refers EXCEPT ![h] = p]
                /\ Sets(o, h, p, TRUE, n)
           \/ UNCHANGED refers /\ Sets(o, Null, 0, TRUE, n)
  BY DEF CreateElevated
<1>2. Idle /\ handle[o] = Null /\ UNCHANGED call
  BY DEF CreateElevated
<1>3. TypeOK /\ AllHeld /\ SelfRuns /\ refers \in [Handles -> Pids \cup {0}]
  BY DEF IInv, TypeOK
<1>4. p # 0 /\ handle[o] \notin Handles
  BY <1>2, ProcessAssumption DEF Null
<1>5. CASE UNCHANGED refers /\ Sets(o, Null, 0, TRUE, n)
  <2>1. SystemKeeps
    BY <1>1, <1>3, <1>5, StartsKeeps
  <2> QED BY <1>2, <1>3, <1>4, <1>5, <2>1, SetsKeeps
<1>6. ASSUME NEW h \in Handles, Free(h), refers' = [refers EXCEPT ![h] = p],
             Sets(o, h, p, TRUE, n)
      PROVE  IInv'
  <2>1. refers[h] = 0
    BY <1>6 DEF Free
  <2>2. /\ refers' \in [Handles -> Pids \cup {0}]
        /\ refers'[h] = p /\ \A g \in Handles : g # h => refers'[g] = refers[g]
    BY <1>3, <1>6
  <2>3. /\ SystemKeeps
        /\ \E j \in DOMAIN table' : table'[j] = Running(n, p, TRUE)
    BY <1>1, <1>3, <2>1, <2>2, StartsKeeps
  <2>4. \E k \in DOMAIN table' :
          table'[k].pid = p /\ table'[k].name = n /\ table'[k].elevated
    BY <2>3 DEF Running
  <2> QED BY <1>2, <1>3, <1>4, <1>6, <2>1, <2>2, <2>3, <2>4, SetsKeeps
<1> QED BY <1>1, <1>5, <1>6

\* Close(), Terminate() and the destructor close the handle and empty the object.
LEMMA BlankKeeps ==
  ASSUME IInv, Idle, UNCHANGED call, NEW o \in Objects, handle[o] # Null,
         Closes(handle[o]), Blank(o), SystemKeeps
  PROVE  IInv'
<1>1. handle[o] \in Handles /\ refers \in [Handles -> Pids \cup {0}]
  <2>1. /\ handle \in [Objects -> Handles \cup {Null}]
        /\ refers \in [Handles -> Pids \cup {0}]
    BY DEF IInv, TypeOK
  <2> QED BY <2>1
<1>2. /\ refers' \in [Handles -> Pids \cup {0}]
      /\ \A g \in Handles : refers'[g] = IF g = handle[o] THEN 0 ELSE refers[g]
  BY <1>1 DEF Closes
<1>3. Sets(o, Null, 0, FALSE, "")
  BY DEF Blank
<1> QED BY <1>1, <1>2, <1>3, SetsKeeps

LEMMA CloseKeeps ==
  ASSUME IInv, NEW o \in Objects, Close(o)
  PROVE  IInv'
<1>1. /\ Idle /\ handle[o] # Null /\ Closes(handle[o])
      /\ table' = Known(table, refers') /\ Blank(o) /\ UNCHANGED call
  BY DEF Close
<1>2. TypeOK /\ AllHeld /\ SelfRuns /\ handle[o] \in Handles /\ refers[handle[o]] # 0
  BY <1>1 DEF IInv, TypeOK, OneOwner, Free
<1>3. SystemKeeps
  BY <1>1, <1>2, ClosesKeeps
<1> QED BY <1>1, <1>3, BlankKeeps

LEMMA TerminateKeeps ==
  ASSUME IInv, NEW o \in Objects, Terminate(o)
  PROVE  IInv'
<1>1. /\ Idle /\ handle[o] # Null /\ Closes(handle[o])
      /\ Ends(refers[handle[o]], refers') /\ Blank(o) /\ UNCHANGED call
  BY DEF Terminate
<1>2. TypeOK /\ AllHeld /\ SelfRuns
  BY DEF IInv
<1>3. /\ handle[o] \in Handles /\ refers \in [Handles -> Pids \cup {0}]
      /\ refers[handle[o]] # 0 /\ InTable(refers[handle[o]])
  BY <1>1 DEF IInv, TypeOK, OneOwner, Free
<1>4. \A g \in Handles : refers'[g] = IF g = handle[o] THEN 0 ELSE refers[g]
  BY <1>1, <1>3 DEF Closes
<1>5. SystemKeeps
  BY <1>1, <1>2, <1>3, <1>4, EndsKeeps
<1> QED BY <1>1, <1>5, BlankKeeps

LEMMA RenewKeeps ==
  ASSUME IInv, NEW o \in Objects, Renew(o)
  PROVE  IInv'
<1>1. Idle /\ Blank(o) /\ UNCHANGED call
  BY DEF Renew
<1>2. TypeOK /\ AllHeld /\ SelfRuns
  BY DEF IInv
<1>3. CASE handle[o] = Null
  <2>1. UNCHANGED <<table, refers>>
    BY <1>3 DEF Renew
  <2>2. SystemKeeps
    BY <1>2, <2>1, OpensKeeps
  <2>3. Sets(o, Null, 0, FALSE, "") /\ handle[o] \notin Handles
    BY <1>1, <1>3, ProcessAssumption DEF Blank, Null
  <2>4. refers' \in [Handles -> Pids \cup {0}] /\ \A g \in Handles : refers'[g] = refers[g]
    BY <2>1 DEF IInv, TypeOK
  <2> QED BY <1>1, <2>2, <2>3, <2>4, SetsKeeps
<1>4. CASE handle[o] # Null
  <2>1. Closes(handle[o]) /\ table' = Known(table, refers')
    BY <1>4 DEF Renew
  <2>2. handle[o] \in Handles /\ refers[handle[o]] # 0
    BY <1>4 DEF IInv, TypeOK, OneOwner, Free
  <2>3. SystemKeeps
    BY <1>2, <2>1, <2>2, ClosesKeeps
  <2> QED BY <1>1, <1>4, <2>1, <2>3, BlankKeeps
<1> QED BY <1>3, <1>4

LEMMA MoveKeeps ==
  ASSUME IInv, NEW from \in Objects, NEW to \in Objects, Move(from, to)
  PROVE  IInv'
<1>1. /\ handle \in [Objects -> Handles \cup {Null}] /\ id \in [Objects -> Pids \cup {0}]
      /\ elevated \in [Objects -> BOOLEAN] /\ name \in [Objects -> Names \cup {""}]
      /\ raced \in [Objects -> BOOLEAN]
  BY DEF IInv, TypeOK
<1>2. /\ pc = "idle" /\ from # to /\ caller = Nobody
      /\ handle' = [handle EXCEPT ![to] = handle[from], ![from] = Null]
      /\ id' = [id EXCEPT ![to] = id[from]]
      /\ elevated' = [elevated EXCEPT ![to] = elevated[from]]
      /\ name' = [name EXCEPT ![to] = name[from], ![from] = ""]
      /\ raced' = [raced EXCEPT ![to] = raced[from], ![from] = FALSE]
      /\ UNCHANGED <<table, refers, pc, caller, wanted, found>>
  BY DEF Move, Idle, call, IInv, TypeOK
<1>3. /\ handle'[to] = handle[from] /\ handle'[from] = Null
      /\ id'[to] = id[from] /\ name'[to] = name[from]
      /\ elevated'[to] = elevated[from] /\ raced'[to] = raced[from]
      /\ \A q \in Objects \ {from, to} :
           /\ handle'[q] = handle[q] /\ id'[q] = id[q] /\ name'[q] = name[q]
           /\ elevated'[q] = elevated[q] /\ raced'[q] = raced[q]
  BY <1>1, <1>2
<1>4. TypeOK'
  <2>1. /\ handle' \in [Objects -> Handles \cup {Null}]
        /\ id' \in [Objects -> Pids \cup {0}]
        /\ elevated' \in [Objects -> BOOLEAN] /\ name' \in [Objects -> Names \cup {""}]
        /\ raced' \in [Objects -> BOOLEAN]
    BY <1>1, <1>2
  <2> QED BY <1>2, <2>1 DEF IInv, TypeOK, Idle, Free, InTable
<1>5. AllHeld' /\ SelfRuns'
  BY <1>2 DEF IInv, AllHeld, SelfRuns
<1>6. OneOwner' /\ IdOfHandle'
  <2> SUFFICES ASSUME NEW q \in Objects, handle'[q] # Null
               PROVE  /\ refers'[handle'[q]] # 0 /\ id'[q] = refers'[handle'[q]]
                      /\ \A s \in Objects \ {q} : handle'[s] # handle'[q]
    BY DEF OneOwner, IdOfHandle, Free
  <2> DEFINE was(p) == IF p = to THEN from ELSE p
  <2>1. \A p \in Objects \ {from} :
          handle'[p] = handle[was(p)] /\ id'[p] = id[was(p)] /\ was(p) \in Objects
    BY <1>3
  <2>2. q # from /\ handle[was(q)] # Null
    BY <1>3, <2>1
  <2>3. refers[handle[was(q)]] # 0 /\ id[was(q)] = refers[handle[was(q)]]
    BY <2>1, <2>2 DEF IInv, OneOwner, IdOfHandle, Free
  <2>4. \A s \in Objects \ {was(q)} : handle[s] # handle[was(q)]
    BY <2>1, <2>2 DEF IInv, OneOwner
  <2>5. ASSUME NEW s \in Objects \ {q} PROVE handle'[s] # handle'[q]
    <3>1. CASE s = from
      BY <1>3, <3>1
    <3>2. CASE s # from
      <4>1. was(s) # was(q)
        BY <2>2, <3>2
      <4> QED BY <2>1, <2>2, <2>4, <3>2, <4>1
    <3> QED BY <3>1, <3>2
  <2> HIDE DEF was
  <2> QED BY <1>2, <2>1, <2>2, <2>3, <2>5
<1>7. Looked' /\ FoundAgain'
  BY <1>2 DEF Looked, FoundAgain
<1>8. Truth'
  <2> SUFFICES ASSUME NEW q \in Objects PROVE TruthOf(q)'
    BY DEF Truth
  <2>1. \A p \in Objects : TruthOf(p)
    BY DEF IInv, Truth
  <2>2. CASE q = from
    BY <1>3, <2>2 DEF TruthOf
  <2>3. CASE q # from
    <3>1. PICK p \in Objects :
            /\ handle'[q] = handle[p] /\ name'[q] = name[p]
            /\ elevated'[q] = elevated[p] /\ raced'[q] = raced[p]
      <4>1. CASE q = to
        BY <1>3, <4>1
      <4>2. CASE q # to
        BY <1>3, <2>3, <4>2
      <4> QED BY <4>1, <4>2
    <3> SUFFICES ASSUME handle'[q] # Null, ~raced'[q]
                 PROVE  \E k \in DOMAIN table' :
                          /\ table'[k].pid = refers'[handle'[q]]
                          /\ name'[q] = table'[k].name
                          /\ elevated'[q] /\ caller' # q => table'[k].elevated
      BY DEF TruthOf
    <3>2. PICK k \in DOMAIN table :
            /\ table[k].pid = refers[handle[p]]
            /\ name[p] = table[k].name
            /\ elevated[p] /\ caller # p => table[k].elevated
      BY <2>1, <3>1 DEF TruthOf
    <3>3. caller # p
      BY <1>2, ProcessAssumption
    <3>4. elevated'[q] => table'[k].elevated
      BY <1>2, <3>1, <3>2, <3>3
    <3>5. table'[k].pid = refers'[handle'[q]] /\ name'[q] = table'[k].name
      BY <1>2, <3>1, <3>2
    <3> QED BY <1>2, <3>4, <3>5
  <2> QED BY <2>2, <2>3
<1> QED BY <1>4, <1>5, <1>6, <1>7, <1>8 DEF IInv

LEMMA OpenKeeps ==
  ASSUME IInv, NEW o \in Objects, NEW n \in Names, Open(o, n)
  PROVE  IInv'
<1>1. /\ pc = "idle" /\ handle[o] = Null /\ pc' = "opening"
      /\ caller' = o /\ wanted' = n
      /\ id' = [id EXCEPT ![o] = Lookup(n)] /\ raced' = [raced EXCEPT ![o] = FALSE]
      /\ UNCHANGED <<table, refers, handle, elevated, name, found>>
  BY DEF Open, Idle
<1>2. /\ id \in [Objects -> Pids \cup {0}] /\ raced \in [Objects -> BOOLEAN]
      /\ table \in Seq(Entry)
  BY DEF IInv, TypeOK
<1>3. /\ Lookup(n) \in Pids \cup {0}
      /\ n = SelfName => Lookup(n) = Self
      /\ n # SelfName /\ Lookup(n) # 0 => FirstIn(table, n, Lookup(n))
  <2>1. CASE n = SelfName
    BY <2>1, ProcessAssumption DEF Lookup
  <2>2. CASE n # SelfName
    BY <1>2, <2>2, LookupFinds
  <2> QED BY <2>1, <2>2
<1>4. /\ id'[o] = Lookup(n) /\ raced'[o] = FALSE
      /\ \A q \in Objects \ {o} : id'[q] = id[q] /\ raced'[q] = raced[q]
  BY <1>1, <1>2
<1>5. TypeOK'
  <2>1. id' \in [Objects -> Pids \cup {0}] /\ raced' \in [Objects -> BOOLEAN]
    BY <1>1, <1>2, <1>3
  <2>2. o # Nobody
    BY ProcessAssumption
  <2> QED BY <1>1, <2>1, <2>2 DEF IInv, TypeOK, Idle, Free, InTable
<1>6. AllHeld' /\ SelfRuns'
  BY <1>1 DEF IInv, AllHeld, SelfRuns
<1>7. OneOwner' /\ IdOfHandle'
  BY <1>1, <1>4 DEF IInv, OneOwner, IdOfHandle, Free
<1>8. Looked' /\ FoundAgain'
  BY <1>1, <1>3, <1>4 DEF Looked, FoundAgain
<1>9. Truth'
  <2> SUFFICES ASSUME NEW q \in Objects PROVE TruthOf(q)'
    BY DEF Truth
  <2>1. TruthOf(q)
    BY DEF IInv, Truth
  <2>2. caller # q
    BY <1>1, ProcessAssumption DEF IInv, TypeOK, Idle
  <2>3. CASE q = o
    BY <1>1, <2>3 DEF TruthOf
  <2>4. CASE q # o
    BY <1>1, <1>4, <2>1, <2>2, <2>4 DEF TruthOf
  <2> QED BY <2>3, <2>4
<1> QED BY <1>5, <1>6, <1>7, <1>8, <1>9 DEF IInv

\* Another program starts or ends.
LEMMA OutsideKeeps ==
  ASSUME IInv, SystemKeeps, UNCHANGED <<refers, fields, call>>,
         raced' \in [Objects -> BOOLEAN],
         \A o \in Objects : raced[o] => raced'[o],
         \A n, q : /\ caller \in Objects /\ ~raced'[caller] /\ q = id[caller]
                   /\ FirstIn(table, n, q)
                   => FirstIn(table', n, q)
  PROVE  IInv'
<1>1. UNCHANGED <<refers, handle, id, elevated, name, pc, caller, wanted, found>>
  BY DEF fields, call
<1>2. TypeOK'
  <2>1. /\ table' \in Seq(Entry)
        /\ \A j, k \in DOMAIN table' : table'[j].pid = table'[k].pid => j = k
    BY DEF SystemKeeps, Distinct
  <2>2. ASSUME NEW h \in Handles, refers[h] # 0 PROVE InTable(refers[h])'
    <3>1. TypeOK
      BY DEF IInv
    <3> QED BY <1>1, <2>2, <3>1, TargetStays
  <2> QED BY <1>1, <2>1, <2>2 DEF IInv, TypeOK, Idle, Free
<1>3. AllHeld' /\ SelfRuns'
  BY DEF SystemKeeps
<1>4. OneOwner' /\ IdOfHandle'
  BY <1>1 DEF IInv, OneOwner, IdOfHandle, Free
<1>5. pc # "idle" => caller \in Objects
  BY DEF IInv, TypeOK, Idle
<1>6. Looked'
  <2> SUFFICES ASSUME pc' \in {"opening", "asking"}, ~raced'[caller'], id'[caller'] # 0
               PROVE  IF wanted' = SelfName THEN id'[caller'] = Self
                      ELSE FirstIn(table', wanted', id'[caller'])
    BY DEF Looked
  <2>1. caller \in Objects /\ ~raced[caller]
    BY <1>1, <1>5
  <2>2. IF wanted = SelfName THEN id[caller] = Self
        ELSE FirstIn(table, wanted, id[caller])
    BY <1>1, <2>1 DEF IInv, Looked
  <2> QED BY <1>1, <2>1, <2>2
<1>7. FoundAgain'
  BY <1>1, <1>5 DEF IInv, FoundAgain
<1>8. Truth'
  <2> SUFFICES ASSUME NEW q \in Objects PROVE TruthOf(q)'
    BY DEF Truth
  <2>1. TypeOK /\ TruthOf(q)
    BY DEF IInv, Truth
  <2> QED BY <1>1, <2>1, TruthKeeps
<1> QED BY <1>2, <1>3, <1>4, <1>6, <1>7, <1>8 DEF IInv

LEMMA StartKeeps == ASSUME IInv, Start PROVE IInv'
<1>1. PICK n \in Names, p \in Pids, e \in BOOLEAN : Starts(n, p, e)
  BY DEF Start
<1>2. UNCHANGED <<refers, fields, call>> /\ UNCHANGED refers /\ UNCHANGED raced
  BY DEF Start
<1>3. TypeOK /\ AllHeld /\ SelfRuns /\ raced \in [Objects -> BOOLEAN]
  BY DEF IInv, TypeOK
<1>4. SystemKeeps /\ \A m, q : FirstIn(table, m, q) => FirstIn(table', m, q)
  BY <1>1, <1>2, <1>3, StartsKeeps
<1> QED BY <1>2, <1>3, <1>4, OutsideKeeps

LEMMA ExitKeeps == ASSUME IInv, Exit PROVE IInv'
<1>1. PICK p \in Pids :
        /\ InTable(p) /\ Ends(p, refers)
        /\ raced' = [o \in Objects |-> raced[o] \/ (o = caller /\ p = id[o])]
  BY DEF Exit
<1>2. UNCHANGED <<refers, fields, call>> /\ UNCHANGED refers
  BY DEF Exit
<1>3. TypeOK /\ AllHeld /\ SelfRuns /\ raced \in [Objects -> BOOLEAN]
  BY DEF IInv, TypeOK
<1>4. /\ SystemKeeps
      /\ \A n, q : q # p /\ FirstIn(table, n, q) => FirstIn(table', n, q)
  BY <1>1, <1>2, <1>3, EndsKeeps
<1>5. raced' \in [Objects -> BOOLEAN] /\ \A o \in Objects : raced[o] => raced'[o]
  BY <1>1, <1>3
<1>6. caller \in Objects /\ ~raced'[caller] => id[caller] # p
  BY <1>1
<1> QED BY <1>2, <1>4, <1>5, <1>6, OutsideKeeps

-----------------------------------------------------------------------------
(* The rest of open().                                                     *)

LEMMA OpenHandleKeeps == ASSUME IInv, OpenHandle PROVE IInv'
<1>1. /\ pc = "opening" /\ UNCHANGED <<table, id, elevated, raced>>
      /\ caller \in Objects /\ handle[caller] = Null
      /\ handle \in [Objects -> Handles \cup {Null}]
      /\ refers \in [Handles -> Pids \cup {0}] /\ id \in [Objects -> Pids \cup {0}]
      /\ name \in [Objects -> Names \cup {""}] /\ wanted \in Names
  BY DEF OpenHandle, IInv, TypeOK, Idle
<1>2. CASE Return /\ UNCHANGED <<refers, handle, name>>
  <2>1. /\ UNCHANGED <<table, id, elevated, raced, refers, handle, name>>
        /\ pc' = "idle" /\ caller' = Nobody /\ wanted' = SelfName /\ found' = 0
    BY <1>1, <1>2 DEF Return
  <2>2. TypeOK'
    BY <2>1, ProcessAssumption DEF IInv, TypeOK, Idle, Free, InTable
  <2>3. AllHeld' /\ SelfRuns' /\ OneOwner' /\ IdOfHandle'
    BY <2>1 DEF IInv, AllHeld, SelfRuns, OneOwner, IdOfHandle, Free
  <2>4. Looked' /\ FoundAgain'
    BY <2>1 DEF Looked, FoundAgain
  <2>5. Truth'
    <3> SUFFICES ASSUME NEW q \in Objects PROVE TruthOf(q)'
      BY DEF Truth
    <3>1. TruthOf(q)
      BY DEF IInv, Truth
    <3>2. CASE q = caller
      BY <1>1, <2>1, <3>2 DEF TruthOf
    <3>3. CASE q # caller
      BY <2>1, <3>1, <3>3 DEF TruthOf
    <3> QED BY <3>2, <3>3
  <2> QED BY <2>2, <2>3, <2>4, <2>5 DEF IInv
<1>3. ASSUME NEW h \in Handles, Free(h), InTable(id[caller]),
             refers' = [refers EXCEPT ![h] = id[caller]],
             handle' = [handle EXCEPT ![caller] = h],
             name' = [name EXCEPT ![caller] = wanted],
             pc' = "asking", UNCHANGED <<caller, wanted, found>>
      PROVE  IInv'
  <2>1. /\ refers[h] = 0 /\ refers'[h] = id[caller]
        /\ \A g \in Handles : g # h => refers'[g] = refers[g]
        /\ handle'[caller] = h /\ name'[caller] = wanted
        /\ \A q \in Objects \ {caller} : handle'[q] = handle[q] /\ name'[q] = name[q]
    BY <1>1, <1>3 DEF Free
  <2>2. TypeOK /\ AllHeld /\ SelfRuns
    BY DEF IInv
  <2>3. PICK k \in DOMAIN table : table[k].pid = id[caller]
    BY <1>3 DEF InTable
  <2>4. id[caller] # 0 /\ h # Null
    BY <2>2, <2>3, TableTypes, ProcessAssumption DEF Null
  <2>5. SystemKeeps
    BY <1>1, <2>1, <2>2, OpensKeeps
  <2>6. TypeOK'
    <3>1. /\ refers' \in [Handles -> Pids \cup {0}]
          /\ handle' \in [Objects -> Handles \cup {Null}]
          /\ name' \in [Objects -> Names \cup {""}]
      BY <1>1, <1>3
    <3>2. ASSUME NEW g \in Handles, refers'[g] # 0 PROVE InTable(refers[g])'
      <4>1. CASE g = h
        BY <1>1, <2>1, <2>3, <4>1 DEF InTable
      <4>2. CASE g # h
        <5>1. refers'[g] = refers[g] /\ refers[g] # 0
          BY <2>1, <3>2, <4>2
        <5>2. InTable(refers[g])
          BY <2>2, <5>1 DEF TypeOK, Free
        <5> QED BY <1>1, <5>1, <5>2 DEF InTable
      <4> QED BY <4>1, <4>2
    <3> QED BY <1>1, <1>3, <2>1, <2>4, <3>1, <3>2 DEF IInv, TypeOK, Idle, Free
  <2>7. AllHeld' /\ SelfRuns'
    BY <2>5 DEF SystemKeeps
  <2>8. OneOwner' /\ IdOfHandle'
    <3>1. ASSUME NEW q \in Objects \ {caller}, handle[q] # Null
          PROVE  /\ handle[q] \in Handles /\ handle[q] # h
                 /\ refers[handle[q]] # 0 /\ id[q] = refers[handle[q]]
                 /\ \A s \in Objects \ {q} : handle[s] # handle[q]
      <4>1. handle[q] \in Handles /\ q \in Objects
        BY <1>1, <3>1
      <4>2. refers[handle[q]] # 0 /\ \A s \in Objects \ {q} : handle[s] # handle[q]
        BY <3>1 DEF IInv, OneOwner, Free
      <4>3. id[q] = refers[handle[q]]
        BY <3>1 DEF IInv, IdOfHandle
      <4> QED BY <2>1, <4>1, <4>2, <4>3
    <3>2. ASSUME NEW q \in Objects, handle'[q] # Null
          PROVE  /\ refers'[handle'[q]] # 0 /\ id'[q] = refers'[handle'[q]]
                 /\ \A s \in Objects \ {q} : handle'[s] # handle'[q]
      <4>1. CASE q = caller
        <5>1. \A s \in Objects \ {q} : handle'[s] # h
          BY <2>1, <2>4, <3>1, <4>1
        <5> QED BY <1>1, <2>1, <2>4, <4>1, <5>1
      <4>2. CASE q # caller
        <5>1. handle'[q] = handle[q] /\ handle[q] # Null /\ id'[q] = id[q]
          BY <1>1, <2>1, <3>2, <4>2
        <5>2. refers'[handle'[q]] # 0 /\ id'[q] = refers'[handle'[q]]
          BY <2>1, <3>1, <4>2, <5>1
        <5>3. \A s \in Objects \ {q} : handle'[s] # handle'[q]
          BY <2>1, <3>1, <4>2, <5>1
        <5> QED BY <5>2, <5>3
      <4> QED BY <4>1, <4>2
    <3> QED BY <3>2 DEF OneOwner, IdOfHandle, Free
  <2>9. Looked' /\ FoundAgain'
    BY <1>1, <1>3 DEF IInv, Looked, FoundAgain
  <2>10. Truth'
    <3> SUFFICES ASSUME NEW q \in Objects PROVE TruthOf(q)'
      BY DEF Truth
    <3>1. CASE q # caller
      <4>1. handle[q] # Null => refers'[handle[q]] = refers[handle[q]]
        <5>1. handle[q] # Null => handle[q] \in Handles /\ refers[handle[q]] # 0
          BY <1>1 DEF IInv, OneOwner, Free
        <5> QED BY <2>1, <5>1
      <4>2. TruthOf(q)
        BY DEF IInv, Truth
      <4> QED BY <1>1, <2>1, <2>2, <2>5, <3>1, <4>1, <4>2, TruthKeeps
    <3>2. CASE q = caller
      <4> SUFFICES ASSUME ~raced[caller]
                   PROVE  \E j \in DOMAIN table :
                            table[j].pid = id[caller] /\ table[j].name = wanted
        BY <1>1, <1>3, <2>1, <3>2 DEF TruthOf
      <4>1. IF wanted = SelfName THEN id[caller] = Self
            ELSE FirstIn(table, wanted, id[caller])
        BY <1>1, <2>4 DEF IInv, Looked
      <4>2. CASE wanted = SelfName
        BY <2>2, <4>1, <4>2 DEF SelfRuns
      <4>3. CASE wanted # SelfName
        BY <4>1, <4>3 DEF FirstIn, Named
      <4> QED BY <4>2, <4>3
    <3> QED BY <3>1, <3>2
  <2> QED BY <2>6, <2>7, <2>8, <2>9, <2>10 DEF IInv
<1> QED BY <1>2, <1>3 DEF OpenHandle

LEMMA AskAgainKeeps == ASSUME IInv, AskAgain PROVE IInv'
<1>1. /\ pc = "asking" /\ found' = Lookup(wanted) /\ pc' = "token"
      /\ UNCHANGED <<table, refers, handle, id, elevated, name, caller, wanted, raced>>
  BY DEF AskAgain, fields
<1>2. /\ TypeOK /\ caller \in Objects /\ handle[caller] # Null /\ wanted \in Names
      /\ table \in Seq(Entry)
  BY <1>1 DEF IInv, TypeOK, Idle
<1>3. found' \in Pids \cup {0}
  <2>1. CASE wanted = SelfName
    BY <1>1, <2>1, ProcessAssumption DEF Lookup
  <2>2. CASE wanted # SelfName
    BY <1>1, <1>2, <2>2, LookupFinds
  <2> QED BY <2>1, <2>2
<1>4. TypeOK'
  BY <1>1, <1>2, <1>3 DEF IInv, TypeOK, Idle, Free, InTable
<1>5. AllHeld' /\ SelfRuns' /\ OneOwner' /\ IdOfHandle'
  BY <1>1 DEF IInv, AllHeld, SelfRuns, OneOwner, IdOfHandle, Free
<1>6. Looked'
  BY <1>1 DEF Looked
<1>7. FoundAgain'
  <2> SUFFICES ASSUME ~raced[caller] PROVE Lookup(wanted) = id[caller]
    BY <1>1 DEF FoundAgain
  <2>1. id[caller] # 0
    BY <1>2 DEF IInv, OneOwner, IdOfHandle, Free
  <2>2. IF wanted = SelfName THEN id[caller] = Self
        ELSE FirstIn(table, wanted, id[caller])
    BY <1>1, <2>1 DEF IInv, Looked
  <2>3. CASE wanted = SelfName
    BY <2>2, <2>3 DEF Lookup
  <2>4. CASE wanted # SelfName
    BY <1>2, <2>2, <2>4, LookupFinds
  <2> QED BY <2>3, <2>4
<1>8. Truth'
  BY <1>1 DEF IInv, Truth, TruthOf
<1> QED BY <1>4, <1>5, <1>6, <1>7, <1>8 DEF IInv

LEMMA AskTokenKeeps == ASSUME IInv, AskToken PROVE IInv'
<1>1. PICK e \in {FALSE} \cup {OfPid(p).elevated : p \in {q \in {found} : InTable(q)}} :
        elevated' = [elevated EXCEPT ![caller] = e]
  BY DEF AskToken
<1>2. /\ pc = "token"
      /\ pc' = "idle" /\ caller' = Nobody /\ wanted' = SelfName /\ found' = 0
      /\ UNCHANGED <<table, refers, handle, id, name, raced>>
  BY DEF AskToken, Return
<1>3. /\ TypeOK /\ caller \in Objects /\ elevated \in [Objects -> BOOLEAN]
      /\ Distinct(table) /\ \A k \in DOMAIN table : table[k] \in Entry
  BY <1>2, TableTypes DEF IInv, TypeOK, Idle
<1>4. \/ e = FALSE
      \/ \E k \in DOMAIN table : table[k].pid = found /\ e = table[k].elevated
  <2>1. CASE InTable(found) /\ e = OfPid(found).elevated
    <3>1. PICK k \in DOMAIN table : table[k].pid = found
      BY <2>1 DEF InTable
    <3>2. OfPid(found) = table[k]
      BY <1>3, <3>1, OfPidIs
    <3> QED BY <2>1, <3>1, <3>2
  <2> QED BY <2>1
<1>5. e \in BOOLEAN
  BY <1>3, <1>4 DEF Entry
<1>6. /\ elevated' \in [Objects -> BOOLEAN] /\ elevated'[caller] = e
      /\ \A q \in Objects \ {caller} : elevated'[q] = elevated[q]
  BY <1>1, <1>3, <1>5
<1>7. TypeOK'
  BY <1>2, <1>6, ProcessAssumption DEF IInv, TypeOK, Idle, Free, InTable
<1>8. AllHeld' /\ SelfRuns' /\ OneOwner' /\ IdOfHandle'
  BY <1>2 DEF IInv, AllHeld, SelfRuns, OneOwner, IdOfHandle, Free
<1>9. Looked' /\ FoundAgain'
  BY <1>2 DEF Looked, FoundAgain
<1>10. ASSUME NEW q \in Objects, handle[q] # Null, ~raced[q]
       PROVE  \E k \in DOMAIN table :
                /\ table[k].pid = refers[handle[q]]
                /\ name[q] = table[k].name
                /\ elevated'[q] => table[k].elevated
  <2>1. PICK k \in DOMAIN table :
          /\ table[k].pid = refers[handle[q]]
          /\ name[q] = table[k].name
          /\ elevated[q] /\ caller # q => table[k].elevated
    BY <1>10 DEF IInv, Truth, TruthOf
  <2>2. CASE q # caller
    <3>1. elevated'[q] => table[k].elevated
      BY <1>6, <2>1, <2>2
    <3> QED BY <2>1, <3>1
  <2>3. CASE q = caller
    <3>1. found = refers[handle[q]]
      BY <1>2, <1>10, <2>3 DEF IInv, FoundAgain, IdOfHandle
    <3>2. \A j \in DOMAIN table : table[j].pid = found => j = k
      BY <1>3, <2>1, <3>1 DEF Distinct
    <3>3. elevated'[q] => table[k].elevated
      BY <1>4, <1>6, <2>3, <3>2
    <3> QED BY <2>1, <3>3
  <2> QED BY <2>2, <2>3
<1>11. Truth'
  BY <1>2, <1>10 DEF Truth, TruthOf
<1> QED BY <1>7, <1>8, <1>9, <1>11 DEF IInv

-----------------------------------------------------------------------------
(* The specification.                                                      *)

LEMMA InitHolds == Init => IInv
<1> SUFFICES ASSUME Init PROVE IInv
  OBVIOUS
<1> DEFINE self == Running(SelfName, Self, SelfElevated)
<1>1. /\ self \in Entry /\ self.pid = Self /\ self.name = SelfName /\ self.alive
  BY ProcessAssumption DEF Running, Entry
<1>2. table = <<self>>
  BY DEF Init
<1> HIDE DEF self
<1>3. table \in Seq(Entry) /\ DOMAIN table = {1} /\ table[1] = self
  BY <1>1, <1>2
<1>4. TypeOK
  BY <1>3, ProcessAssumption DEF Init, TypeOK, Idle, Free, Null
<1>5. AllHeld /\ SelfRuns
  BY <1>1, <1>3 DEF AllHeld, SelfRuns, Held
<1>6. OneOwner /\ IdOfHandle /\ Looked /\ FoundAgain /\ Truth
  BY DEF Init, OneOwner, IdOfHandle, Looked, FoundAgain, Truth, TruthOf
<1> QED BY <1>4, <1>5, <1>6 DEF IInv

LEMMA NextKeeps == IInv /\ [Next]_vars => IInv'
<1> SUFFICES ASSUME IInv, [Next]_vars PROVE IInv'
  OBVIOUS
<1>1. CASE Start \/ Exit
  BY <1>1, StartKeeps, ExitKeeps
<1>2. ASSUME NEW o \in Objects, NEW n \in Names,
             Create(o, n) \/ CreateElevated(o, n) \/ Open(o, n)
      PROVE  IInv'
  BY <1>2, CreateKeeps, CreateElevatedKeeps, OpenKeeps
<1>3. ASSUME NEW o \in Objects, Close(o) \/ Terminate(o) \/ Renew(o) PROVE IInv'
  BY <1>3, CloseKeeps, TerminateKeeps, RenewKeeps
<1>4. ASSUME NEW o \in Objects, NEW from \in Objects, Move(from, o) PROVE IInv'
  BY <1>4, MoveKeeps
<1>5. CASE OpenHandle \/ AskAgain \/ AskToken
  BY <1>5, OpenHandleKeeps, AskAgainKeeps, AskTokenKeeps
<1>6. CASE UNCHANGED vars
  <2>1. UNCHANGED <<table, refers, handle, id, elevated, name, pc, caller, wanted,
                    found, raced>>
    BY <1>6 DEF vars, fields, call
  <2>2. TypeOK'
    BY <2>1 DEF IInv, TypeOK, Idle, Free, InTable
  <2>3. AllHeld' /\ SelfRuns' /\ OneOwner' /\ IdOfHandle'
    BY <2>1 DEF IInv, AllHeld, SelfRuns, OneOwner, IdOfHandle, Free
  <2>4. Looked' /\ FoundAgain' /\ Truth'
    BY <2>1 DEF IInv, Looked, FoundAgain, Truth, TruthOf
  <2> QED BY <2>2, <2>3, <2>4 DEF IInv
<1> QED BY <1>1, <1>2, <1>3, <1>4, <1>5, <1>6 DEF Next

\* The inductive invariant.
THEOREM Invariant == Spec => []IInv
BY InitHolds, NextKeeps, PTL DEF Spec

\* Numbers are unique, an open handle refers to a process the system knows, and
\* open() runs on an object without a handle until it has got one.
THEOREM TypeCorrect == Spec => []TypeOK
<1>1. IInv => TypeOK
  BY DEF IInv
<1> QED BY <1>1, Invariant, PTL

\* What an object holds is open, and nobody else's, through any moves, closes and
\* ends, and although the system gives handles away again.
THEOREM NoHandleTwice == Spec => []OneOwner
<1>1. IInv => OneOwner
  BY DEF IInv
<1> QED BY <1>1, Invariant, PTL

\* id() is the number of the process that the handle refers to.
THEOREM IdAndHandleAgree == Spec => []IdOfHandle
<1>1. IInv => IdOfHandle
  BY DEF IInv
<1> QED BY <1>1, Invariant, PTL

\* What an object says of its process is true, unless that process ended while
\* open() looked at it.
THEOREM Truthful == Spec => []SaysTheTruth
<1>1. IInv => SaysTheTruth
  <2> SUFFICES ASSUME IInv, NEW o \in Objects, handle[o] # Null, ~raced[o]
               PROVE  /\ name[o] = Target(handle[o]).name
                      /\ elevated[o] /\ caller # o => Target(handle[o]).elevated
    BY DEF SaysTheTruth
  <2>1. PICK k \in DOMAIN table :
          /\ table[k].pid = refers[handle[o]]
          /\ name[o] = table[k].name
          /\ elevated[o] /\ caller # o => table[k].elevated
    BY DEF IInv, Truth, TruthOf
  <2>2. Distinct(table)
    BY TableTypes DEF IInv
  <2>3. Target(handle[o]) = table[k]
    BY <2>1, <2>2, OfPidIs DEF Target
  <2>4. elevated[o] /\ caller # o => Target(handle[o]).elevated
    BY <2>1, <2>3
  <2> QED BY <2>1, <2>3, <2>4
<1> QED BY <1>1, Invariant, PTL

-----------------------------------------------------------------------------
(* No open handle is forgotten.                                            *)

Kept(h) == refers[h] = 0 \/ \E o \in Objects : handle[o] = h

LEMMA ForgottenIs == NoneForgotten <=> overwritten = {h \in Handles : ~Kept(h)}
BY DEF NoneForgotten, Kept, Free

\* A step that changes one object closes what it had and opens what it gets.
LEMMA OneObject ==
  ASSUME IInv, NoneForgotten, UNCHANGED overwritten,
         NEW q \in Objects, NEW h \in Handles \cup {Null},
         handle' = [handle EXCEPT ![q] = h],
         \A g \in Handles : g # handle[q] /\ g # h => refers'[g] = refers[g],
         handle[q] \in Handles /\ handle[q] # h => refers'[handle[q]] = 0,
         h \in Handles => refers[h] = 0
  PROVE  NoneForgotten'
<1>1. handle \in [Objects -> Handles \cup {Null}]
  BY DEF IInv, TypeOK
<1>2. handle'[q] = h /\ \A o \in Objects \ {q} : handle'[o] = handle[o]
  BY <1>1
<1>3. ASSUME NEW g \in Handles PROVE Kept(g) <=> Kept(g)'
  <2>1. CASE g = h
    BY <1>2, <2>1 DEF Kept
  <2>2. CASE g # h /\ g = handle[q]
    BY <2>2 DEF Kept
  <2>3. CASE g # h /\ g # handle[q]
    <3>1. refers'[g] = refers[g]
      BY <2>3
    <3>2. \A o \in Objects : handle'[o] = g <=> handle[o] = g
      BY <1>2, <2>3
    <3> QED BY <3>1, <3>2 DEF Kept
  <2> QED BY <2>1, <2>2, <2>3
<1>4. {g \in Handles : ~Kept(g)} = {g \in Handles : ~Kept(g)'}
  BY <1>3
<1>5. overwritten' = {g \in Handles : ~Kept(g)'}
  BY <1>4, ForgottenIs
<1> QED BY <1>5 DEF NoneForgotten, Kept, Free

\* An assignment forgets what its target had, and nothing else.
LEMMA MoveForgets ==
  ASSUME IInv, NoneForgotten, NEW from \in Objects, NEW to \in Objects, Move(from, to)
  PROVE  NoneForgotten'
<1>1. /\ handle \in [Objects -> Handles \cup {Null}] /\ Null \notin Handles
      /\ from # to /\ refers' = refers
      /\ overwritten' = overwritten \cup ({handle[to]} \ {Null})
  BY ProcessAssumption DEF IInv, TypeOK, Move, Null
<1>2. /\ handle'[to] = handle[from] /\ handle'[from] = Null
      /\ \A o \in Objects \ {from, to} : handle'[o] = handle[o]
  BY <1>1 DEF Move
<1>3. handle[to] # Null =>
        /\ handle[to] \in Handles /\ refers[handle[to]] # 0
        /\ \A o \in Objects \ {to} : handle[o] # handle[to]
  BY <1>1 DEF IInv, OneOwner, Free
<1>4. ASSUME NEW g \in Handles
      PROVE  ~Kept(g)' <=> ~Kept(g) \/ g = handle[to]
  <2>1. CASE g = handle[to]
    <3>1. refers'[g] # 0 /\ \A o \in Objects : handle'[o] # g
      BY <1>1, <1>2, <1>3, <2>1
    <3> QED BY <2>1, <3>1 DEF Kept
  <2>2. CASE g # handle[to]
    <3>1. (\E o \in Objects : handle'[o] = g) <=> \E o \in Objects : handle[o] = g
      BY <1>1, <1>2, <2>2
    <3> QED BY <1>1, <2>2, <3>1 DEF Kept
  <2> QED BY <2>1, <2>2
<1>5. overwritten = {g \in Handles : ~Kept(g)}
  BY ForgottenIs
<1>6. {handle[to]} \ {Null} = {g \in Handles : g = handle[to]}
  BY <1>1
<1>7. overwritten' = {g \in Handles : ~Kept(g)'}
  BY <1>1, <1>4, <1>5, <1>6
<1> QED BY <1>7 DEF NoneForgotten, Kept, Free

LEMMA NextForgetsNone == IInv /\ NoneForgotten /\ [Next]_vars => NoneForgotten'
<1> SUFFICES ASSUME IInv, NoneForgotten, [Next]_vars PROVE NoneForgotten'
  OBVIOUS
<1> USE DEF Null
<1>1. /\ handle \in [Objects -> Handles \cup {Null}]
      /\ refers \in [Handles -> Pids \cup {0}] /\ Null \notin Handles
      /\ pc = "opening" => caller \in Objects /\ handle[caller] = Null
  BY ProcessAssumption DEF IInv, TypeOK, Idle
<1>2. CASE UNCHANGED <<refers, handle, overwritten>>
  BY <1>2 DEF NoneForgotten, Free
<1>3. CASE (Start \/ Exit \/ AskAgain \/ AskToken) /\ UNCHANGED overwritten
  BY <1>2, <1>3 DEF Start, Exit, AskAgain, AskToken, fields
<1>4. CASE OpenHandle /\ UNCHANGED overwritten
  <2>1. CASE UNCHANGED <<refers, handle>>
    BY <1>2, <1>4, <2>1
  <2>2. ASSUME NEW h \in Handles, Free(h),
               refers' = [refers EXCEPT ![h] = id[caller]],
               handle' = [handle EXCEPT ![caller] = h]
        PROVE  NoneForgotten'
    <3>1. \A g \in Handles : g # h => refers'[g] = refers[g]
      BY <1>1, <2>2
    <3>2. caller \in Objects /\ handle[caller] \notin Handles
      BY <1>1, <1>4 DEF OpenHandle
    <3> QED BY <1>4, <2>2, <3>1, <3>2, OneObject DEF Free
  <2> QED BY <1>4, <2>1, <2>2 DEF OpenHandle
<1>5. ASSUME NEW q \in Objects, NEW n \in Names,
             Create(q, n) \/ CreateElevated(q, n) \/ Open(q, n), UNCHANGED overwritten
      PROVE  NoneForgotten'
  <2>1. handle[q] = Null
    BY <1>5 DEF Create, CreateElevated, Open
  <2>2. CASE Open(q, n)
    BY <1>2, <1>5, <2>2 DEF Open
  <2>3. ASSUME NEW h \in Handles, NEW p \in Pids, Free(h),
               refers' = [refers EXCEPT ![h] = p], handle' = [handle EXCEPT ![q] = h]
        PROVE  NoneForgotten'
    <3>1. \A g \in Handles : g # h => refers'[g] = refers[g]
      BY <1>1, <2>3
    <3> QED BY <1>1, <1>5, <2>1, <2>3, <3>1, OneObject DEF Free
  <2>4. CASE Create(q, n)
    BY <2>3, <2>4 DEF Create, Sets
  <2>5. CASE CreateElevated(q, n)
    <3>1. CASE UNCHANGED refers /\ Sets(q, Null, 0, TRUE, n)
      <4>1. handle' = [handle EXCEPT ![q] = Null]
        BY <3>1 DEF Sets
      <4> QED BY <1>1, <1>5, <2>1, <3>1, <4>1, OneObject
    <3> QED BY <2>3, <2>5, <3>1 DEF CreateElevated, Sets
  <2> QED BY <1>5, <2>2, <2>4, <2>5
<1>6. ASSUME NEW q \in Objects, Close(q) \/ Terminate(q) \/ Renew(q),
             UNCHANGED overwritten
      PROVE  NoneForgotten'
  <2>1. handle' = [handle EXCEPT ![q] = Null]
    BY <1>6 DEF Close, Terminate, Renew, Blank, Sets
  <2>2. IF handle[q] = Null THEN refers' = refers
        ELSE refers' = [refers EXCEPT ![handle[q]] = 0]
    BY <1>6 DEF Close, Terminate, Renew, Closes
  <2>3. /\ \A g \in Handles : g # handle[q] => refers'[g] = refers[g]
        /\ handle[q] \in Handles => refers'[handle[q]] = 0
    BY <1>1, <2>2
  <2> QED BY <1>1, <1>6, <2>1, <2>3, OneObject
<1>7. ASSUME NEW from \in Objects, NEW to \in Objects, Move(from, to)
      PROVE  NoneForgotten'
  BY <1>7, MoveForgets
<1>8. CASE UNCHANGED vars
  BY <1>2, <1>8 DEF vars, fields
<1> QED BY <1>3, <1>4, <1>5, <1>6, <1>7, <1>8 DEF Next

\* Every open handle is some object's, but for those that an assignment has taken
\* the place of.
THEOREM HandlesAreClosed == Spec => []NoneForgotten
<1>1. Init => NoneForgotten
  BY DEF Init, NoneForgotten, Free
<1> QED BY <1>1, NextForgetsNone, Invariant, PTL DEF Spec
=============================================================================
