----------------------------- MODULE Path_proofs -----------------------------
(***************************************************************************)
(* Proofs about Path for all sets of characters, inputs, folders and       *)
(* executables and any length: a path that is taken apart is put together  *)
(* again, a replacement is found, fix() keeps what a path means, and       *)
(* make_path() makes no torn path.                                         *)
(***************************************************************************)
EXTENDS Path, SequenceTheorems, FiniteSetTheorems, WellFoundedInduction, TLAPS

Slashes == {"\\", "/"}

\* The position n, counted from 0, is that of the last character of p in S, or
\* Npos when there is none.
LastIn(p, S, n) ==
  \/ n = Npos /\ \A k \in 1..Len(p) : p[k] \notin S
  \/ /\ n \in 0..(Len(p) - 1)
     /\ p[n + 1] \in S
     /\ \A k \in 1..Len(p) : k > n + 1 => p[k] \notin S

-----------------------------------------------------------------------------
(* Numbers.                                                                *)

LEMMA Room ==
  /\ MaxLength \in Nat /\ Npos \in Nat /\ 2 * MaxLength + 4 <= Npos
  /\ \A r \in Inputs \cup Folders \cup Executables :
       /\ r \in Seq(Chars \ {"nul"}) /\ r \in Seq(Chars)
       /\ Len(r) \in Nat /\ 2 * MaxLength + 2 * Len(r) + 4 <= Npos
<1>1. MaxLength \in Nat /\ W \in Nat
  BY PathAssumption
<1>2. ASSUME NEW r \in {<<>>} \cup Inputs \cup Folders \cup Executables
      PROVE  /\ r \in Seq(Chars \ {"nul"}) /\ r \in Seq(Chars)
             /\ Len(r) \in Nat /\ 2 * MaxLength + 2 * Len(r) + 4 <= Npos
  <2>1. r \in Seq(Chars \ {"nul"}) /\ 2 * (MaxLength + Len(r) + 2) < W
    BY PathAssumption, EmptySeq
  <2>2. Len(r) \in Nat
    BY <2>1, LenProperties
  <2>3. r \in Seq(Chars)
    BY <2>1, SeqMonotonic
  <2>4. 2 * MaxLength + 2 * Len(r) + 4 <= W - 1
    BY <1>1, <2>1, <2>2
  <2> QED BY <2>1, <2>2, <2>3, <2>4 DEF Npos
<1>3. Len(<<>>) = 0
  OBVIOUS
<1>4. 2 * MaxLength + 4 <= Npos
  <2>1. 2 * MaxLength + 2 * Len(<<>>) + 4 <= Npos
    BY <1>2
  <2> QED BY <1>1, <1>3, <2>1 DEF Npos
<1>5. Npos \in Nat
  BY <1>1, <1>4 DEF Npos
<1> QED BY <1>1, <1>2, <1>4, <1>5

LEMMA LeastNumber ==
  ASSUME NEW S \in SUBSET Nat, S # {}
  PROVE  \E x \in S : \A y \in S : x <= y
<1>1. PICK x \in S : \A y \in S : ~(<<y, x>> \in OpToRel(<, Nat))
  BY NatLessThanWellFounded, WFMin
<1>2. ASSUME NEW y \in S PROVE x <= y
  <2>1. <<y, x>> \in Nat \X Nat
    OBVIOUS
  <2>2. ~(y < x)
    BY <1>1, <2>1 DEF OpToRel
  <2> QED BY <2>2
<1> QED BY <1>2

LEMMA MinFields ==
  ASSUME NEW S \in SUBSET Nat, S # {}
  PROVE  Min(S) \in S /\ \A y \in S : Min(S) <= y
<1>1. \E x \in S : \A y \in S : x <= y
  BY LeastNumber
<1> QED BY <1>1 DEF Min

LEMMA MaxFields ==
  ASSUME NEW n \in Nat, NEW S \in SUBSET (0..n), S # {}
  PROVE  Max(S) \in S /\ \A y \in S : y <= Max(S)
<1> DEFINE T == {n - y : y \in S}
<1>1. T \in SUBSET Nat /\ T # {}
  <2>1. \A y \in S : n - y \in Nat
    OBVIOUS
  <2> QED BY <2>1
<1>2. PICK t \in T : \A u \in T : t <= u
  <2> HIDE DEF T
  <2> QED BY <1>1, LeastNumber
<1>3. PICK x \in S : t = n - x
  OBVIOUS
<1>4. ASSUME NEW y \in S PROVE x >= y
  <2>1. n - y \in T
    OBVIOUS
  <2>2. n - x <= n - y
    BY <1>2, <1>3, <2>1
  <2>3. x \in Nat /\ y \in Nat
    OBVIOUS
  <2> QED BY <2>2, <2>3
<1>5. Max(S) \in S /\ \A y \in S : Max(S) >= y
  BY <1>4 DEF Max
<1>6. \A y \in S : y \in Nat
  OBVIOUS
<1> QED BY <1>5, <1>6

-----------------------------------------------------------------------------
(* Last positions.                                                         *)

LEMMA FindLastFields ==
  ASSUME NEW p \in Seq(Chars), Len(p) <= Npos, NEW c
  PROVE  LastIn(p, {c}, FindLast(p, c))
<1> DEFINE places == {k \in DOMAIN p : p[k] = c}
<1>1. Len(p) \in Nat /\ DOMAIN p = 1..Len(p)
  BY LenProperties
<1>2. CASE places = {}
  <2>1. FindLast(p, c) = Npos
    BY <1>2 DEF FindLast
  <2>2. \A k \in 1..Len(p) : p[k] \notin {c}
    BY <1>1, <1>2
  <2> QED BY <2>1, <2>2 DEF LastIn
<1>3. CASE places # {}
  <2>1. FindLast(p, c) = Max(places) - 1
    BY <1>3 DEF FindLast
  <2>2. places \in SUBSET (0..Len(p))
    BY <1>1
  <2>3. Max(places) \in places /\ \A y \in places : y <= Max(places)
    <3> HIDE DEF places
    <3> QED BY <1>1, <1>3, <2>2, MaxFields
  <2>4. PICK m : m = Max(places)
    OBVIOUS
  <2>5. m \in 1..Len(p) /\ p[m] = c /\ m - 1 + 1 = m
    BY <1>1, <2>3, <2>4
  <2>6. ASSUME NEW k \in 1..Len(p), k > m PROVE p[k] \notin {c}
    <3>1. ~(k <= m)
      BY <1>1, <2>5, <2>6
    <3>2. k \notin places
      BY <2>3, <2>4, <3>1
    <3> QED BY <1>1, <3>2
  <2>7. m - 1 \in 0..(Len(p) - 1)
    BY <1>1, <2>5
  <2>8. FindLast(p, c) = m - 1
    BY <2>1, <2>4
  <2> QED BY <2>5, <2>6, <2>7, <2>8 DEF LastIn
<1> QED BY <1>2, <1>3

LEMMA LastUnique ==
  ASSUME NEW p \in Seq(Chars), Len(p) <= Npos, NEW S, NEW m, NEW n,
         LastIn(p, S, m), LastIn(p, S, n)
  PROVE  m = n
<1>1. Len(p) \in Nat /\ Npos \in Nat
  BY LenProperties, Room
<1>2. CASE m = Npos
  <2>1. \A k \in 1..Len(p) : p[k] \notin S
    BY <1>1, <1>2 DEF LastIn
  <2>2. n \notin 0..(Len(p) - 1) \/ p[n + 1] \notin S
    BY <1>1, <2>1
  <2> QED BY <1>2, <2>2 DEF LastIn
<1>3. CASE n = Npos
  <2>1. \A k \in 1..Len(p) : p[k] \notin S
    BY <1>1, <1>3 DEF LastIn
  <2>2. m \notin 0..(Len(p) - 1) \/ p[m + 1] \notin S
    BY <1>1, <2>1
  <2> QED BY <1>3, <2>2 DEF LastIn
<1>4. CASE m # Npos /\ n # Npos
  <2>1. /\ m \in 0..(Len(p) - 1) /\ p[m + 1] \in S
        /\ n \in 0..(Len(p) - 1) /\ p[n + 1] \in S
        /\ \A k \in 1..Len(p) : k > m + 1 => p[k] \notin S
        /\ \A k \in 1..Len(p) : k > n + 1 => p[k] \notin S
    BY <1>4 DEF LastIn
  <2>2. m + 1 \in 1..Len(p) /\ n + 1 \in 1..Len(p)
    BY <1>1, <2>1
  <2>3. ~(m + 1 > n + 1) /\ ~(n + 1 > m + 1)
    BY <2>1, <2>2
  <2> QED BY <1>1, <2>1, <2>3
<1> QED BY <1>2, <1>3, <1>4

\* The last slash is the later one of the two kinds, and the one that there is
\* when there is only one kind.
LEMMA LastSlashFields ==
  ASSUME NEW p \in Seq(Chars), Len(p) <= Npos
  PROVE  LastIn(p, Slashes, LastSlash(p))
<1>1. Len(p) \in Nat /\ Npos \in Nat
  BY LenProperties, Room
<1>2. PICK a : a = FindLast(p, "\\")
  OBVIOUS
<1>3. PICK b : b = FindLast(p, "/")
  OBVIOUS
<1>4. LastIn(p, {"\\"}, a) /\ LastIn(p, {"/"}, b)
  BY <1>2, <1>3, FindLastFields
<1>5. a \in 0..Npos /\ b \in 0..Npos
  BY <1>1, <1>4 DEF LastIn
<1>6. /\ Max({a, b}) \in {a, b} /\ a <= Max({a, b}) /\ b <= Max({a, b})
      /\ Min({a, b}) \in {a, b} /\ Min({a, b}) <= a /\ Min({a, b}) <= b
  <2>1. {a, b} \in SUBSET (0..Npos) /\ {a, b} \in SUBSET Nat /\ {a, b} # {}
    BY <1>1, <1>5
  <2>2. Max({a, b}) \in {a, b} /\ \A y \in {a, b} : y <= Max({a, b})
    BY <1>1, <2>1, MaxFields
  <2>3. Min({a, b}) \in {a, b} /\ \A y \in {a, b} : Min({a, b}) <= y
    BY <2>1, MinFields
  <2> QED BY <2>2, <2>3
<1>7. PICK n : n = LastSlash(p)
  OBVIOUS
<1>8. n = IF Max({a, b}) = Npos THEN Min({a, b}) ELSE Max({a, b})
  BY <1>2, <1>3, <1>7 DEF LastSlash
<1>9. \A k \in 1..Len(p) : p[k] \in Slashes <=> p[k] \in {"\\"} \/ p[k] \in {"/"}
  BY DEF Slashes
<1>10. CASE a = Npos
  <2>1. n = b
    BY <1>1, <1>5, <1>6, <1>8, <1>10
  <2>2. \A k \in 1..Len(p) : p[k] \in Slashes <=> p[k] \in {"/"}
    <3>1. \A k \in 1..Len(p) : p[k] \notin {"\\"}
      BY <1>1, <1>4, <1>10 DEF LastIn
    <3> QED BY <1>9, <3>1
  <2>3. b \in 0..(Len(p) - 1) => b + 1 \in 1..Len(p)
    BY <1>1
  <2>4. LastIn(p, Slashes, b)
    BY <1>4, <2>2, <2>3 DEF LastIn
  <2> QED BY <1>7, <2>1, <2>4
<1>11. CASE b = Npos
  <2>1. n = a
    BY <1>1, <1>5, <1>6, <1>8, <1>11
  <2>2. \A k \in 1..Len(p) : p[k] \in Slashes <=> p[k] \in {"\\"}
    <3>1. \A k \in 1..Len(p) : p[k] \notin {"/"}
      BY <1>1, <1>4, <1>11 DEF LastIn
    <3> QED BY <1>9, <3>1
  <2>3. a \in 0..(Len(p) - 1) => a + 1 \in 1..Len(p)
    BY <1>1
  <2>4. LastIn(p, Slashes, a)
    BY <1>4, <2>2, <2>3 DEF LastIn
  <2> QED BY <1>7, <2>1, <2>4
<1>12. CASE a # Npos /\ b # Npos
  <2>1. /\ a \in 0..(Len(p) - 1) /\ p[a + 1] \in {"\\"}
        /\ \A k \in 1..Len(p) : k > a + 1 => p[k] \notin {"\\"}
        /\ b \in 0..(Len(p) - 1) /\ p[b + 1] \in {"/"}
        /\ \A k \in 1..Len(p) : k > b + 1 => p[k] \notin {"/"}
    BY <1>4, <1>12 DEF LastIn
  <2>2. n \in {a, b} /\ a <= n /\ b <= n
    BY <1>5, <1>6, <1>8, <1>12
  <2>3. n \in 0..(Len(p) - 1) /\ p[n + 1] \in Slashes
    BY <2>1, <2>2 DEF Slashes
  <2>4. ASSUME NEW k \in 1..Len(p), k > n + 1 PROVE p[k] \notin Slashes
    <3>1. k > a + 1 /\ k > b + 1
      BY <1>1, <1>5, <2>2, <2>3, <2>4
    <3> QED BY <1>9, <2>1, <3>1
  <2> QED BY <1>7, <2>3, <2>4 DEF LastIn
<1> QED BY <1>10, <1>11, <1>12

LEMMA LastInConcat ==
  ASSUME NEW u \in Seq(Chars), NEW p \in Seq(Chars), Len(u) + Len(p) <= Npos,
         NEW S, NEW n
  PROVE  /\ LastIn(p, S, n) /\ n # Npos => LastIn(u \o p, S, Len(u) + n)
         /\ LastIn(p, S, Npos) /\ LastIn(u, S, n) => LastIn(u \o p, S, n)
<1>1. PICK t : t = u \o p
  OBVIOUS
<1>2. /\ Len(u) \in Nat /\ Len(p) \in Nat /\ Npos \in Nat
      /\ Len(t) = Len(u) + Len(p)
      /\ \A k \in 1..(Len(u) + Len(p)) :
           t[k] = IF k <= Len(u) THEN u[k] ELSE p[k - Len(u)]
  BY <1>1, LenProperties, ConcatProperties, Room
<1>3. ASSUME LastIn(p, S, n), n # Npos PROVE LastIn(t, S, Len(u) + n)
  <2>1. /\ n \in 0..(Len(p) - 1) /\ p[n + 1] \in S
        /\ \A k \in 1..Len(p) : k > n + 1 => p[k] \notin S
    BY <1>3 DEF LastIn
  <2>2. Len(u) + n \in 0..(Len(t) - 1)
    BY <1>2, <2>1
  <2>4. t[Len(u) + n + 1] = p[n + 1]
    <3>1. PICK j : j = Len(u) + n + 1
      OBVIOUS
    <3>2. j \in 1..(Len(u) + Len(p)) /\ ~(j <= Len(u)) /\ j - Len(u) = n + 1
      BY <1>2, <2>1, <3>1
    <3>3. t[j] = p[j - Len(u)]
      BY <1>2, <3>2
    <3> QED BY <3>1, <3>2, <3>3
  <2>5. ASSUME NEW k \in 1..Len(t), k > Len(u) + n + 1 PROVE t[k] \notin S
    <3>1. k - Len(u) \in 1..Len(p) /\ k - Len(u) > n + 1 /\ ~(k <= Len(u))
      BY <1>2, <2>1, <2>5
    <3>2. t[k] = p[k - Len(u)]
      BY <1>2, <3>1
    <3> QED BY <2>1, <3>1, <3>2
  <2> QED BY <2>1, <2>2, <2>4, <2>5 DEF LastIn
<1>4. ASSUME LastIn(p, S, Npos), LastIn(u, S, n) PROVE LastIn(t, S, n)
  <2>1. \A k \in 1..Len(p) : p[k] \notin S
    BY <1>2, <1>4 DEF LastIn
  <2>2. ASSUME NEW k \in 1..Len(t), k > Len(u) PROVE t[k] \notin S
    <3>1. k - Len(u) \in 1..Len(p) /\ ~(k <= Len(u))
      BY <1>2, <2>2
    <3>2. t[k] = p[k - Len(u)]
      BY <1>2, <3>1
    <3> QED BY <2>1, <3>1, <3>2
  <2>3. \A k \in 1..Len(u) : t[k] = u[k] /\ k \in 1..Len(t)
    BY <1>2
  <2>4. \A k \in 1..Len(t) : k \in 1..Len(u) \/ k > Len(u)
    BY <1>2
  <2>5. CASE n = Npos
    <3>1. \A k \in 1..Len(u) : u[k] \notin S
      BY <1>2, <1>4, <2>5 DEF LastIn
    <3>2. \A k \in 1..Len(t) : t[k] \notin S
      BY <2>2, <2>3, <2>4, <3>1
    <3> QED BY <2>5, <3>2 DEF LastIn
  <2>6. CASE n # Npos
    <3>1. /\ n \in 0..(Len(u) - 1) /\ u[n + 1] \in S
          /\ \A k \in 1..Len(u) : k > n + 1 => u[k] \notin S
      BY <1>4, <2>6 DEF LastIn
    <3>2. n \in 0..(Len(t) - 1) /\ n + 1 \in 1..Len(u)
      BY <1>2, <3>1
    <3>3. t[n + 1] \in S
      BY <2>3, <3>1, <3>2
    <3>4. \A k \in 1..Len(t) : k > n + 1 => t[k] \notin S
      BY <2>2, <2>3, <2>4, <3>1
    <3> QED BY <3>2, <3>3, <3>4 DEF LastIn
  <2> QED BY <2>5, <2>6
<1> QED BY <1>1, <1>3, <1>4

-----------------------------------------------------------------------------
(* Parts of a path.                                                        *)

LEMMA CutFields ==
  ASSUME NEW p \in Seq(Chars), NEW n \in 0..Len(p)
  PROVE  /\ Cut(p, n) \in Seq(Chars) /\ Len(Cut(p, n)) = n
         /\ \A k \in 1..n : Cut(p, n)[k] = p[k]
<1>1. Len(p) \in Nat
  BY LenProperties
<1>2. \A k \in 1..n : k \in 1..Len(p) /\ 1 + k - 1 = k
  BY <1>1
<1>3. \A k \in 1..n : p[k] \in Chars
  BY <1>2, ElementOfSeq
<1>4. /\ SubSeq(p, 1, n) \in Seq(Chars)
      /\ Len(SubSeq(p, 1, n)) = IF 1 <= n THEN n - 1 + 1 ELSE 0
      /\ \A k \in 1..(n - 1 + 1) : SubSeq(p, 1, n)[k] = p[1 + k - 1]
  BY <1>1, <1>3, SubSeqProperties
<1>5. n - 1 + 1 = n
  BY <1>1
<1>6. Len(SubSeq(p, 1, n)) = n
  BY <1>1, <1>4
<1> QED BY <1>2, <1>4, <1>5, <1>6 DEF Cut

LEMMA AfterFields ==
  ASSUME NEW p \in Seq(Chars), NEW n \in 0..(Len(p) - 1)
  PROVE  /\ After(p, n) \in Seq(Chars) /\ Len(After(p, n)) = Len(p) - n - 1
         /\ \A k \in 1..(Len(p) - n - 1) : After(p, n)[k] = p[n + 1 + k]
<1>1. Len(p) \in Nat
  BY LenProperties
<1>2. \A k \in (n + 2)..Len(p) : k \in 1..Len(p)
  BY <1>1
<1>3. \A k \in (n + 2)..Len(p) : p[k] \in Chars
  BY <1>2, ElementOfSeq
<1>4. n + 2 \in Int /\ Len(p) \in Int
  BY <1>1
<1>5. PICK m : m = n + 2
  OBVIOUS
<1>6. PICK t : t = SubSeq(p, m, Len(p))
  OBVIOUS
<1>7. /\ t \in Seq(Chars)
      /\ Len(t) = IF m <= Len(p) THEN Len(p) - m + 1 ELSE 0
      /\ \A k \in 1..(Len(p) - m + 1) : t[k] = p[m + k - 1]
  BY <1>3, <1>4, <1>5, <1>6, SubSeqProperties
<1>8. Len(t) = Len(p) - n - 1
  BY <1>1, <1>5, <1>7
<1>9. \A k \in 1..(Len(p) - n - 1) : k \in 1..(Len(p) - m + 1) /\ m + k - 1 = n + 1 + k
  BY <1>1, <1>5
<1>10. t = After(p, n)
  BY <1>5, <1>6 DEF After
<1> QED BY <1>7, <1>8, <1>9, <1>10

\* u, the character c and v, one behind the other.
LEMMA JoinedFields ==
  ASSUME NEW u \in Seq(Chars), NEW c \in Chars, NEW v \in Seq(Chars), NEW t,
         t = u \o <<c>> \o v
  PROVE  /\ t \in Seq(Chars) /\ Len(t) = Len(u) + 1 + Len(v)
         /\ \A k \in 1..Len(u) : t[k] = u[k]
         /\ t[Len(u) + 1] = c
         /\ \A k \in 1..Len(v) : t[Len(u) + 1 + k] = v[k]
<1>1. PICK w : w = u \o <<c>>
  OBVIOUS
<1>2. <<c>> \in Seq(Chars) /\ Len(<<c>>) = 1 /\ <<c>>[1] = c
  OBVIOUS
<1>3. Len(u) \in Nat /\ Len(v) \in Nat
  BY LenProperties
<1>4. /\ w \in Seq(Chars) /\ Len(w) = Len(u) + 1
      /\ \A k \in 1..(Len(u) + 1) : w[k] = IF k <= Len(u) THEN u[k] ELSE <<c>>[k - Len(u)]
  BY <1>1, <1>2, ConcatProperties
<1>5. t = w \o v
  BY <1>1
<1>6. /\ t \in Seq(Chars) /\ Len(t) = Len(u) + 1 + Len(v)
      /\ \A k \in 1..(Len(u) + 1 + Len(v)) :
           t[k] = IF k <= Len(u) + 1 THEN w[k] ELSE v[k - (Len(u) + 1)]
  BY <1>4, <1>5, ConcatProperties
<1>7. ASSUME NEW k \in 1..Len(u) PROVE t[k] = u[k]
  <2>1. /\ k \in 1..(Len(u) + 1 + Len(v)) /\ k \in 1..(Len(u) + 1)
        /\ k <= Len(u) + 1 /\ k <= Len(u)
    BY <1>3
  <2> QED BY <1>4, <1>6, <2>1
<1>8. t[Len(u) + 1] = c
  <2>1. /\ Len(u) + 1 \in 1..(Len(u) + 1 + Len(v)) /\ Len(u) + 1 \in 1..(Len(u) + 1)
        /\ Len(u) + 1 <= Len(u) + 1 /\ ~(Len(u) + 1 <= Len(u))
        /\ Len(u) + 1 - Len(u) = 1
    BY <1>3
  <2> QED BY <1>2, <1>4, <1>6, <2>1
<1>9. ASSUME NEW k \in 1..Len(v) PROVE t[Len(u) + 1 + k] = v[k]
  <2>1. /\ Len(u) + 1 + k \in 1..(Len(u) + 1 + Len(v))
        /\ ~(Len(u) + 1 + k <= Len(u) + 1)
        /\ Len(u) + 1 + k - (Len(u) + 1) = k
    BY <1>3
  <2> QED BY <1>6, <2>1
<1> QED BY <1>6, <1>7, <1>8, <1>9

\* What is before a position, what is at it and what is after it.
LEMMA Parts ==
  ASSUME NEW p \in Seq(Chars), NEW n \in 0..(Len(p) - 1)
  PROVE  p[n + 1] \in Chars /\ p = Cut(p, n) \o <<p[n + 1]>> \o After(p, n)
<1>1. Len(p) \in Nat
  BY LenProperties
<1>2. n + 1 \in 1..Len(p) /\ n \in 0..Len(p)
  BY <1>1
<1>3. p[n + 1] \in Chars
  BY <1>2, ElementOfSeq
<1>4. PICK u : u = Cut(p, n)
  OBVIOUS
<1>5. PICK v : v = After(p, n)
  OBVIOUS
<1>6. PICK t : t = u \o <<p[n + 1]>> \o v
  OBVIOUS
<1>7. u \in Seq(Chars) /\ Len(u) = n /\ \A k \in 1..n : u[k] = p[k]
  BY <1>2, <1>4, CutFields
<1>8. /\ v \in Seq(Chars) /\ Len(v) = Len(p) - n - 1
      /\ \A k \in 1..(Len(p) - n - 1) : v[k] = p[n + 1 + k]
  BY <1>5, AfterFields
<1>9. /\ t \in Seq(Chars) /\ Len(t) = n + 1 + Len(v)
      /\ \A k \in 1..n : t[k] = u[k]
      /\ t[n + 1] = p[n + 1]
      /\ \A k \in 1..Len(v) : t[n + 1 + k] = v[k]
  <2>1. PICK c : c = p[n + 1]
    OBVIOUS
  <2>2. /\ t \in Seq(Chars) /\ Len(t) = Len(u) + 1 + Len(v)
        /\ \A k \in 1..Len(u) : t[k] = u[k]
        /\ t[Len(u) + 1] = c
        /\ \A k \in 1..Len(v) : t[Len(u) + 1 + k] = v[k]
    <3>1. c \in Chars /\ t = u \o <<c>> \o v /\ u \in Seq(Chars) /\ v \in Seq(Chars)
      BY <1>3, <1>6, <1>7, <1>8, <2>1
    <3> HIDE <1>7, <1>8
    <3> QED BY <3>1, JoinedFields
  <2> QED BY <1>7, <2>1, <2>2
<1>10. Len(t) = Len(p)
  BY <1>1, <1>8, <1>9
<1>11. ASSUME NEW k \in 1..Len(p) PROVE t[k] = p[k]
  <2>1. CASE k \in 1..n
    BY <1>7, <1>9, <2>1
  <2>2. CASE k = n + 1
    BY <1>9, <2>2
  <2>3. CASE k > n + 1
    <3>1. k - n - 1 \in 1..(Len(p) - n - 1) /\ n + 1 + (k - n - 1) = k
      BY <1>1, <2>3
    <3>2. v[k - n - 1] = p[k] /\ t[k] = v[k - n - 1]
      BY <1>8, <1>9, <3>1
    <3> QED BY <3>2
  <2>4. k \in 1..n \/ k = n + 1 \/ k > n + 1
    BY <1>1
  <2> QED BY <2>1, <2>2, <2>3, <2>4
<1>12. t = p
  BY <1>9, <1>10, <1>11, SeqEqual
<1> QED BY <1>3, <1>4, <1>5, <1>6, <1>12

\* The parts are found again in what was put together.
LEMMA FoundAgain ==
  ASSUME NEW u \in Seq(Chars), NEW c \in Chars, NEW v \in Seq(Chars)
  PROVE  /\ Cut(u \o <<c>> \o v, Len(u)) = u
         /\ After(u \o <<c>> \o v, Len(u)) = v
<1> SUFFICES ASSUME NEW t, t = u \o <<c>> \o v
             PROVE  Cut(t, Len(u)) = u /\ After(t, Len(u)) = v
  OBVIOUS
<1>1. /\ t \in Seq(Chars) /\ Len(t) = Len(u) + 1 + Len(v)
      /\ \A k \in 1..Len(u) : t[k] = u[k]
      /\ \A k \in 1..Len(v) : t[Len(u) + 1 + k] = v[k]
  BY JoinedFields
<1>2. PICK n : n = Len(u)
  OBVIOUS
<1>3. PICK m : m = Len(v)
  OBVIOUS
<1>4. n \in Nat /\ m \in Nat
  BY <1>2, <1>3, LenProperties
<1>5. n \in 0..(Len(t) - 1) /\ n \in 0..Len(t) /\ Len(t) - n - 1 = m
  BY <1>1, <1>2, <1>3, <1>4
<1>6. Cut(t, n) = u
  <2>1. /\ Cut(t, n) \in Seq(Chars) /\ Len(Cut(t, n)) = n
        /\ \A k \in 1..n : Cut(t, n)[k] = t[k]
    BY <1>1, <1>5, CutFields
  <2>2. \A k \in 1..Len(Cut(t, n)) : Cut(t, n)[k] = u[k]
    BY <1>1, <1>2, <2>1
  <2> QED BY <1>2, <2>1, <2>2, SeqEqual
<1>7. After(t, n) = v
  <2>1. /\ After(t, n) \in Seq(Chars) /\ Len(After(t, n)) = m
        /\ \A k \in 1..m : After(t, n)[k] = t[n + 1 + k]
    BY <1>1, <1>5, AfterFields
  <2>2. \A k \in 1..m : After(t, n)[k] = v[k]
    BY <1>1, <1>2, <1>3, <2>1
  <2> QED BY <1>3, <2>1, <2>2, SeqEqual
<1> QED BY <1>2, <1>6, <1>7

-----------------------------------------------------------------------------
(* Questions.                                                              *)

\* There is an extension when there is a dot and the last character is neither a
\* dot nor a slash.
LEMMA HasExtensionIs ==
  ASSUME NEW p \in Seq(Chars), Len(p) <= Npos
  PROVE  HasExtension(p) <=>
           /\ \E k \in 1..Len(p) : p[k] = "."
           /\ p[Len(p)] # "." /\ p[Len(p)] \notin Slashes
<1>1. Len(p) \in Nat /\ Npos \in Nat
  BY LenProperties, Room
<1>2. PICK d : d = FindLast(p, ".")
  OBVIOUS
<1>3. PICK l : l = LastSlash(p)
  OBVIOUS
<1>4. LastIn(p, {"."}, d) /\ LastIn(p, Slashes, l)
  BY <1>2, <1>3, FindLastFields, LastSlashFields
<1>5. HasExtension(p) <=> /\ d # Npos /\ d # Len(p) - 1
                          /\ l # Npos => l # Len(p) - 1
  BY <1>2, <1>3 DEF HasExtension
<1>6. d # Npos <=> \E k \in 1..Len(p) : p[k] = "."
  <2>1. CASE d = Npos
    <3>1. \A k \in 1..Len(p) : p[k] # "."
      BY <1>1, <1>4, <2>1 DEF LastIn
    <3> QED BY <2>1, <3>1
  <2>2. CASE d # Npos
    <3>1. d \in 0..(Len(p) - 1) /\ p[d + 1] = "."
      BY <1>4, <2>2 DEF LastIn
    <3>2. d + 1 \in 1..Len(p)
      BY <1>1, <3>1
    <3> QED BY <2>2, <3>1, <3>2
  <2> QED BY <2>1, <2>2
<1>7. ASSUME NEW S, NEW n, LastIn(p, S, n), Len(p) # 0
      PROVE  (n # Npos /\ n = Len(p) - 1) <=> p[Len(p)] \in S
  <2>1. Len(p) \in 1..Len(p) /\ Len(p) - 1 + 1 = Len(p)
    BY <1>1, <1>7
  <2>2. CASE n = Npos
    <3>1. \A k \in 1..Len(p) : p[k] \notin S
      BY <1>1, <1>7, <2>2 DEF LastIn
    <3> QED BY <2>1, <2>2, <3>1
  <2>3. CASE n # Npos
    <3>1. /\ n \in 0..(Len(p) - 1) /\ p[n + 1] \in S
          /\ \A k \in 1..Len(p) : k > n + 1 => p[k] \notin S
      BY <1>7, <2>3 DEF LastIn
    <3>2. n # Len(p) - 1 => Len(p) > n + 1
      BY <1>1, <3>1
    <3> QED BY <2>1, <2>3, <3>1, <3>2
  <2> QED BY <2>2, <2>3
<1>8. CASE Len(p) = 0
  <2>1. ~(\E k \in 1..Len(p) : p[k] = ".")
    BY <1>8
  <2> QED BY <1>5, <1>6, <2>1
<1>9. CASE Len(p) # 0
  <2>1. (d # Npos /\ d = Len(p) - 1) <=> p[Len(p)] \in {"."}
    BY <1>4, <1>7, <1>9
  <2>2. (l # Npos /\ l = Len(p) - 1) <=> p[Len(p)] \in Slashes
    BY <1>4, <1>7, <1>9
  <2> QED BY <1>5, <1>6, <2>1, <2>2
<1> QED BY <1>8, <1>9

\* Where the dot and the slash of a path with an extension are.
LEMMA ExtensionPlaces ==
  ASSUME NEW p \in Seq(Chars), Len(p) <= Npos, HasExtension(p)
  PROVE  /\ Len(p) \in Nat \ {0} /\ FindLast(p, ".") # Npos
         /\ FindLast(p, ".") \in 0..(Len(p) - 1) /\ FindLast(p, ".") < Len(p) - 1
         /\ p[FindLast(p, ".") + 1] = "."
         /\ \/ LastSlash(p) = Npos /\ \A k \in 1..Len(p) : p[k] \notin Slashes
            \/ /\ LastSlash(p) # Npos
               /\ LastSlash(p) \in 0..(Len(p) - 1) /\ LastSlash(p) < Len(p) - 1
               /\ p[LastSlash(p) + 1] \in Slashes
               /\ \A k \in 1..Len(p) : k > LastSlash(p) + 1 => p[k] \notin Slashes
<1>1. Len(p) \in Nat /\ Npos \in Nat
  BY LenProperties, Room
<1>2. PICK d : d = FindLast(p, ".")
  OBVIOUS
<1>3. PICK l : l = LastSlash(p)
  OBVIOUS
<1>4. LastIn(p, {"."}, d) /\ LastIn(p, Slashes, l)
  BY <1>2, <1>3, FindLastFields, LastSlashFields
<1>5. d # Npos /\ d # Len(p) - 1 /\ (l # Npos => l # Len(p) - 1)
  BY <1>2, <1>3 DEF HasExtension
<1>6. d \in 0..(Len(p) - 1) /\ p[d + 1] = "."
  BY <1>4, <1>5 DEF LastIn
<1>7. Len(p) # 0 /\ d < Len(p) - 1
  BY <1>1, <1>5, <1>6
<1>8. CASE l = Npos
  <2>1. \A k \in 1..Len(p) : p[k] \notin Slashes
    BY <1>1, <1>4, <1>8 DEF LastIn
  <2> QED BY <1>1, <1>2, <1>3, <1>5, <1>6, <1>7, <1>8, <2>1
<1>9. CASE l # Npos
  <2>1. /\ l \in 0..(Len(p) - 1) /\ p[l + 1] \in Slashes
        /\ \A k \in 1..Len(p) : k > l + 1 => p[k] \notin Slashes
    BY <1>4, <1>9 DEF LastIn
  <2>2. l < Len(p) - 1
    BY <1>1, <1>5, <1>9, <2>1
  <2> QED BY <1>1, <1>2, <1>3, <1>5, <1>6, <1>7, <1>9, <2>1, <2>2
<1> QED BY <1>8, <1>9

\* A path with a file name is the name, or what is before the last slash, the slash
\* and the name.
LEMMA NameFields ==
  ASSUME NEW p \in Seq(Chars), Len(p) <= Npos, HasFilename(p)
  PROVE  /\ Filename(p) \in Seq(Chars) /\ FilenameRemoved(p) \in Seq(Chars)
         /\ Filename(p) # <<>> /\ Len(FilenameRemoved(p)) <= Len(p)
         /\ \A k \in 1..Len(Filename(p)) : Filename(p)[k] \notin Slashes
         /\ \/ FilenameRemoved(p) = <<>> /\ p = Filename(p)
            \/ \E c \in Slashes :
                 p = FilenameRemoved(p) \o <<c>> \o Filename(p)
<1>1. HasExtension(p)
  BY DEF HasFilename
<1>2. Len(p) \in Nat \ {0}
  BY <1>1, ExtensionPlaces
<1>3. CASE LastSlash(p) = Npos
  <2>1. Filename(p) = p /\ FilenameRemoved(p) = <<>>
    BY <1>3 DEF Filename, FilenameRemoved
  <2>2. \A k \in 1..Len(p) : p[k] \notin Slashes
    BY <1>1, <1>3, ExtensionPlaces
  <2>3. <<>> \in Seq(Chars) /\ Len(<<>>) = 0
    OBVIOUS
  <2>4. p # <<>>
    BY <1>2, <2>3
  <2>5. Len(<<>>) <= Len(p)
    BY <1>2, <2>3
  <2> QED BY <2>1, <2>2, <2>3, <2>4, <2>5
<1>4. CASE LastSlash(p) # Npos
  <2>1. PICK l : l = LastSlash(p)
    OBVIOUS
  <2>2. /\ l \in 0..(Len(p) - 1) /\ l < Len(p) - 1 /\ p[l + 1] \in Slashes
        /\ \A k \in 1..Len(p) : k > l + 1 => p[k] \notin Slashes
    BY <1>1, <1>4, <2>1, ExtensionPlaces
  <2>3. Filename(p) = After(p, l) /\ FilenameRemoved(p) = Cut(p, l)
    BY <1>4, <2>1 DEF Filename, FilenameRemoved
  <2>4. /\ After(p, l) \in Seq(Chars) /\ Len(After(p, l)) = Len(p) - l - 1
        /\ \A k \in 1..(Len(p) - l - 1) : After(p, l)[k] = p[l + 1 + k]
    BY <2>2, AfterFields
  <2>5. Cut(p, l) \in Seq(Chars) /\ Len(Cut(p, l)) = l
    <3>1. l \in 0..Len(p)
      BY <1>2, <2>2
    <3> QED BY <3>1, CutFields
  <2>6. PICK v : v = After(p, l)
    OBVIOUS
  <2>7. Len(v) # 0 /\ l <= Len(p)
    BY <1>2, <2>2, <2>4, <2>6
  <2>8. v # <<>>
    BY <2>7
  <2>9. ASSUME NEW k \in 1..Len(v) PROVE v[k] \notin Slashes
    <3>1. k \in 1..(Len(p) - l - 1) /\ l + 1 + k \in 1..Len(p) /\ l + 1 + k > l + 1
      BY <1>2, <2>2, <2>4, <2>6
    <3>2. v[k] = p[l + 1 + k]
      BY <2>4, <2>6, <3>1
    <3> QED BY <2>2, <3>1, <3>2
  <2>10. p = Cut(p, l) \o <<p[l + 1]>> \o After(p, l)
    BY <2>2, Parts
  <2>11. Len(Cut(p, l)) <= Len(p)
    BY <2>5, <2>7
  <2>12. \E c \in Slashes : p = Cut(p, l) \o <<c>> \o After(p, l)
    BY <2>2, <2>10
  <2> QED BY <2>3, <2>4, <2>5, <2>6, <2>8, <2>9, <2>11, <2>12
<1> QED BY <1>3, <1>4

LEMMA ExtensionFields ==
  ASSUME NEW p \in Seq(Chars), Len(p) <= Npos, HasExtension(p)
  PROVE  /\ Extension(p) \in Seq(Chars) /\ ExtensionRemoved(p) \in Seq(Chars)
         /\ Len(ExtensionRemoved(p)) = FindLast(p, ".")
         /\ p = ExtensionRemoved(p) \o <<".">> \o Extension(p)
<1>1. PICK d : d = FindLast(p, ".")
  OBVIOUS
<1>2. Len(p) \in Nat /\ d \in 0..(Len(p) - 1) /\ p[d + 1] = "."
  BY <1>1, ExtensionPlaces
<1>3. Extension(p) = After(p, d) /\ ExtensionRemoved(p) = Cut(p, d)
  BY <1>1 DEF Extension, ExtensionRemoved
<1>4. d \in 0..Len(p)
  BY <1>2
<1>5. After(p, d) \in Seq(Chars)
  BY <1>2, AfterFields
<1>6. Cut(p, d) \in Seq(Chars) /\ Len(Cut(p, d)) = d
  BY <1>4, CutFields
<1>7. p = Cut(p, d) \o <<p[d + 1]>> \o After(p, d)
  BY <1>2, Parts
<1>8. p = Cut(p, d) \o <<".">> \o After(p, d)
  BY <1>2, <1>7
<1> QED BY <1>1, <1>3, <1>5, <1>6, <1>8

\* A path with a file name behind anything that ends in a slash keeps the name, and
\* the slash counts as the one before it when the path has none.
LEMMA NameBehind ==
  ASSUME NEW u \in Seq(Chars), NEW p \in Seq(Chars), HasFilename(p),
         Len(u) + 1 + Len(p) <= Npos, NEW q, q = u \o <<"\\">> \o p
  PROVE  /\ q \in Seq(Chars) /\ Len(q) = Len(u) + 1 + Len(p)
         /\ HasFilename(q) /\ Filename(q) = Filename(p)
         /\ LastSlash(p) = Npos => FilenameRemoved(q) = u
<1>1. "\\" \in Chars
  BY PathAssumption
<1>2. Len(u) \in Nat /\ Len(p) \in Nat /\ Npos \in Nat /\ Len(p) <= Npos
  BY LenProperties, Room
<1>3. PICK b : b = u \o <<"\\">>
  OBVIOUS
<1>4. b \in Seq(Chars) /\ Len(b) = Len(u) + 1 /\ b[Len(u) + 1] = "\\"
  <2>1. <<"\\">> \in Seq(Chars) /\ Len(<<"\\">>) = 1 /\ <<"\\">>[1] = "\\"
    BY <1>1
  <2>2. /\ b \in Seq(Chars) /\ Len(b) = Len(u) + 1
        /\ \A k \in 1..(Len(u) + 1) :
             b[k] = IF k <= Len(u) THEN u[k] ELSE <<"\\">>[k - Len(u)]
    BY <1>3, <2>1, ConcatProperties
  <2>3. /\ Len(u) + 1 \in 1..(Len(u) + 1) /\ ~(Len(u) + 1 <= Len(u))
        /\ Len(u) + 1 - Len(u) = 1
    BY <1>2
  <2> QED BY <2>1, <2>2, <2>3
<1>5. q = b \o p
  BY <1>3
<1>6. /\ q \in Seq(Chars) /\ Len(q) = Len(u) + 1 + Len(p)
      /\ \A k \in 1..Len(u) : q[k] = u[k]
      /\ q[Len(u) + 1] = "\\"
      /\ \A k \in 1..Len(p) : q[Len(u) + 1 + k] = p[k]
  BY <1>1, JoinedFields
<1>7. HasExtension(p)
  BY DEF HasFilename
<1>8. /\ Len(p) # 0 /\ p[Len(p)] # "." /\ p[Len(p)] \notin Slashes
      /\ \E k \in 1..Len(p) : p[k] = "."
  BY <1>2, <1>7, HasExtensionIs
<1>9. Len(p) \in 1..Len(p) /\ Len(q) = Len(u) + 1 + Len(p)
  BY <1>2, <1>6, <1>8
<1>10. q[Len(q)] = p[Len(p)]
  BY <1>6, <1>9
<1>11. \E k \in 1..Len(q) : q[k] = "."
  <2>1. PICK k \in 1..Len(p) : p[k] = "."
    BY <1>8
  <2>2. Len(u) + 1 + k \in 1..Len(q) /\ q[Len(u) + 1 + k] = "."
    BY <1>2, <1>6, <2>1
  <2> QED BY <2>2
<1>12. HasExtension(q)
  BY <1>6, <1>8, <1>10, <1>11, HasExtensionIs
<1>13. HasFilename(q)
  BY <1>12 DEF HasFilename
<1>14. LastIn(p, Slashes, LastSlash(p)) /\ LastIn(q, Slashes, LastSlash(q))
  BY <1>2, <1>6, LastSlashFields
<1>15. Len(b) + Len(p) <= Npos
  BY <1>2, <1>4
<1>16. CASE LastSlash(p) = Npos
  <2>1. LastIn(b, Slashes, Len(u))
    <3>1. Len(u) \in 0..(Len(b) - 1) /\ \A k \in 1..Len(b) : ~(k > Len(u) + 1)
      BY <1>2, <1>4
    <3>2. b[Len(u) + 1] \in Slashes
      BY <1>4 DEF Slashes
    <3> QED BY <3>1, <3>2 DEF LastIn
  <2>2. LastIn(q, Slashes, Len(u))
    BY <1>4, <1>5, <1>14, <1>15, <1>16, <2>1, LastInConcat
  <2>3. LastSlash(q) = Len(u)
    BY <1>6, <1>14, <2>2, LastUnique
  <2>4. Len(u) # Npos
    BY <1>2
  <2>5. Filename(q) = After(q, Len(u)) /\ FilenameRemoved(q) = Cut(q, Len(u))
    BY <1>13, <2>3, <2>4 DEF Filename, FilenameRemoved
  <2>6. After(q, Len(u)) = p /\ Cut(q, Len(u)) = u
    BY <1>1, FoundAgain
  <2>7. Filename(p) = p
    BY <1>16 DEF Filename
  <2> QED BY <1>6, <1>13, <2>5, <2>6, <2>7
<1>17. CASE LastSlash(p) # Npos
  <2>1. PICK l : l = LastSlash(p)
    OBVIOUS
  <2>2. l \in 0..(Len(p) - 1) /\ l < Len(p) - 1
    BY <1>2, <1>7, <1>17, <2>1, ExtensionPlaces
  <2>3. LastIn(q, Slashes, Len(b) + l)
    BY <1>4, <1>5, <1>14, <1>15, <1>17, <2>1, LastInConcat
  <2>4. PICK m : m = Len(u) + 1 + l
    OBVIOUS
  <2>5. LastSlash(q) = m
    BY <1>4, <1>6, <1>14, <2>3, <2>4, LastUnique
  <2>6. m # Npos /\ m \in 0..(Len(q) - 1) /\ Len(q) - m - 1 = Len(p) - l - 1
    BY <1>2, <1>6, <2>2, <2>4
  <2>7. Filename(q) = After(q, m) /\ Filename(p) = After(p, l)
    BY <1>13, <1>17, <2>1, <2>5, <2>6 DEF Filename
  <2>8. /\ After(q, m) \in Seq(Chars) /\ Len(After(q, m)) = Len(p) - l - 1
        /\ \A k \in 1..(Len(p) - l - 1) : After(q, m)[k] = q[m + 1 + k]
    BY <1>6, <2>6, AfterFields
  <2>9. /\ After(p, l) \in Seq(Chars) /\ Len(After(p, l)) = Len(p) - l - 1
        /\ \A k \in 1..(Len(p) - l - 1) : After(p, l)[k] = p[l + 1 + k]
    BY <2>2, AfterFields
  <2>10. ASSUME NEW k \in 1..(Len(p) - l - 1) PROVE q[m + 1 + k] = p[l + 1 + k]
    <3>1. PICK j : j = l + 1 + k
      OBVIOUS
    <3>2. j \in 1..Len(p) /\ Len(u) + 1 + j = m + 1 + k
      BY <1>2, <2>2, <2>4, <3>1
    <3>3. q[Len(u) + 1 + j] = p[j]
      BY <1>6, <3>2
    <3> QED BY <3>1, <3>2, <3>3
  <2>11. After(q, m) = After(p, l)
    <3>1. PICK s : s = After(q, m)
      OBVIOUS
    <3>2. PICK t : t = After(p, l)
      OBVIOUS
    <3>3. /\ s \in Seq(Chars) /\ t \in Seq(Chars) /\ Len(s) = Len(t)
          /\ \A k \in 1..Len(s) : s[k] = t[k]
      BY <2>8, <2>9, <2>10, <3>1, <3>2
    <3>4. s = t
      BY <3>3, SeqEqual
    <3> QED BY <3>1, <3>2, <3>4
  <2> QED BY <1>6, <1>13, <1>17, <2>7, <2>11
<1> QED BY <1>16, <1>17

-----------------------------------------------------------------------------
(* The inductive invariant: a string of characters, not too long.          *)

IInv == path \in Seq(Chars) /\ Len(path) <= MaxLength

LEMMA Short ==
  IInv => /\ path \in Seq(Chars) /\ Len(path) \in Nat
          /\ Len(path) <= MaxLength /\ Len(path) <= Npos
<1> SUFFICES ASSUME IInv
             PROVE  /\ path \in Seq(Chars) /\ Len(path) \in Nat
                    /\ Len(path) <= MaxLength /\ Len(path) <= Npos
  OBVIOUS
<1>1. path \in Seq(Chars) /\ Len(path) <= MaxLength
  BY DEF IInv
<1>2. Len(path) \in Nat
  BY <1>1, LenProperties
<1>3. Len(path) <= Npos
  BY <1>1, <1>2, Room
<1> QED BY <1>1, <1>2, <1>3

LEMMA AddsUp == IInv => PartsAddUp
<1> SUFFICES ASSUME IInv PROVE PartsAddUp
  OBVIOUS
<1>1. path \in Seq(Chars) /\ Len(path) <= Npos
  BY Short
<1>2. ASSUME HasFilename(path)
      PROVE  /\ Filename(path) # <<>>
             /\ \A k \in DOMAIN Filename(path) : ~IsSlash(Filename(path)[k])
             /\ \/ FilenameRemoved(path) = <<>> /\ path = Filename(path)
                \/ \E c \in {"\\", "/"} :
                     path = FilenameRemoved(path) \o <<c>> \o Filename(path)
  <2>1. DOMAIN Filename(path) = 1..Len(Filename(path))
    BY <1>1, <1>2, NameFields, LenProperties
  <2>2. \A k \in 1..Len(Filename(path)) : Filename(path)[k] \notin Slashes
    BY <1>1, <1>2, NameFields
  <2>3. \A k \in DOMAIN Filename(path) : ~IsSlash(Filename(path)[k])
    BY <2>1, <2>2 DEF IsSlash, Slashes
  <2>4. \/ FilenameRemoved(path) = <<>> /\ path = Filename(path)
        \/ \E c \in Slashes :
             path = FilenameRemoved(path) \o <<c>> \o Filename(path)
    BY <1>1, <1>2, NameFields
  <2>5. Filename(path) # <<>>
    BY <1>1, <1>2, NameFields
  <2> QED BY <2>3, <2>4, <2>5 DEF Slashes
<1>3. ASSUME HasExtension(path)
      PROVE  path = ExtensionRemoved(path) \o <<".">> \o Extension(path)
  BY <1>1, <1>3, ExtensionFields
<1> QED BY <1>2, <1>3 DEF PartsAddUp

\* The system reads what is before the first terminator.
LEMMA SeenBefore ==
  ASSUME NEW u \in Seq(Chars \ {"nul"}), NEW v \in Seq(Chars), NEW t,
         t = u \o <<"nul">> \o v
  PROVE  Seen(t) = u
<1>1. u \in Seq(Chars) /\ "nul" \in Chars
  BY SeqMonotonic, PathAssumption
<1>2. /\ t \in Seq(Chars) /\ Len(t) = Len(u) + 1 + Len(v)
      /\ \A k \in 1..Len(u) : t[k] = u[k]
      /\ t[Len(u) + 1] = "nul"
  BY <1>1, JoinedFields
<1>3. Len(u) \in Nat /\ Len(v) \in Nat /\ DOMAIN t = 1..Len(t)
  BY <1>2, LenProperties
<1>4. \A k \in 1..Len(u) : u[k] # "nul"
  <2>1. \A k \in 1..Len(u) : u[k] \in Chars \ {"nul"}
    BY ElementOfSeq
  <2> QED BY <2>1
<1> DEFINE ends == {k \in DOMAIN t : t[k] = "nul"}
<1>5. Len(u) + 1 \in ends
  BY <1>2, <1>3
<1>6. \A k \in ends : k \in Nat /\ k >= Len(u) + 1
  BY <1>2, <1>3, <1>4
<1>7. ends \in SUBSET Nat /\ ends # {}
  BY <1>5, <1>6
<1>8. Seen(t) = Cut(t, Min(ends) - 1)
  BY <1>7 DEF Seen
<1>9. Min(ends) = Len(u) + 1
  <2>1. Min(ends) \in ends /\ \A k \in ends : Min(ends) <= k
    <3> HIDE DEF ends
    <3> QED BY <1>7, MinFields
  <2>2. PICK m : m = Min(ends)
    OBVIOUS
  <2>3. m \in Nat /\ m >= Len(u) + 1 /\ m <= Len(u) + 1
    <3> HIDE DEF ends
    <3> QED BY <1>5, <1>6, <2>1, <2>2
  <2>4. m = Len(u) + 1
    BY <1>3, <2>3
  <2> QED BY <2>2, <2>4
<1>10. Min(ends) - 1 = Len(u)
  <2> HIDE DEF ends
  <2> QED BY <1>3, <1>9
<1>11. Cut(t, Len(u)) = u
  BY <1>1, FoundAgain
<1> QED BY <1>8, <1>10, <1>11

LEMMA Made == IInv => MadeWhole
<1> SUFFICES ASSUME IInv PROVE MadeWhole
  OBVIOUS
<1>1. /\ path \in Seq(Chars) /\ Len(path) \in Nat /\ Npos \in Nat /\ MaxLength \in Nat
      /\ Len(path) <= MaxLength /\ Len(path) <= Npos
  BY Short, Room
<1>2. ASSUME NEW before \in Folders, NEW now \in Folders
      PROVE  Seen(InFolder(path, before, now)) \in {now, Seen(<<"\\">> \o path)}
  <2>1. now \in Seq(Chars \ {"nul"})
    BY Room
  <2>2. CASE Len(now) = Len(before)
    <3>1. InFolder(path, before, now) = Append(now, "nul") \o <<"\\">> \o path
      BY <2>2 DEF InFolder, CurrentPath
    <3>2. now \in Seq(Chars) /\ {"nul", "\\"} \subseteq Chars
      BY <2>1, SeqMonotonic, PathAssumption
    <3>3. Append(now, "nul") = now \o <<"nul">>
      BY <3>2, AppendIsConcat
    <3>4. <<"nul">> \in Seq(Chars) /\ <<"\\">> \in Seq(Chars)
      BY <3>2
    <3>5. <<"\\">> \o path \in Seq(Chars)
      BY <1>1, <3>4, ConcatProperties
    <3>6. now \o <<"nul">> \in Seq(Chars)
      BY <3>2, <3>4, ConcatProperties
    <3>7. now \o <<"nul">> \o <<"\\">> \o path = now \o <<"nul">> \o (<<"\\">> \o path)
      BY <1>1, <3>4, <3>6, ConcatAssociative
    <3>8. PICK v : v = <<"\\">> \o path
      OBVIOUS
    <3>9. InFolder(path, before, now) = now \o <<"nul">> \o v
      BY <3>1, <3>3, <3>7, <3>8
    <3>10. Seen(InFolder(path, before, now)) = now
      BY <2>1, <3>5, <3>8, <3>9, SeenBefore
    <3> QED BY <3>10
  <2>3. CASE Len(now) # Len(before)
    <3>1. InFolder(path, before, now) = <<>> \o <<"\\">> \o path
      BY <2>3 DEF InFolder, CurrentPath
    <3>2. <<"\\">> \in Seq(Chars)
      BY PathAssumption
    <3>3. <<>> \o <<"\\">> = <<"\\">>
      BY <3>2, ConcatEmptySeq
    <3> QED BY <3>1, <3>3
  <2> QED BY <2>2, <2>3
<1>3. ASSUME NEW exe \in Executables, HasFilename(path)
      PROVE  Filename(ByExecutable(path, exe)) = Filename(path)
  <2>1. /\ exe \in Seq(Chars) /\ Len(exe) \in Nat
        /\ 2 * MaxLength + 2 * Len(exe) + 4 <= Npos
    BY Room
  <2>2. exe # <<>>
    BY PathAssumption
  <2>3. PICK u : u = FilenameRemoved(exe)
    OBVIOUS
  <2>4. u \in Seq(Chars) /\ Len(u) <= Len(exe)
    <3>1. CASE HasFilename(exe)
      <4>1. Len(exe) <= Npos
        BY <1>1, <2>1
      <4> QED BY <2>1, <2>3, <3>1, <4>1, NameFields
    <3>2. CASE ~HasFilename(exe)
      BY <2>1, <2>3, <3>2 DEF FilenameRemoved
    <3> QED BY <3>1, <3>2
  <2>5. ByExecutable(path, exe) = u \o <<"\\">> \o path
    BY <2>2, <2>3 DEF ByExecutable
  <2>6. Len(u) + 1 + Len(path) <= Npos
    <3>1. Len(u) \in Nat
      BY <2>4, LenProperties
    <3> QED BY <1>1, <2>1, <2>4, <3>1
  <2> QED BY <1>1, <1>3, <2>4, <2>5, <2>6, NameBehind
<1> QED BY <1>2, <1>3 DEF MadeWhole

LEMMA NoSlash ==
  ASSUME NEW r \in Seq(Chars), Len(r) <= Npos, PlainName(r)
  PROVE  /\ LastSlash(r) = Npos /\ Len(r) \in Nat \ {0} /\ r[Len(r)] \notin Slashes
         /\ \A k \in 1..Len(r) : r[k] \notin Slashes
<1>1. Len(r) \in Nat \ {0} /\ DOMAIN r = 1..Len(r)
  BY EmptySeq, LenProperties DEF PlainName
<1>2. \A k \in 1..Len(r) : r[k] \notin Slashes
  BY <1>1 DEF PlainName, IsSlash, Slashes
<1>3. LastIn(r, Slashes, LastSlash(r)) /\ LastIn(r, Slashes, Npos)
  BY <1>2, LastSlashFields DEF LastIn
<1>4. LastSlash(r) = Npos
  BY <1>3, LastUnique
<1> QED BY <1>1, <1>2, <1>4

LEMMA NameFound ==
  ASSUME IInv, NEW r \in Inputs, HasFilename(path), HasFilename(r), PlainName(r)
  PROVE  LET p == FilenameReplaced(path, r) IN
         /\ Filename(p) = r
         /\ FilenameRemoved(p) = FilenameRemoved(path)
         /\ FilenameReplaced(p, Filename(path)) =
              FilenameRemoved(path) \o <<"\\">> \o Filename(path)
         /\ IsAbsolute(p) <=> IsAbsolute(path) \/ FilenameRemoved(path) = <<>>
<1>1. /\ path \in Seq(Chars) /\ Len(path) \in Nat /\ Npos \in Nat /\ MaxLength \in Nat
      /\ Len(path) <= MaxLength /\ Len(path) <= Npos
  BY Short, Room
<1>2. /\ r \in Seq(Chars) /\ Len(r) \in Nat
      /\ 2 * MaxLength + 2 * Len(r) + 4 <= Npos
  BY Room
<1>3. PICK u : u = FilenameRemoved(path)
  OBVIOUS
<1>4. u \in Seq(Chars) /\ Len(u) <= Len(path) /\ Len(u) \in Nat
  BY <1>1, <1>3, NameFields, LenProperties
<1>5. PICK p : p = FilenameReplaced(path, r)
  OBVIOUS
<1>6. p = u \o <<"\\">> \o r
  BY <1>3, <1>5 DEF FilenameReplaced
<1>7. Len(u) + 1 + Len(r) <= Npos /\ Len(r) <= Npos
  BY <1>1, <1>2, <1>4
<1>8. LastSlash(r) = Npos /\ Len(r) # 0
  BY <1>2, <1>7, NoSlash
<1>9. Filename(p) = Filename(r) /\ FilenameRemoved(p) = u
  BY <1>2, <1>4, <1>6, <1>7, <1>8, NameBehind
<1>10. Filename(r) = r
  BY <1>8 DEF Filename
<1>11. /\ p \in Seq(Chars) /\ Len(p) = Len(u) + 1 + Len(r)
       /\ \A k \in 1..Len(u) : p[k] = u[k]
       /\ p[Len(u) + 1] = "\\"
  <2>1. "\\" \in Chars
    BY PathAssumption
  <2> QED BY <1>2, <1>4, <1>6, <2>1, JoinedFields
<1>12. p # <<>> /\ path # <<>>
  <2>1. Len(<<>>) = 0 /\ Len(p) # 0
    BY <1>2, <1>4, <1>8, <1>11
  <2>2. Len(path) # 0
    BY <1>1, ExtensionPlaces DEF HasFilename
  <2> QED BY <2>1, <2>2
<1>13. FilenameReplaced(p, Filename(path)) = u \o <<"\\">> \o Filename(path)
  <2>1. HasFilename(p)
    <3>1. r # <<>>
      BY DEF PlainName
    <3> QED BY <1>9, <1>10, <3>1 DEF Filename
  <2> QED BY <1>9, <2>1 DEF FilenameReplaced
<1>14. CASE u = <<>>
  <2>1. p[1] = "\\"
    <3>1. Len(u) = 0
      BY <1>14
    <3> QED BY <1>11, <3>1
  <2>2. IsAbsolute(p)
    BY <1>12, <2>1 DEF IsAbsolute, IsSlash
  <2> QED BY <1>3, <1>5, <1>9, <1>10, <1>13, <1>14, <2>2
<1>15. CASE u # <<>>
  <2>1. LastSlash(path) # Npos
    BY <1>3, <1>15 DEF FilenameRemoved
  <2>2. PICK l : l = LastSlash(path)
    OBVIOUS
  <2>3. l \in 0..(Len(path) - 1) /\ path[l + 1] \in Slashes
    BY <1>1, <2>1, <2>2, ExtensionPlaces DEF HasFilename
  <2>4. u = Cut(path, l) /\ l \in 0..Len(path)
    BY <1>1, <1>3, <2>1, <2>2, <2>3 DEF FilenameRemoved
  <2>5. Len(u) = l /\ (\A k \in 1..l : u[k] = path[k]) /\ l # 0
    <3>1. Len(u) = l /\ \A k \in 1..l : u[k] = path[k]
      BY <1>1, <2>4, CutFields
    <3>2. Len(u) # 0
      BY <1>4, <1>15, EmptySeq
    <3> QED BY <3>1, <3>2
  <2>6. (\A k \in 1..l : p[k] = path[k]) /\ p[l + 1] = "\\"
    BY <1>11, <2>5
  <2>7. 1 \in 1..l /\ p[1] = path[1] /\ Len(p) >= l + 2 /\ Len(path) >= l + 1
    BY <1>1, <1>2, <1>8, <1>11, <2>3, <2>5, <2>6
  <2>8. HasDrive(p) <=> HasDrive(path)
    <3>1. CASE l = 1
      <4>1. path[2] # ":" /\ p[2] # ":"
        BY <2>3, <2>6, <3>1 DEF Slashes
      <4> QED BY <4>1 DEF HasDrive
    <3>2. CASE l = 2
      <4>1. path[3] \in Slashes /\ p[3] \in Slashes /\ p[2] = path[2]
        BY <2>3, <2>6, <3>2 DEF Slashes
      <4>2. Len(path) >= 3 /\ Len(p) >= 3
        BY <1>1, <1>11, <2>7, <3>2
      <4> QED BY <2>7, <4>1, <4>2 DEF HasDrive, IsSlash, Slashes
    <3>3. CASE l >= 3
      <4>1. p[2] = path[2] /\ p[3] = path[3]
        <5>1. 2 \in 1..l /\ 3 \in 1..l
          BY <1>1, <2>3, <3>3
        <5> QED BY <2>6, <5>1
      <4>2. Len(path) >= 3 /\ Len(p) >= 3
        BY <1>1, <1>2, <1>11, <2>5, <2>7, <3>3
      <4> QED BY <2>7, <4>1, <4>2 DEF HasDrive
    <3>4. l = 1 \/ l = 2 \/ l >= 3
      BY <1>1, <2>3, <2>5
    <3> QED BY <3>1, <3>2, <3>3, <3>4
  <2>9. IsAbsolute(p) <=> IsAbsolute(path)
    BY <1>12, <2>7, <2>8 DEF IsAbsolute
  <2> QED BY <1>3, <1>5, <1>9, <1>10, <1>13, <1>15, <2>9
<1> QED BY <1>14, <1>15

LEMMA ExtensionFound ==
  ASSUME IInv, NEW r \in Inputs, HasExtension(path), PlainName(r),
         FindLast(r, ".") = Npos
  PROVE  LET p == ExtensionReplaced(path, r) IN
         /\ Extension(p) = r
         /\ ExtensionReplaced(p, Extension(path)) = path
<1>1. /\ path \in Seq(Chars) /\ Len(path) \in Nat /\ Npos \in Nat /\ MaxLength \in Nat
      /\ Len(path) <= MaxLength /\ Len(path) <= Npos
  BY Short, Room
<1>2. /\ r \in Seq(Chars) /\ Len(r) \in Nat
      /\ 2 * MaxLength + 2 * Len(r) + 4 <= Npos
  BY Room
<1>3. PICK u : u = ExtensionRemoved(path)
  OBVIOUS
<1>4. PICK e : e = Extension(path)
  OBVIOUS
<1>5. /\ u \in Seq(Chars) /\ e \in Seq(Chars) /\ path = u \o <<".">> \o e
      /\ Len(u) \in Nat /\ Len(u) <= Len(path)
  <2>1. /\ u \in Seq(Chars) /\ e \in Seq(Chars) /\ path = u \o <<".">> \o e
        /\ Len(u) = FindLast(path, ".")
    BY <1>1, <1>3, <1>4, ExtensionFields
  <2>2. FindLast(path, ".") \in 0..(Len(path) - 1)
    BY <1>1, ExtensionPlaces
  <2> QED BY <1>1, <2>1, <2>2
<1>6. PICK p : p = ExtensionReplaced(path, r)
  OBVIOUS
<1>7. p = u \o <<".">> \o r
  BY <1>3, <1>6 DEF ExtensionReplaced
<1>8. "." \in Chars
  BY PathAssumption
<1>9. /\ p \in Seq(Chars) /\ Len(p) = Len(u) + 1 + Len(r)
      /\ p[Len(u) + 1] = "."
      /\ \A k \in 1..Len(r) : p[Len(u) + 1 + k] = r[k]
  BY <1>2, <1>5, <1>7, <1>8, JoinedFields
<1>10. Len(r) <= Npos /\ Len(p) <= Npos
  BY <1>1, <1>2, <1>5, <1>9
<1>11. Len(r) # 0 /\ r[Len(r)] \notin Slashes /\ Len(r) \in 1..Len(r)
  BY <1>2, <1>10, NoSlash
<1>12. \A k \in 1..Len(r) : r[k] # "."
  <2>1. LastIn(r, {"."}, Npos)
    BY <1>2, <1>10, FindLastFields
  <2> QED BY <1>1, <1>2, <1>10, <2>1 DEF LastIn
<1>13. LastIn(p, {"."}, Len(u))
  <2>1. Len(u) \in 0..(Len(p) - 1)
    BY <1>2, <1>5, <1>9
  <2>2. ASSUME NEW k \in 1..Len(p), k > Len(u) + 1 PROVE p[k] \notin {"."}
    <3>1. PICK j : j = k - (Len(u) + 1)
      OBVIOUS
    <3>2. j \in 1..Len(r) /\ Len(u) + 1 + j = k
      BY <1>2, <1>5, <1>9, <2>2, <3>1
    <3>3. p[k] = r[j]
      BY <1>9, <3>2
    <3> QED BY <1>12, <3>2, <3>3
  <2> QED BY <1>9, <2>1, <2>2 DEF LastIn
<1>14. FindLast(p, ".") = Len(u)
  BY <1>9, <1>10, <1>13, FindLastFields, LastUnique
<1>15. HasExtension(p)
  <2>1. p[Len(p)] = r[Len(r)]
    BY <1>9, <1>11
  <2>2. Len(u) + 1 \in 1..Len(p)
    BY <1>2, <1>5, <1>9
  <2>3. p[Len(p)] # "." /\ p[Len(p)] \notin Slashes
    BY <1>11, <1>12, <2>1
  <2> QED BY <1>9, <1>10, <2>2, <2>3, HasExtensionIs
<1>16. After(p, Len(u)) = r /\ Cut(p, Len(u)) = u
  BY <1>2, <1>5, <1>7, <1>8, FoundAgain
<1>17. Extension(p) = r
  BY <1>14, <1>15, <1>16 DEF Extension
<1>18. ExtensionRemoved(p) = u
  BY <1>14, <1>15, <1>16 DEF ExtensionRemoved
<1>19. ExtensionReplaced(p, e) = path
  BY <1>5, <1>15, <1>18 DEF ExtensionReplaced
<1> QED BY <1>4, <1>6, <1>17, <1>19

LEMMA Found == IInv => ReplacedIsFound
BY NameFound, ExtensionFound DEF ReplacedIsFound

-----------------------------------------------------------------------------
(* fix().                                                                  *)

\* A set that holds m, and every number up to n whose predecessor it holds, holds
\* all from m to n.
LEMMA Upward ==
  ASSUME NEW m \in Nat, NEW n \in Nat, NEW S, m \in S,
         \A k \in (m + 1)..n : k - 1 \in S => k \in S
  PROVE  \A k \in m..n : k \in S
<1> DEFINE Bad == {k \in m..n : k \notin S}
<1> SUFFICES ASSUME Bad # {} PROVE FALSE
  OBVIOUS
<1>1. PICK k \in Bad : \A j \in Bad : k <= j
  <2>1. Bad \in SUBSET Nat
    OBVIOUS
  <2> HIDE DEF Bad
  <2> QED BY <2>1, LeastNumber
<1>2. k \in m..n /\ k \notin S
  OBVIOUS
<1>3. k \in (m + 1)..n /\ k - 1 \in m..n /\ ~(k <= k - 1)
  BY <1>2
<1>4. k - 1 \in S
  BY <1>1, <1>3
<1> QED BY <1>2, <1>3, <1>4

\* What the loop of fix() has made of p after k characters is g[k].
Loop(g, p, n) ==
  g = [k \in 0..n |-> IF k = 0 THEN <<>> ELSE JoinsOn(g[k - 1], p[k])]
Runs(g, p) ==
  g[0] = <<>> /\ \A k \in 1..Len(p) : g[k] = JoinsOn(g[k - 1], p[k])

LEMMA LoopEnds ==
  ASSUME NEW p \in Seq(Chars)
  PROVE  \E g : Runs(g, p) /\ Fixed(p) = g[Len(p)]
<1>1. Len(p) \in Nat
  BY LenProperties
<1> DEFINE S == {n \in 0..Len(p) : \E g : Loop(g, p, n)}
<1>2. 0 \in S
  <2> DEFINE h == [k \in 0..0 |-> <<>>]
  <2>1. \A k \in 0..0 : k = 0
    OBVIOUS
  <2>2. h = [k \in 0..0 |-> IF k = 0 THEN <<>> ELSE JoinsOn(h[k - 1], p[k])]
    BY <2>1
  <2>3. Loop(h, p, 0)
    BY <2>2 DEF Loop
  <2> HIDE DEF h
  <2>4. \E g : Loop(g, p, 0)
    BY <2>3
  <2> QED BY <1>1, <2>4
<1>3. ASSUME NEW n \in (0 + 1)..Len(p), n - 1 \in S PROVE n \in S
  <2>1. n \in 0..Len(p) /\ n # 0 /\ n - 1 \in 0..n /\ n - 1 # n
    BY <1>1
  <2>2. PICK g : Loop(g, p, n - 1)
    BY <1>3
  <2>3. g = [k \in 0..(n - 1) |-> IF k = 0 THEN <<>> ELSE JoinsOn(g[k - 1], p[k])]
    BY <2>2 DEF Loop
  <2> DEFINE h == [k \in 0..n |-> IF k = n THEN JoinsOn(g[n - 1], p[n]) ELSE g[k]]
  <2>4. ASSUME NEW k \in 0..n
        PROVE  h[k] = IF k = 0 THEN <<>> ELSE JoinsOn(h[k - 1], p[k])
    <3>1. CASE k = n
      <4>1. h[k - 1] = g[k - 1] /\ h[k] = JoinsOn(g[n - 1], p[n])
        BY <2>1, <3>1
      <4> QED BY <2>1, <3>1, <4>1
    <3>2. CASE k # n
      <4>1. k \in 0..(n - 1)
        BY <2>1, <3>2
      <4>2. g[k] = IF k = 0 THEN <<>> ELSE JoinsOn(g[k - 1], p[k])
        <5> HIDE DEF h
        <5> QED BY <2>3, <4>1
      <4>3. h[k] = g[k]
        BY <3>2
      <4>4. CASE k = 0
        BY <4>2, <4>3, <4>4
      <4>5. CASE k # 0
        <5>1. k - 1 \in 0..n /\ k - 1 # n
          BY <2>1, <4>1, <4>5
        <5>2. h[k - 1] = g[k - 1]
          BY <5>1
        <5> QED BY <4>2, <4>3, <4>5, <5>2
      <4> QED BY <4>4, <4>5
    <3> QED BY <3>1, <3>2
  <2>5. Loop(h, p, n)
    BY <2>4 DEF Loop
  <2> HIDE DEF h
  <2>6. \E f : Loop(f, p, n)
    BY <2>5
  <2> QED BY <2>1, <2>6
<1>4. Len(p) \in S
  <2>1. \A k \in 0..Len(p) : k \in S
    <3> HIDE DEF S
    <3> QED BY <1>1, <1>2, <1>3, Upward
  <2>2. Len(p) \in 0..Len(p)
    BY <1>1
  <2> HIDE DEF S
  <2> QED BY <2>1, <2>2
<1> DEFINE F == CHOOSE g : Loop(g, p, Len(p))
<1>5. Loop(F, p, Len(p))
  BY <1>4
<1>6. Fixed(p) = F[Len(p)]
  BY DEF Fixed, Loop
<1> HIDE DEF F
<1>7. \A k \in 0..Len(p) : F[k] = IF k = 0 THEN <<>> ELSE JoinsOn(F[k - 1], p[k])
  BY <1>5 DEF Loop
<1>8. F[0] = <<>>
  <2>1. 0 \in 0..Len(p)
    BY <1>1
  <2> QED BY <1>7, <2>1
<1>9. \A k \in 1..Len(p) : F[k] = JoinsOn(F[k - 1], p[k])
  <2>1. \A k \in 1..Len(p) : k \in 0..Len(p) /\ k # 0
    BY <1>1
  <2> QED BY <1>7, <2>1
<1>10. Runs(F, p)
  BY <1>8, <1>9 DEF Runs
<1> QED BY <1>6, <1>10

\* One kind of slash, and never two in a row.
Clean(s) ==
  /\ \A k \in 1..Len(s) : s[k] # "/"
  /\ \A k \in 2..Len(s) : ~(s[k - 1] \in Slashes /\ s[k] \in Slashes)

LEMMA WrittenFields ==
  ASSUME NEW c \in Chars
  PROVE  /\ Written(c) \in Chars /\ Written(c) # "/"
         /\ Written(c) \in Slashes <=> c \in Slashes
         /\ c \notin Slashes => Written(c) = c
         /\ Written(c) \notin Slashes => Written(c) = c
         /\ Written(Written(c)) = Written(c)
<1>1. "\\" \in Chars
  BY PathAssumption
<1> QED BY <1>1 DEF Written, Slashes

\* A character joins what is before it.
LEMMA JoinFields ==
  ASSUME NEW s \in Seq(Chars), Clean(s), NEW c \in Chars
  PROVE  LET t == JoinsOn(s, c) IN
         /\ t \in Seq(Chars) /\ Clean(t) /\ Len(t) \in Nat \ {0}
         /\ Len(t) = Len(s) \/ Len(t) = Len(s) + 1
         /\ \A k \in 1..Len(s) : t[k] = s[k]
         /\ t[Len(t)] = Written(c)
         /\ c \notin Slashes \/ s = <<>> \/ s[Len(s)] \notin Slashes =>
              Len(t) = Len(s) + 1
<1> DEFINE t == JoinsOn(s, c)
<1>1. Len(s) \in Nat /\ (s # <<>> <=> Len(s) # 0)
  <2>1. s # <<>> => Len(s) \in Nat \ {0}
    BY EmptySeq
  <2>2. Len(<<>>) = 0
    OBVIOUS
  <2> QED BY <2>1, <2>2, LenProperties
<1>2. PICK w : w = Written(c)
  OBVIOUS
<1>3. w \in Chars /\ w # "/" /\ (w \in Slashes <=> c \in Slashes)
  BY <1>2, WrittenFields
<1>4. CASE s # <<>> /\ c \in Slashes /\ s[Len(s)] \in Slashes
  <2>1. t = s
    BY <1>4 DEF JoinsOn, Last, IsSlash, Slashes
  <2>2. Len(s) \in 1..Len(s)
    BY <1>1, <1>4
  <2>3. s[Len(s)] # "/"
    BY <2>2 DEF Clean
  <2>4. s[Len(s)] = w
    BY <1>2, <1>4, <2>3 DEF Written, Slashes
  <2> QED BY <1>1, <1>2, <1>4, <2>1, <2>4
<1>5. CASE s = <<>> \/ c \notin Slashes \/ s[Len(s)] \notin Slashes
  <2>1. t = Append(s, w)
    BY <1>2, <1>5 DEF JoinsOn, Last, IsSlash, Slashes
  <2>2. /\ t \in Seq(Chars) /\ Len(t) = Len(s) + 1
        /\ \A k \in 1..Len(s) : t[k] = s[k]
        /\ t[Len(s) + 1] = w
    BY <1>3, <2>1, AppendProperties
  <2>3. \A k \in 1..Len(t) : k \in 1..Len(s) \/ k = Len(s) + 1
    BY <1>1, <2>2
  <2>4. \A k \in 1..Len(t) : t[k] # "/"
    BY <1>3, <2>2, <2>3 DEF Clean
  <2>5. ASSUME NEW k \in 2..Len(t)
        PROVE  ~(t[k - 1] \in Slashes /\ t[k] \in Slashes)
    <3>1. CASE k = Len(s) + 1
      <4>1. k - 1 = Len(s) /\ Len(s) \in 1..Len(s) /\ Len(s) # 0
        BY <1>1, <3>1
      <4>2. t[k - 1] = s[Len(s)] /\ t[k] = w
        BY <2>2, <3>1, <4>1
      <4> QED BY <1>1, <1>3, <1>5, <4>1, <4>2
    <3>2. CASE k # Len(s) + 1
      <4>1. k \in 2..Len(s) /\ k \in 1..Len(s) /\ k - 1 \in 1..Len(s)
        BY <1>1, <2>2, <3>2
      <4>2. t[k - 1] = s[k - 1] /\ t[k] = s[k]
        BY <2>2, <4>1
      <4> QED BY <4>1, <4>2 DEF Clean
    <3> QED BY <3>1, <3>2
  <2>6. Clean(t)
    BY <2>4, <2>5 DEF Clean
  <2>7. Len(t) \in Nat \ {0}
    BY <1>1, <2>2
  <2> QED BY <1>2, <2>2, <2>6, <2>7
<1> QED BY <1>4, <1>5

\* What the loop has made after k characters: clean, no longer than k, and it ends
\* as the characters read so far end.
AtStep(g, p, k) ==
  /\ g[k] \in Seq(Chars) /\ Clean(g[k]) /\ Len(g[k]) \in 0..k
  /\ k > 0 => /\ Len(g[k]) > 0
              /\ g[k][Len(g[k])] = Written(p[k]) /\ g[k][1] = Written(p[1])

LEMMA Steps ==
  ASSUME NEW p \in Seq(Chars), NEW g, Runs(g, p)
  PROVE  \A k \in 0..Len(p) : AtStep(g, p, k)
<1>1. Len(p) \in Nat
  BY LenProperties
<1> DEFINE S == {k \in 0..Len(p) : AtStep(g, p, k)}
<1>2. 0 \in S
  <2>1. <<>> \in Seq(Chars) /\ Len(<<>>) = 0
    OBVIOUS
  <2>2. PICK e : e = <<>>
    OBVIOUS
  <2>3. e \in Seq(Chars) /\ Len(e) = 0
    BY <2>1, <2>2
  <2>4. Clean(e) /\ g[0] = e
    BY <2>2, <2>3 DEF Clean, Runs
  <2>5. AtStep(g, p, 0)
    BY <2>3, <2>4 DEF AtStep
  <2> QED BY <1>1, <2>5
<1>3. ASSUME NEW k \in (0 + 1)..Len(p), k - 1 \in S PROVE k \in S
  <2>1. k \in 0..Len(p) /\ k \in 1..Len(p) /\ k \in Nat /\ k > 0
    BY <1>1
  <2>2. PICK s : s = g[k - 1]
    OBVIOUS
  <2>3. PICK t : t = g[k]
    OBVIOUS
  <2>4. PICK c : c = p[k]
    OBVIOUS
  <2>5. AtStep(g, p, k - 1)
    BY <1>3
  <2>6. s \in Seq(Chars) /\ Clean(s) /\ Len(s) \in 0..(k - 1)
    BY <2>2, <2>5 DEF AtStep
  <2>7. c \in Chars /\ t = JoinsOn(s, c)
    BY <2>1, <2>2, <2>3, <2>4, ElementOfSeq DEF Runs
  <2>8. /\ t \in Seq(Chars) /\ Clean(t) /\ Len(t) \in Nat \ {0}
        /\ Len(t) = Len(s) \/ Len(t) = Len(s) + 1
        /\ \A i \in 1..Len(s) : t[i] = s[i]
        /\ t[Len(t)] = Written(c)
    BY <2>6, <2>7, JoinFields
  <2>9. t[1] = Written(p[1])
    <3>1. CASE k = 1
      <4>1. Len(t) = 1
        <5>1. Len(s) = 0
          BY <2>6, <3>1
        <5> QED BY <2>8, <5>1
      <4> QED BY <2>4, <2>8, <3>1, <4>1
    <3>2. CASE k # 1
      <4>1. k - 1 > 0
        BY <2>1, <3>2
      <4>2. Len(s) > 0 /\ s[1] = Written(p[1])
        BY <2>2, <2>5, <4>1 DEF AtStep
      <4>3. 1 \in 1..Len(s)
        BY <2>6, <4>2
      <4> QED BY <2>8, <4>2, <4>3
    <3> QED BY <3>1, <3>2
  <2>10. Len(t) \in 0..k /\ Len(t) > 0
    BY <2>1, <2>6, <2>8
  <2>11. AtStep(g, p, k)
    BY <2>3, <2>4, <2>8, <2>9, <2>10 DEF AtStep
  <2> QED BY <2>1, <2>11
<1>4. \A k \in 0..Len(p) : k \in S
  <2> HIDE DEF S
  <2> QED BY <1>1, <1>2, <1>3, Upward
<1> QED BY <1>4

\* One step of the loop.
LEMMA StepFields ==
  ASSUME NEW p \in Seq(Chars), NEW g, Runs(g, p), NEW k \in 1..Len(p)
  PROVE  /\ g[k] \in Seq(Chars) /\ g[k - 1] \in Seq(Chars)
         /\ Len(g[k]) \in Nat \ {0} /\ Len(g[k - 1]) \in Nat
         /\ Len(g[k]) = Len(g[k - 1]) \/ Len(g[k]) = Len(g[k - 1]) + 1
         /\ \A i \in 1..Len(g[k - 1]) : g[k][i] = g[k - 1][i]
         /\ g[k][Len(g[k])] = Written(p[k])
         /\ p[k] \notin Slashes \/ g[k - 1] = <<>>
              \/ g[k - 1][Len(g[k - 1])] \notin Slashes =>
              Len(g[k]) = Len(g[k - 1]) + 1
<1>1. Len(p) \in Nat
  BY LenProperties
<1>2. k - 1 \in 0..Len(p)
  BY <1>1
<1>3. PICK s : s = g[k - 1]
  OBVIOUS
<1>4. PICK c : c = p[k]
  OBVIOUS
<1>5. g[k] = JoinsOn(s, c) /\ c \in Chars
  BY <1>3, <1>4, ElementOfSeq DEF Runs
<1>6. s \in Seq(Chars) /\ Clean(s) /\ Len(s) \in Nat
  BY <1>2, <1>3, Steps, LenProperties DEF AtStep
<1>7. PICK t : t = JoinsOn(s, c)
  OBVIOUS
<1>8. /\ t \in Seq(Chars) /\ Clean(t) /\ Len(t) \in Nat \ {0}
      /\ Len(t) = Len(s) \/ Len(t) = Len(s) + 1
      /\ \A i \in 1..Len(s) : t[i] = s[i]
      /\ t[Len(t)] = Written(c)
      /\ c \notin Slashes \/ s = <<>> \/ s[Len(s)] \notin Slashes =>
           Len(t) = Len(s) + 1
  BY <1>5, <1>6, <1>7, JoinFields
<1> QED BY <1>3, <1>4, <1>5, <1>6, <1>7, <1>8

\* The loop only appends.
LEMMA Grows ==
  ASSUME NEW p \in Seq(Chars), NEW g, Runs(g, p), NEW m \in 0..Len(p)
  PROVE  \A n \in m..Len(p) :
           Len(g[m]) <= Len(g[n]) /\ \A i \in 1..Len(g[m]) : g[n][i] = g[m][i]
<1>1. Len(p) \in Nat /\ m \in Nat
  BY LenProperties
<1>2. Len(g[m]) \in Nat
  BY Steps, LenProperties DEF AtStep
<1> DEFINE S == {n \in m..Len(p) :
                   Len(g[m]) <= Len(g[n]) /\ \A i \in 1..Len(g[m]) : g[n][i] = g[m][i]}
<1>3. m \in S
  BY <1>1, <1>2
<1>4. ASSUME NEW k \in (m + 1)..Len(p), k - 1 \in S PROVE k \in S
  <2>1. k \in m..Len(p) /\ k \in 1..Len(p)
    BY <1>1
  <2>2. Len(g[m]) <= Len(g[k - 1]) /\ \A i \in 1..Len(g[m]) : g[k - 1][i] = g[m][i]
    BY <1>4
  <2>3. /\ Len(g[k]) \in Nat \ {0} /\ Len(g[k - 1]) \in Nat
        /\ Len(g[k]) = Len(g[k - 1]) \/ Len(g[k]) = Len(g[k - 1]) + 1
        /\ \A i \in 1..Len(g[k - 1]) : g[k][i] = g[k - 1][i]
    BY <2>1, StepFields
  <2>4. Len(g[m]) <= Len(g[k])
    BY <1>2, <2>2, <2>3
  <2>5. \A i \in 1..Len(g[m]) : i \in 1..Len(g[k - 1])
    BY <1>2, <2>2, <2>3
  <2>6. \A i \in 1..Len(g[m]) : g[k][i] = g[m][i]
    BY <2>2, <2>3, <2>5
  <2> QED BY <2>1, <2>4, <2>6
<1>5. \A n \in m..Len(p) : n \in S
  <2> HIDE DEF S
  <2> QED BY <1>1, <1>3, <1>4, Upward
<1> QED BY <1>5

PlainBehind(p, m) == \A k \in 1..Len(p) : k > m => p[k] \notin Slashes

\* What is behind the last slash is taken over as it is.
LEMMA TailKept ==
  ASSUME NEW p \in Seq(Chars), NEW g, Runs(g, p), NEW m \in 0..Len(p),
         PlainBehind(p, m)
  PROVE  \A n \in m..Len(p) :
           /\ Len(g[n]) = Len(g[m]) + (n - m)
           /\ \A j \in 1..(n - m) : g[n][Len(g[m]) + j] = p[m + j]
<1>1. Len(p) \in Nat /\ m \in Nat
  BY LenProperties
<1>2. PICK a : a = Len(g[m])
  OBVIOUS
<1>3. a \in Nat
  BY <1>2, Steps, LenProperties DEF AtStep
<1> DEFINE S == {n \in m..Len(p) :
                   /\ Len(g[n]) = a + (n - m)
                   /\ \A j \in 1..(n - m) : g[n][a + j] = p[m + j]}
<1>4. m \in S
  <2>1. m \in m..Len(p) /\ a + (m - m) = a
    BY <1>1, <1>3
  <2>2. \A j \in 1..(m - m) : FALSE
    BY <1>1
  <2> QED BY <1>2, <2>1, <2>2
<1>5. ASSUME NEW k \in (m + 1)..Len(p), k - 1 \in S PROVE k \in S
  <2>1. k \in m..Len(p) /\ k \in 1..Len(p) /\ k > m
    BY <1>1
  <2>2. PICK s : s = g[k - 1]
    OBVIOUS
  <2>3. PICK t : t = g[k]
    OBVIOUS
  <2>4. Len(s) = a + (k - 1 - m) /\ \A j \in 1..(k - 1 - m) : s[a + j] = p[m + j]
    BY <1>5, <2>2
  <2>5. p[k] \in Chars /\ p[k] \notin Slashes /\ Written(p[k]) = p[k]
    BY <2>1, ElementOfSeq, WrittenFields DEF PlainBehind
  <2>6. /\ Len(t) = Len(s) + 1 /\ \A i \in 1..Len(s) : t[i] = s[i]
        /\ t[Len(t)] = p[k]
    BY <2>1, <2>2, <2>3, <2>5, StepFields
  <2>7. Len(t) = a + (k - m)
    BY <1>1, <1>3, <2>4, <2>6
  <2>8. ASSUME NEW j \in 1..(k - m) PROVE t[a + j] = p[m + j]
    <3>1. CASE j = k - m
      <4>1. a + j = Len(t) /\ m + j = k
        BY <1>1, <1>3, <2>7, <3>1
      <4> QED BY <2>6, <4>1
    <3>2. CASE j # k - m
      <4>1. j \in 1..(k - 1 - m) /\ a + j \in 1..Len(s)
        BY <1>1, <1>3, <2>4, <3>2
      <4> QED BY <2>4, <2>6, <4>1
    <3> QED BY <3>1, <3>2
  <2> QED BY <2>1, <2>3, <2>7, <2>8
<1>6. \A n \in m..Len(p) : n \in S
  <2> HIDE DEF S
  <2> QED BY <1>1, <1>4, <1>5, Upward
<1> QED BY <1>2, <1>6

\* Two strings that are written alike are fixed alike.
LEMMA SameSteps ==
  ASSUME NEW p \in Seq(Chars), NEW q \in Seq(Chars), Len(p) = Len(q),
         \A k \in 1..Len(p) : Written(p[k]) = Written(q[k])
  PROVE  Fixed(p) = Fixed(q)
<1>1. Len(p) \in Nat
  BY LenProperties
<1>2. PICK g : Runs(g, p) /\ Fixed(p) = g[Len(p)]
  BY LoopEnds
<1>3. PICK h : Runs(h, q) /\ Fixed(q) = h[Len(q)]
  BY LoopEnds
<1> DEFINE S == {k \in 0..Len(p) : g[k] = h[k]}
<1>4. 0 \in S
  BY <1>1, <1>2, <1>3 DEF Runs
<1>5. ASSUME NEW k \in (0 + 1)..Len(p), k - 1 \in S PROVE k \in S
  <2>1. k \in 0..Len(p) /\ k \in 1..Len(p)
    BY <1>1
  <2>2. g[k - 1] = h[k - 1]
    BY <1>5
  <2>3. g[k] = JoinsOn(g[k - 1], p[k]) /\ h[k] = JoinsOn(h[k - 1], q[k])
    BY <1>2, <1>3, <2>1 DEF Runs
  <2>4. /\ p[k] \in Chars /\ q[k] \in Chars /\ Written(p[k]) = Written(q[k])
        /\ p[k] \in Slashes <=> q[k] \in Slashes
    BY <2>1, ElementOfSeq, WrittenFields
  <2>5. JoinsOn(g[k - 1], p[k]) = JoinsOn(g[k - 1], q[k])
    BY <2>4 DEF JoinsOn, IsSlash, Slashes
  <2> QED BY <2>1, <2>2, <2>3, <2>5
<1>6. Len(p) \in S
  <2>1. \A k \in 0..Len(p) : k \in S
    <3> HIDE DEF S
    <3> QED BY <1>1, <1>4, <1>5, Upward
  <2>2. Len(p) \in 0..Len(p)
    BY <1>1
  <2> HIDE DEF S
  <2> QED BY <2>1, <2>2
<1> QED BY <1>2, <1>3, <1>6

\* A clean string stays as it is.
LEMMA CleanStays ==
  ASSUME NEW q \in Seq(Chars), Clean(q)
  PROVE  Fixed(q) = q
<1>1. Len(q) \in Nat
  BY LenProperties
<1>2. PICK g : Runs(g, q) /\ Fixed(q) = g[Len(q)]
  BY LoopEnds
<1> DEFINE S == {k \in 0..Len(q) :
                   Len(g[k]) = k /\ \A i \in 1..k : g[k][i] = q[i]}
<1>3. 0 \in S
  <2>1. g[0] = <<>> /\ Len(<<>>) = 0 /\ 0 \in 0..Len(q)
    BY <1>1, <1>2 DEF Runs
  <2>2. Len(g[0]) = 0 /\ \A i \in 1..0 : FALSE
    BY <2>1
  <2> QED BY <2>1, <2>2
<1>4. ASSUME NEW k \in (0 + 1)..Len(q), k - 1 \in S PROVE k \in S
  <2>1. k \in 0..Len(q) /\ k \in 1..Len(q) /\ k \in Nat
    BY <1>1
  <2>2. PICK s : s = g[k - 1]
    OBVIOUS
  <2>3. PICK t : t = g[k]
    OBVIOUS
  <2>4. Len(s) = k - 1 /\ \A i \in 1..(k - 1) : s[i] = q[i]
    BY <1>4, <2>2
  <2>5. /\ s \in Seq(Chars)
        /\ Len(t) = Len(s) \/ Len(t) = Len(s) + 1
        /\ \A i \in 1..Len(s) : t[i] = s[i]
        /\ t[Len(t)] = Written(q[k])
        /\ q[k] \notin Slashes \/ s = <<>> \/ s[Len(s)] \notin Slashes =>
             Len(t) = Len(s) + 1
    BY <1>2, <2>1, <2>2, <2>3, StepFields
  <2>6. q[k] # "/" /\ Written(q[k]) = q[k]
    BY <2>1 DEF Clean, Written
  <2>7. Len(t) = k
    <3>1. CASE k = 1
      <4>1. s = <<>>
        BY <2>4, <2>5, <3>1, EmptySeq
      <4> QED BY <2>1, <2>4, <2>5, <4>1
    <3>2. CASE k # 1
      <4>1. k \in 2..Len(q) /\ k - 1 \in 1..(k - 1)
        BY <2>1, <3>2
      <4>2. ~(q[k - 1] \in Slashes /\ q[k] \in Slashes)
        BY <4>1 DEF Clean
      <4>3. s[Len(s)] = q[k - 1]
        BY <2>4, <4>1
      <4>4. Len(t) = Len(s) + 1
        BY <2>5, <4>2, <4>3
      <4> QED BY <2>1, <2>4, <4>4
    <3> QED BY <3>1, <3>2
  <2>8. ASSUME NEW i \in 1..k PROVE t[i] = q[i]
    <3>1. CASE i = k
      BY <2>5, <2>6, <2>7, <3>1
    <3>2. CASE i # k
      <4>1. i \in 1..(k - 1)
        BY <2>1, <3>2
      <4> QED BY <2>4, <2>5, <4>1
    <3> QED BY <3>1, <3>2
  <2> QED BY <2>1, <2>3, <2>7, <2>8
<1>5. Len(q) \in S
  <2>1. \A k \in 0..Len(q) : k \in S
    <3> HIDE DEF S
    <3> QED BY <1>1, <1>3, <1>4, Upward
  <2>2. Len(q) \in 0..Len(q)
    BY <1>1
  <2> HIDE DEF S
  <2> QED BY <2>1, <2>2
<1>6. PICK f : f = g[Len(q)]
  OBVIOUS
<1>7. Len(f) = Len(q) /\ \A i \in 1..Len(f) : f[i] = q[i]
  BY <1>5, <1>6
<1>8. f \in Seq(Chars)
  <2>1. Len(q) \in 0..Len(q)
    BY <1>1
  <2> QED BY <1>2, <1>6, <2>1, Steps DEF AtStep
<1>9. f = q
  BY <1>7, <1>8, SeqEqual
<1> QED BY <1>2, <1>6, <1>9

LEMMA FixedFields ==
  ASSUME NEW p \in Seq(Chars)
  PROVE  /\ Fixed(p) \in Seq(Chars) /\ Clean(Fixed(p)) /\ Len(Fixed(p)) \in 0..Len(p)
         /\ Len(p) > 0 => /\ Len(Fixed(p)) > 0
                          /\ Fixed(p)[Len(Fixed(p))] = Written(p[Len(p)])
                          /\ Fixed(p)[1] = Written(p[1])
<1>1. Len(p) \in 0..Len(p)
  BY LenProperties
<1>2. PICK g : Runs(g, p) /\ Fixed(p) = g[Len(p)]
  BY LoopEnds
<1>3. AtStep(g, p, Len(p))
  BY <1>1, <1>2, Steps
<1> QED BY <1>2, <1>3 DEF AtStep

\* The place of one more character.
LEMMA NextRank ==
  ASSUME NEW p \in Seq(Chars), NEW k \in 1..Len(p)
  PROVE  /\ Rank(p, k) \in Nat /\ Rank(p, k - 1) \in Nat
         /\ k \in Kept(p) => Rank(p, k) = Rank(p, k - 1) + 1
         /\ k \notin Kept(p) => Rank(p, k) = Rank(p, k - 1)
<1>1. Len(p) \in Nat /\ DOMAIN p = 1..Len(p)
  BY LenProperties
<1> DEFINE A == {j \in Kept(p) : j <= k - 1}
           B == {j \in Kept(p) : j <= k}
<1>2. Kept(p) \subseteq 1..Len(p)
  BY <1>1 DEF Kept
<1>3. IsFiniteSet(1..Len(p))
  BY <1>1, FS_Interval
<1>4. IsFiniteSet(A)
  <2>1. A \subseteq 1..Len(p)
    BY <1>2
  <2> QED BY <1>3, <2>1, FS_Subset
<1>5. k \notin A
  OBVIOUS
<1>6. \A j \in Kept(p) : j <= k <=> j <= k - 1 \/ j = k
  BY <1>1, <1>2
<1>7. IF k \in Kept(p) THEN B = A \cup {k} ELSE B = A
  BY <1>6
<1>8. Rank(p, k) = Cardinality(B) /\ Rank(p, k - 1) = Cardinality(A)
  BY DEF Rank
<1> HIDE DEF A, B
<1>9. Cardinality(A) \in Nat /\ Cardinality(A \cup {k}) = Cardinality(A) + 1
  BY <1>4, <1>5, FS_CardinalityType, FS_AddElement
<1>10. CASE k \in Kept(p)
  <2>1. B = A \cup {k}
    BY <1>7, <1>10
  <2>2. Cardinality(B) = Cardinality(A) + 1
    BY <1>9, <2>1
  <2> QED BY <1>8, <1>9, <1>10, <2>2
<1>11. CASE k \notin Kept(p)
  BY <1>7, <1>8, <1>9, <1>11
<1> QED BY <1>10, <1>11

\* After k characters the loop has as many as are kept of them.
LEMMA Counted ==
  ASSUME NEW p \in Seq(Chars), NEW g, Runs(g, p)
  PROVE  \A k \in 0..Len(p) : Len(g[k]) = Rank(p, k)
<1>1. Len(p) \in Nat /\ DOMAIN p = 1..Len(p)
  BY LenProperties
<1> DEFINE S == {k \in 0..Len(p) : Len(g[k]) = Rank(p, k)}
<1>2. 0 \in S
  <2>1. {j \in Kept(p) : j <= 0} = {}
    BY <1>1 DEF Kept
  <2>2. Rank(p, 0) = 0
    BY <2>1, FS_EmptySet DEF Rank
  <2>3. g[0] = <<>> /\ Len(<<>>) = 0
    BY DEF Runs
  <2>4. Len(g[0]) = 0
    BY <2>3
  <2> QED BY <1>1, <2>2, <2>4
<1>3. ASSUME NEW k \in (0 + 1)..Len(p), k - 1 \in S PROVE k \in S
  <2>1. k \in 0..Len(p) /\ k \in 1..Len(p) /\ k - 1 \in 0..Len(p)
    BY <1>1
  <2>2. PICK s : s = g[k - 1]
    OBVIOUS
  <2>3. PICK c : c = p[k]
    OBVIOUS
  <2>4. Len(s) = Rank(p, k - 1)
    BY <1>3, <2>2
  <2>5. g[k] = JoinsOn(s, c)
    BY <2>1, <2>2, <2>3 DEF Runs
  <2>6. s \in Seq(Chars) /\ Len(s) \in Nat
    BY <2>1, <2>2, Steps, LenProperties DEF AtStep
  <2>7. CASE k \in Kept(p)
    <3>1. c \notin Slashes \/ s = <<>> \/ s[Len(s)] \notin Slashes
      <4>1. CASE k = 1
        <5>1. s = <<>>
          BY <2>2, <4>1 DEF Runs
        <5> QED BY <5>1
      <4>2. CASE k > 1 /\ c \in Slashes
        <5>1. p[k - 1] \notin Slashes
          BY <2>3, <2>7, <4>2 DEF Kept, IsSlash, Slashes
        <5>2. k - 1 > 0 /\ k - 1 \in 1..Len(p)
          BY <1>1, <4>2
        <5>3. s[Len(s)] = Written(p[k - 1])
          BY <2>1, <2>2, <5>2, Steps DEF AtStep
        <5>4. p[k - 1] \in Chars
          BY <5>2, ElementOfSeq
        <5> QED BY <5>1, <5>3, <5>4, WrittenFields
      <4> QED BY <1>1, <4>1, <4>2
    <3>2. Len(g[k]) = Len(s) + 1
      BY <2>1, <2>2, <2>3, <3>1, StepFields
    <3>3. Rank(p, k) = Rank(p, k - 1) + 1
      BY <2>1, <2>7, NextRank
    <3> QED BY <2>1, <2>4, <3>2, <3>3
  <2>8. CASE k \notin Kept(p)
    <3>1. k > 1 /\ p[k - 1] \in Slashes /\ c \in Slashes
      BY <1>1, <2>1, <2>3, <2>8 DEF Kept, IsSlash, Slashes
    <3>2. k - 1 > 0 /\ k - 1 \in 1..Len(p)
      BY <1>1, <3>1
    <3>3. Len(s) > 0 /\ s[Len(s)] = Written(p[k - 1])
      BY <2>1, <2>2, <3>2, Steps DEF AtStep
    <3>4. p[k - 1] \in Chars
      BY <3>2, ElementOfSeq
    <3>5. s[Len(s)] \in Slashes
      BY <3>1, <3>3, <3>4, WrittenFields
    <3>6. s # <<>>
      <4>1. Len(<<>>) = 0
        OBVIOUS
      <4> QED BY <3>3, <4>1
    <3>7. g[k] = s
      BY <2>5, <3>1, <3>5, <3>6 DEF JoinsOn, Last, IsSlash, Slashes
    <3>8. Rank(p, k) = Rank(p, k - 1)
      BY <2>1, <2>8, NextRank
    <3> QED BY <2>1, <2>4, <3>7, <3>8
  <2> QED BY <2>7, <2>8
<1>4. \A k \in 0..Len(p) : k \in S
  <2> HIDE DEF S
  <2> QED BY <1>1, <1>2, <1>3, Upward
<1> QED BY <1>4

\* fix() leaves out slashes behind slashes, and keeps all else in its order.
LEMMA NothingElseLeftOut ==
  ASSUME NEW p \in Seq(Chars)
  PROVE  /\ Len(Fixed(p)) = Cardinality(Kept(p))
         /\ \A k \in Kept(p) : Fixed(p)[Rank(p, k)] = Written(p[k])
<1>1. Len(p) \in Nat /\ DOMAIN p = 1..Len(p)
  BY LenProperties
<1>2. PICK g : Runs(g, p) /\ Fixed(p) = g[Len(p)]
  BY LoopEnds
<1>3. Len(Fixed(p)) = Cardinality(Kept(p))
  <2>1. {j \in Kept(p) : j <= Len(p)} = Kept(p)
    BY <1>1 DEF Kept
  <2>2. Len(p) \in 0..Len(p)
    BY <1>1
  <2>3. Len(g[Len(p)]) = Rank(p, Len(p))
    BY <1>2, <2>2, Counted
  <2> QED BY <1>2, <2>1, <2>3 DEF Rank
<1>4. ASSUME NEW k \in Kept(p) PROVE Fixed(p)[Rank(p, k)] = Written(p[k])
  <2>1. k \in 1..Len(p) /\ k \in 0..Len(p) /\ Len(p) \in k..Len(p)
    BY <1>1 DEF Kept
  <2>2. /\ Len(g[k]) \in Nat \ {0} /\ g[k][Len(g[k])] = Written(p[k])
    BY <1>2, <2>1, StepFields
  <2>3. \A i \in 1..Len(g[k]) : g[Len(p)][i] = g[k][i]
    BY <1>2, <2>1, Grows
  <2>4. Len(g[k]) = Rank(p, k)
    BY <1>2, <2>1, Counted
  <2>5. Len(g[k]) \in 1..Len(g[k])
    BY <2>2
  <2> QED BY <1>2, <2>2, <2>3, <2>4, <2>5
<1> QED BY <1>3, <1>4

LEMMA SameDots ==
  ASSUME NEW p \in Seq(Chars)
  PROVE  (\E k \in 1..Len(p) : p[k] = ".") <=>
           (\E k \in 1..Len(Fixed(p)) : Fixed(p)[k] = ".")
<1>1. Len(p) \in Nat
  BY LenProperties
<1>2. PICK g : Runs(g, p) /\ Fixed(p) = g[Len(p)]
  BY LoopEnds
<1>3. ASSUME NEW k \in 1..Len(p), p[k] = "."
      PROVE  \E i \in 1..Len(Fixed(p)) : Fixed(p)[i] = "."
  <2>1. k \in 0..Len(p) /\ Len(p) \in k..Len(p) /\ Len(p) \in 0..Len(p)
    BY <1>1
  <2>2. PICK i : i = Len(g[k])
    OBVIOUS
  <2>3. i \in Nat \ {0} /\ g[k][i] = "."
    BY <1>2, <1>3, <2>2, StepFields DEF Written
  <2>4. i <= Len(Fixed(p)) /\ Fixed(p)[i] = g[k][i]
    <3>1. i \in 1..Len(g[k])
      BY <2>2, <2>3
    <3> QED BY <1>2, <2>1, <2>2, <3>1, Grows
  <2>5. Len(Fixed(p)) \in Nat
    BY FixedFields, LenProperties
  <2>6. i \in 1..Len(Fixed(p))
    BY <2>3, <2>4, <2>5
  <2> QED BY <2>3, <2>4, <2>6
<1>4. ASSUME \A k \in 1..Len(p) : p[k] # "."
      PROVE  \A i \in 1..Len(Fixed(p)) : Fixed(p)[i] # "."
  <2> DEFINE S == {k \in 0..Len(p) : \A i \in 1..Len(g[k]) : g[k][i] # "."}
  <2>1. 0 \in S
    <3>1. g[0] = <<>> /\ Len(<<>>) = 0 /\ 0 \in 0..Len(p)
      BY <1>1, <1>2 DEF Runs
    <3>2. \A i \in 1..Len(g[0]) : FALSE
      BY <3>1
    <3> QED BY <3>1, <3>2
  <2>2. ASSUME NEW k \in (0 + 1)..Len(p), k - 1 \in S PROVE k \in S
    <3>1. k \in 0..Len(p) /\ k \in 1..Len(p)
      BY <1>1
    <3>2. \A i \in 1..Len(g[k - 1]) : g[k - 1][i] # "."
      BY <2>2
    <3>3. /\ Len(g[k]) \in Nat \ {0} /\ Len(g[k - 1]) \in Nat
          /\ Len(g[k]) = Len(g[k - 1]) \/ Len(g[k]) = Len(g[k - 1]) + 1
          /\ \A i \in 1..Len(g[k - 1]) : g[k][i] = g[k - 1][i]
          /\ g[k][Len(g[k])] = Written(p[k])
      BY <1>2, <3>1, StepFields
    <3>4. Written(p[k]) # "."
      BY <1>4, <3>1 DEF Written
    <3>5. \A i \in 1..Len(g[k]) : i \in 1..Len(g[k - 1]) \/ i = Len(g[k])
      BY <3>3
    <3>6. \A i \in 1..Len(g[k]) : g[k][i] # "."
      BY <3>2, <3>3, <3>4, <3>5
    <3> QED BY <3>1, <3>6
  <2>3. Len(p) \in S
    <3>1. \A k \in 0..Len(p) : k \in S
      <4> HIDE DEF S
      <4> QED BY <1>1, <2>1, <2>2, Upward
    <3>2. Len(p) \in 0..Len(p)
      BY <1>1
    <3> HIDE DEF S
    <3> QED BY <3>1, <3>2
  <2> QED BY <1>2, <2>3
<1> QED BY <1>3, <1>4

LEMMA SameName ==
  ASSUME NEW p \in Seq(Chars), Len(p) <= Npos
  PROVE  Filename(Fixed(p)) = Filename(p)
<1>1. Len(p) \in Nat /\ Npos \in Nat /\ Len(p) \in 0..Len(p)
  BY LenProperties, Room
<1>2. PICK g : Runs(g, p) /\ Fixed(p) = g[Len(p)]
  BY LoopEnds
<1>3. PICK f : f = Fixed(p)
  OBVIOUS
<1>4. /\ f \in Seq(Chars) /\ Len(f) \in 0..Len(p)
      /\ Len(p) > 0 => Len(f) > 0 /\ f[Len(f)] = Written(p[Len(p)])
  BY <1>3, FixedFields
<1>5. Len(f) <= Npos /\ Len(f) \in Nat
  BY <1>1, <1>4
<1>6. HasExtension(f) <=> HasExtension(p)
  <2>1. CASE Len(p) = 0
    <3>1. Len(f) = 0
      BY <1>4, <2>1
    <3>2. ~(\E k \in 1..Len(p) : p[k] = ".") /\ ~(\E k \in 1..Len(f) : f[k] = ".")
      BY <2>1, <3>1
    <3> QED BY <1>4, <1>5, <3>2, HasExtensionIs
  <2>2. CASE Len(p) # 0
    <3>1. Len(p) > 0 /\ Len(p) \in 1..Len(p)
      BY <1>1, <2>2
    <3>2. p[Len(p)] \in Chars
      BY <3>1, ElementOfSeq
    <3>3. f[Len(f)] = Written(p[Len(p)])
      BY <1>4, <3>1
    <3>4. /\ f[Len(f)] \in Slashes <=> p[Len(p)] \in Slashes
          /\ f[Len(f)] = "." <=> p[Len(p)] = "."
      BY <3>2, <3>3 DEF Written, Slashes
    <3>5. (\E k \in 1..Len(p) : p[k] = ".") <=> (\E k \in 1..Len(f) : f[k] = ".")
      BY <1>3, SameDots
    <3> QED BY <1>4, <1>5, <3>4, <3>5, HasExtensionIs
  <2> QED BY <2>1, <2>2
<1>7. CASE ~HasExtension(p)
  BY <1>3, <1>6, <1>7 DEF Filename, HasFilename
<1>8. CASE HasExtension(p) /\ LastSlash(p) = Npos
  <2>1. \A k \in 1..Len(p) : p[k] \notin Slashes
    BY <1>8, ExtensionPlaces
  <2>2. Len(f) = Len(p) /\ \A j \in 1..Len(p) : f[j] = p[j]
    <3>1. g[0] = <<>> /\ Len(<<>>) = 0 /\ 0 \in 0..Len(p)
      BY <1>1, <1>2 DEF Runs
    <3>2. \A k \in 1..Len(p) : k > 0 => p[k] \notin Slashes
      BY <2>1
    <3>3. PICK z : z = 0
      OBVIOUS
    <3>4. z \in 0..Len(p) /\ Len(p) \in z..Len(p) /\ Len(g[z]) = 0
      BY <1>1, <3>1, <3>3
    <3>5. PlainBehind(p, z)
      BY <3>2, <3>3 DEF PlainBehind
    <3>6. /\ Len(g[Len(p)]) = Len(g[z]) + (Len(p) - z)
          /\ \A j \in 1..(Len(p) - z) : g[Len(p)][Len(g[z]) + j] = p[z + j]
      <4>1. Runs(g, p)
        BY <1>2
      <4>2. \A n \in z..Len(p) :
              /\ Len(g[n]) = Len(g[z]) + (n - z)
              /\ \A j \in 1..(n - z) : g[n][Len(g[z]) + j] = p[z + j]
        BY <3>4, <3>5, <4>1, TailKept
      <4> QED BY <3>4, <4>2
    <3>7. /\ Len(g[z]) + (Len(p) - z) = Len(p) /\ Len(p) - z = Len(p)
          /\ \A j \in 1..Len(p) : Len(g[z]) + j = j /\ z + j = j
      BY <1>1, <3>3, <3>4
    <3> QED BY <1>2, <1>3, <3>6, <3>7
  <2>3. f = p
    BY <1>4, <2>2, SeqEqual
  <2> QED BY <1>3, <2>3
<1>9. CASE HasExtension(p) /\ LastSlash(p) # Npos
  <2>1. PICK l : l = LastSlash(p)
    OBVIOUS
  <2>2. /\ l \in 0..(Len(p) - 1) /\ l < Len(p) - 1 /\ p[l + 1] \in Slashes
        /\ \A k \in 1..Len(p) : k > l + 1 => p[k] \notin Slashes
    BY <1>9, <2>1, ExtensionPlaces
  <2>3. PICK m : m = l + 1
    OBVIOUS
  <2>4. /\ m \in 1..Len(p) /\ m \in 0..Len(p) /\ Len(p) \in m..Len(p)
        /\ p[m] \in Slashes
        /\ \A k \in 1..Len(p) : k > m => p[k] \notin Slashes
    BY <1>1, <2>2, <2>3
  <2>5. PICK a : a = Len(g[m])
    OBVIOUS
  <2>6. a \in Nat \ {0} /\ g[m][a] = Written(p[m])
    BY <1>2, <2>4, <2>5, StepFields
  <2>7. a <= Len(f) /\ f[a] = g[m][a]
    <3>1. a \in 1..Len(g[m])
      BY <2>5, <2>6
    <3> QED BY <1>2, <1>3, <2>4, <2>5, <3>1, Grows
  <2>8. /\ Len(f) = a + (Len(p) - m)
        /\ \A j \in 1..(Len(p) - m) : f[a + j] = p[m + j]
    <3>1. PlainBehind(p, m)
      BY <2>4 DEF PlainBehind
    <3> QED BY <1>2, <1>3, <2>4, <2>5, <3>1, TailKept
  <2>9. f[a] \in Slashes
    <3>1. p[m] \in Chars
      BY <2>4, ElementOfSeq
    <3> QED BY <2>4, <2>6, <2>7, <3>1, WrittenFields
  <2>10. ASSUME NEW k \in 1..Len(f), k > a PROVE f[k] \notin Slashes
    <3>1. PICK j : j = k - a
      OBVIOUS
    <3>2. j \in 1..(Len(p) - m) /\ a + j = k /\ m + j \in 1..Len(p) /\ m + j > m
      BY <1>1, <2>4, <2>6, <2>8, <2>10, <3>1
    <3>3. f[k] = p[m + j]
      BY <2>8, <3>2
    <3> QED BY <2>4, <3>2, <3>3
  <2>11. PICK b : b = a - 1
    OBVIOUS
  <2>12. /\ b \in 0..(Len(f) - 1) /\ b + 1 = a /\ b # Npos
         /\ Len(f) - b - 1 = Len(p) - m
    BY <1>1, <1>5, <2>4, <2>6, <2>7, <2>8, <2>11
  <2>13. LastIn(f, Slashes, b)
    BY <2>9, <2>10, <2>12 DEF LastIn
  <2>14. LastSlash(f) = b
    BY <1>4, <1>5, <2>13, LastSlashFields, LastUnique
  <2>15. Filename(f) = After(f, b) /\ Filename(p) = After(p, l)
    BY <1>6, <1>9, <2>1, <2>12, <2>14 DEF Filename, HasFilename
  <2>16. PICK s : s = After(f, b)
    OBVIOUS
  <2>17. PICK t : t = After(p, l)
    OBVIOUS
  <2>18. /\ s \in Seq(Chars) /\ Len(s) = Len(p) - m
         /\ \A k \in 1..(Len(p) - m) : s[k] = f[a + k]
    BY <1>4, <2>12, <2>16, AfterFields
  <2>19. /\ t \in Seq(Chars) /\ Len(t) = Len(p) - m
         /\ \A k \in 1..(Len(p) - m) : t[k] = p[m + k]
    <3>1. Len(p) - l - 1 = Len(p) - m
      BY <1>1, <2>2, <2>3
    <3> QED BY <2>2, <2>3, <2>17, <3>1, AfterFields
  <2>20. \A k \in 1..Len(s) : s[k] = t[k]
    BY <2>8, <2>18, <2>19
  <2>21. s = t
    BY <2>18, <2>19, <2>20, SeqEqual
  <2> QED BY <1>3, <2>15, <2>16, <2>17, <2>21
<1> QED BY <1>7, <1>8, <1>9

\* The characters that make a drive are taken over one by one.
LEMMA FirstThree ==
  ASSUME NEW p \in Seq(Chars), Len(p) >= 3, p[1] \notin Slashes
  PROVE  LET f == Fixed(p) IN
         /\ f[1] = p[1] /\ Len(f) >= 2 /\ f[2] = Written(p[2])
         /\ p[2] \notin Slashes => Len(f) >= 3 /\ f[3] = Written(p[3])
<1>1. Len(p) \in Nat /\ {1, 2, 3} \subseteq 1..Len(p)
  BY LenProperties
<1>2. PICK g : Runs(g, p) /\ Fixed(p) = g[Len(p)]
  BY LoopEnds
<1>3. /\ p[1] \in Chars /\ p[2] \in Chars /\ p[3] \in Chars
  BY <1>1, ElementOfSeq
<1>4. Written(p[1]) = p[1] /\ (p[2] \notin Slashes => Written(p[2]) = p[2])
  BY <1>3, WrittenFields
<1>5. g[0] = <<>> /\ Len(<<>>) = 0 /\ 1 - 1 = 0 /\ 2 - 1 = 1 /\ 3 - 1 = 2
  BY <1>2 DEF Runs
<1>6. Len(g[1]) = 1 /\ g[1][1] = p[1]
  <2>1. /\ Len(g[1]) = Len(g[1 - 1]) + 1 /\ g[1][Len(g[1])] = Written(p[1])
    BY <1>1, <1>2, StepFields
  <2> QED BY <1>4, <1>5, <2>1
<1>7. Len(g[2]) = 2 /\ g[2][2] = Written(p[2]) /\ g[2][1] = p[1]
  <2>1. g[2 - 1][Len(g[2 - 1])] \notin Slashes
    BY <1>5, <1>6
  <2>2. /\ Len(g[2]) = Len(g[2 - 1]) + 1 /\ g[2][Len(g[2])] = Written(p[2])
        /\ \A i \in 1..Len(g[2 - 1]) : g[2][i] = g[2 - 1][i]
    BY <1>1, <1>2, <2>1, StepFields
  <2>3. 1 \in 1..Len(g[1])
    BY <1>6
  <2> QED BY <1>5, <1>6, <2>2, <2>3
<1>8. ASSUME p[2] \notin Slashes
      PROVE  Len(g[3]) = 3 /\ g[3][3] = Written(p[3])
  <2>1. g[3 - 1][Len(g[3 - 1])] \notin Slashes
    BY <1>4, <1>5, <1>7, <1>8
  <2>2. Len(g[3]) = Len(g[3 - 1]) + 1 /\ g[3][Len(g[3])] = Written(p[3])
    BY <1>1, <1>2, <2>1, StepFields
  <2>3. Len(g[3]) = 3
    <3>1. g[3 - 1] = g[2]
      BY <1>5
    <3>2. Len(g[2]) = 2
      BY <1>7
    <3>3. Len(g[3]) = Len(g[2]) + 1
      BY <2>2, <3>1
    <3> QED BY <3>2, <3>3
  <2> QED BY <2>2, <2>3
<1>9. ASSUME NEW m \in {2, 3}
      PROVE  Len(g[m]) <= Len(Fixed(p)) /\ \A i \in 1..Len(g[m]) : Fixed(p)[i] = g[m][i]
  <2>1. m \in 0..Len(p) /\ Len(p) \in m..Len(p)
    BY <1>1
  <2> QED BY <1>2, <2>1, Grows
<1>10. Len(Fixed(p)) \in Nat
  BY FixedFields, LenProperties
<1>11. Len(Fixed(p)) >= 2 /\ Fixed(p)[1] = p[1] /\ Fixed(p)[2] = Written(p[2])
  <2>1. Len(g[2]) <= Len(Fixed(p)) /\ \A i \in 1..2 : Fixed(p)[i] = g[2][i]
    BY <1>7, <1>9
  <2>2. 1 \in 1..2 /\ 2 \in 1..2
    OBVIOUS
  <2> QED BY <1>7, <1>10, <2>1, <2>2
<1>12. ASSUME p[2] \notin Slashes
       PROVE  Len(Fixed(p)) >= 3 /\ Fixed(p)[3] = Written(p[3])
  <2>1. Len(g[3]) <= Len(Fixed(p)) /\ \A i \in 1..3 : Fixed(p)[i] = g[3][i]
    BY <1>8, <1>9, <1>12
  <2>2. 3 \in 1..3
    OBVIOUS
  <2> QED BY <1>8, <1>10, <1>12, <2>1, <2>2
<1> QED BY <1>11, <1>12

LEMMA SameDrive ==
  ASSUME NEW p \in Seq(Chars)
  PROVE  /\ HasDrive(Fixed(p)) <=> HasDrive(p)
         /\ Drive(Fixed(p)) = Drive(p)
<1>1. PICK f : f = Fixed(p)
  OBVIOUS
<1>2. /\ Len(p) \in Nat /\ Len(f) \in Nat /\ Len(f) <= Len(p)
      /\ Len(p) > 0 => f[1] = Written(p[1])
  BY <1>1, FixedFields, LenProperties
<1>3. \A c \in DriveLetters : c \in Chars /\ c \notin Slashes
  BY PathAssumption DEF Slashes
<1>4. ASSUME HasDrive(p) PROVE HasDrive(f) /\ f[1] = p[1]
  <2>1. /\ Len(p) >= 3 /\ p[2] = ":" /\ p[3] \in Slashes /\ p[1] \in DriveLetters
    BY <1>4 DEF HasDrive, IsSlash, Slashes
  <2>2. p[1] \notin Slashes /\ p[2] \notin Slashes
    BY <1>3, <2>1 DEF Slashes
  <2>3. /\ f[1] = p[1] /\ Len(f) >= 3 /\ f[2] = Written(p[2]) /\ f[3] = Written(p[3])
    BY <1>1, <2>1, <2>2, FirstThree
  <2>4. f[2] = ":" /\ f[3] \in Slashes
    BY <2>1, <2>3 DEF Written, Slashes
  <2> QED BY <2>1, <2>3, <2>4 DEF HasDrive, IsSlash, Slashes
<1>5. ASSUME HasDrive(f) PROVE HasDrive(p) /\ f[1] = p[1]
  <2>1. /\ Len(f) >= 3 /\ f[2] = ":" /\ f[3] \in Slashes /\ f[1] \in DriveLetters
    BY <1>5 DEF HasDrive, IsSlash, Slashes
  <2>2. Len(p) >= 3 /\ Len(p) > 0 /\ {1, 2, 3} \subseteq 1..Len(p)
    BY <1>2, <2>1
  <2>3. p[1] \in Chars /\ p[2] \in Chars /\ p[3] \in Chars
    BY <2>2, ElementOfSeq
  <2>4. f[1] \notin Slashes
    BY <1>3, <2>1
  <2>5. p[1] \notin Slashes
    BY <1>2, <2>2, <2>3, <2>4, WrittenFields
  <2>6. f[1] = p[1] /\ f[2] = Written(p[2])
    BY <1>1, <2>2, <2>5, FirstThree
  <2>7. p[2] = ":"
    BY <2>1, <2>6 DEF Written
  <2>8. p[2] \notin Slashes
    BY <2>7 DEF Slashes
  <2>9. f[3] = Written(p[3])
    BY <1>1, <2>2, <2>5, <2>8, FirstThree
  <2>10. p[3] \in Slashes
    BY <2>1, <2>3, <2>9, WrittenFields
  <2> QED BY <2>1, <2>2, <2>6, <2>7, <2>10 DEF HasDrive, IsSlash, Slashes
<1> QED BY <1>1, <1>4, <1>5 DEF Drive

LEMMA SameRoot ==
  ASSUME NEW p \in Seq(Chars)
  PROVE  IsAbsolute(Fixed(p)) <=> IsAbsolute(p)
<1>1. PICK f : f = Fixed(p)
  OBVIOUS
<1>2. /\ f \in Seq(Chars) /\ Len(p) \in Nat /\ Len(f) \in 0..Len(p)
      /\ Len(p) > 0 => Len(f) > 0 /\ f[1] = Written(p[1])
  BY <1>1, FixedFields, LenProperties
<1>3. Len(<<>>) = 0
  OBVIOUS
<1>4. (p = <<>> <=> Len(p) = 0) /\ (f = <<>> <=> Len(f) = 0)
  BY <1>2, <1>3, EmptySeq
<1>5. HasDrive(f) <=> HasDrive(p)
  BY <1>1, SameDrive
<1>6. CASE Len(p) = 0
  <2>1. Len(f) = 0
    BY <1>2, <1>6
  <2> QED BY <1>1, <1>4, <1>5, <1>6, <2>1 DEF IsAbsolute
<1>7. CASE Len(p) # 0
  <2>1. Len(p) > 0 /\ 1 \in 1..Len(p)
    BY <1>2, <1>7
  <2>2. p[1] \in Chars
    BY <2>1, ElementOfSeq
  <2>3. Len(f) # 0 /\ (f[1] \in Slashes <=> p[1] \in Slashes)
    BY <1>2, <2>1, <2>2, WrittenFields
  <2> QED BY <1>1, <1>4, <1>5, <1>7, <2>3 DEF IsAbsolute, IsSlash, Slashes
<1> QED BY <1>6, <1>7

LEMMA Keeps == IInv => FixKeepsMeaning
<1> SUFFICES ASSUME IInv PROVE FixKeepsMeaning
  OBVIOUS
<1>1. path \in Seq(Chars) /\ Len(path) <= Npos /\ Len(path) \in Nat
  BY Short
<1>2. PICK p : p = Fixed(path)
  OBVIOUS
<1>3. p \in Seq(Chars) /\ Clean(p) /\ Len(p) \in Nat /\ DOMAIN p = 1..Len(p)
  BY <1>1, <1>2, FixedFields, LenProperties
<1>4. \A k \in DOMAIN p : p[k] # "/"
  BY <1>3 DEF Clean
<1>5. \A k \in DOMAIN p \ {1} : ~(IsSlash(p[k - 1]) /\ IsSlash(p[k]))
  <2>1. \A k \in DOMAIN p \ {1} : k \in 2..Len(p)
    BY <1>3
  <2> QED BY <1>3, <2>1 DEF Clean, IsSlash, Slashes
<1>6. Fixed(p) = p
  BY <1>3, CleanStays
<1>7. Fixed(Preferred(path)) = p
  <2>1. PICK q : q = Preferred(path)
    OBVIOUS
  <2>2. DOMAIN path = 1..Len(path) /\ \A k \in 1..Len(path) : path[k] \in Chars
    BY <1>1, LenProperties, ElementOfSeq
  <2>3. \A k \in 1..Len(path) : Written(path[k]) \in Chars
    BY <2>2, WrittenFields
  <2>4. q = [k \in 1..Len(path) |-> Written(path[k])]
    BY <2>1, <2>2 DEF Preferred
  <2>5. q \in Seq(Chars) /\ Len(q) = Len(path)
    BY <1>1, <2>3, <2>4
  <2>6. \A k \in 1..Len(path) : Written(path[k]) = Written(q[k])
    BY <2>2, <2>4, WrittenFields
  <2>7. Fixed(path) = Fixed(q)
    BY <1>1, <2>5, <2>6, SameSteps
  <2> QED BY <1>2, <2>1, <2>7
<1>8. Drive(p) = Drive(path)
  BY <1>1, <1>2, SameDrive
<1>9. IsAbsolute(p) = IsAbsolute(path)
  <2>1. IsAbsolute(p) <=> IsAbsolute(path)
    BY <1>1, <1>2, SameRoot
  <2>2. IsAbsolute(p) \in BOOLEAN /\ IsAbsolute(path) \in BOOLEAN
    BY DEF IsAbsolute
  <2> QED BY <2>1, <2>2
<1>10. Filename(p) = Filename(path)
  BY <1>1, <1>2, SameName
<1>11. /\ Len(p) = Cardinality(Kept(path))
       /\ \A k \in Kept(path) : p[Rank(path, k)] = Written(path[k])
  BY <1>1, <1>2, NothingElseLeftOut
<1> QED
  BY <1>2, <1>4, <1>5, <1>6, <1>7, <1>8, <1>9, <1>10, <1>11 DEF FixKeepsMeaning

-----------------------------------------------------------------------------
(* Every method makes a string of characters of one.                       *)

LEMMA PutTogether ==
  ASSUME NEW u \in Seq(Chars), NEW c \in Chars, NEW v \in Seq(Chars)
  PROVE  u \o <<c>> \o v \in Seq(Chars)
BY JoinedFields

LEMMA EditTypes ==
  ASSUME NEW p \in Seq(Chars), Len(p) <= Npos
  PROVE  /\ Fixed(p) \in Seq(Chars) /\ Preferred(p) \in Seq(Chars)
         /\ ExtensionRemoved(p) \in Seq(Chars) /\ FilenameRemoved(p) \in Seq(Chars)
         /\ \A r \in Seq(Chars) : ExtensionReplaced(p, r) \in Seq(Chars)
                                  /\ FilenameReplaced(p, r) \in Seq(Chars)
<1>1. Fixed(p) \in Seq(Chars)
  BY FixedFields
<1>2. Preferred(p) \in Seq(Chars)
  <2>1. Len(p) \in Nat /\ DOMAIN p = 1..Len(p) /\ \A k \in 1..Len(p) : p[k] \in Chars
    BY LenProperties, ElementOfSeq
  <2>2. \A k \in 1..Len(p) : Written(p[k]) \in Chars
    BY <2>1, WrittenFields
  <2>3. Preferred(p) = [k \in 1..Len(p) |-> Written(p[k])]
    BY <2>1 DEF Preferred
  <2> QED BY <2>1, <2>2, <2>3
<1>3. ExtensionRemoved(p) \in Seq(Chars)
  <2>1. CASE HasExtension(p)
    BY <2>1, ExtensionFields
  <2>2. CASE ~HasExtension(p)
    BY <2>2 DEF ExtensionRemoved
  <2> QED BY <2>1, <2>2
<1>4. FilenameRemoved(p) \in Seq(Chars)
  <2>1. CASE HasFilename(p)
    BY <2>1, NameFields
  <2>2. CASE ~HasFilename(p)
    BY <2>2 DEF FilenameRemoved
  <2> QED BY <2>1, <2>2
<1>5. ASSUME NEW r \in Seq(Chars)
      PROVE  /\ ExtensionReplaced(p, r) \in Seq(Chars)
             /\ FilenameReplaced(p, r) \in Seq(Chars)
  <2>1. {".", "\\"} \subseteq Chars
    BY PathAssumption
  <2>2. ExtensionReplaced(p, r) \in Seq(Chars)
    <3>1. ExtensionRemoved(p) \o <<".">> \o r \in Seq(Chars)
      BY <1>3, <2>1, PutTogether
    <3> QED BY <3>1 DEF ExtensionReplaced
  <2>3. FilenameReplaced(p, r) \in Seq(Chars)
    <3>1. FilenameRemoved(p) \o <<"\\">> \o r \in Seq(Chars)
      BY <1>4, <2>1, PutTogether
    <3> QED BY <3>1 DEF FilenameReplaced
  <2> QED BY <2>2, <2>3
<1> QED BY <1>1, <1>2, <1>3, <1>4, <1>5

LEMMA MakePathKeeps == IInv /\ MakePath => IInv'
<1> SUFFICES ASSUME IInv, MakePath PROVE IInv'
  OBVIOUS
<1>1. path \in Seq(Chars) /\ {"\\", "nul"} \subseteq Chars /\ <<>> \in Seq(Chars)
  BY Short, PathAssumption
<1>2. CASE \E before, now \in Folders : Becomes(InFolder(path, before, now))
  <2>1. PICK before \in Folders, now \in Folders : Becomes(InFolder(path, before, now))
    BY <1>2
  <2>2. now \in Seq(Chars)
    BY Room
  <2>3. CurrentPath(before, now) \in Seq(Chars)
    BY <1>1, <2>2, AppendProperties DEF CurrentPath
  <2>4. InFolder(path, before, now) \in Seq(Chars)
    BY <1>1, <2>3, PutTogether DEF InFolder
  <2> QED BY <2>1, <2>4 DEF Becomes, IInv
<1>3. CASE \E exe \in Executables \cup {<<>>} : Becomes(ByExecutable(path, exe))
  <2>1. PICK exe \in Executables \cup {<<>>} : Becomes(ByExecutable(path, exe))
    BY <1>3
  <2>2. ByExecutable(path, exe) \in Seq(Chars)
    <3>1. CASE exe = <<>>
      BY <1>1, <3>1 DEF ByExecutable
    <3>2. CASE exe # <<>>
      <4>1. /\ exe \in Seq(Chars) /\ Len(exe) \in Nat
            /\ 2 * MaxLength + 2 * Len(exe) + 4 <= Npos
        BY <3>2, Room
      <4>2. Len(exe) <= Npos
        BY <4>1, Room
      <4>3. FilenameRemoved(exe) \in Seq(Chars)
        BY <4>1, <4>2, EditTypes
      <4> QED BY <1>1, <3>2, <4>3, PutTogether DEF ByExecutable
    <3> QED BY <3>1, <3>2
  <2> QED BY <2>1, <2>2 DEF Becomes, IInv
<1> QED BY <1>2, <1>3 DEF MakePath

LEMMA NextIInv == IInv /\ [Next]_path => IInv'
<1> SUFFICES ASSUME IInv, [Next]_path PROVE IInv'
  OBVIOUS
<1>1. path \in Seq(Chars) /\ Len(path) \in Nat /\ Len(path) <= Npos /\ <<>> \in Seq(Chars)
  BY Short
<1>2. \A r \in Inputs : r \in Seq(Chars)
  BY Room
<1>3. ASSUME NEW s \in Seq(Chars), Becomes(s) PROVE IInv'
  BY <1>3 DEF Becomes, IInv
<1>4. ASSUME NEW r \in Inputs, Assign(r) \/ AppendTo(r) PROVE IInv'
  <2>1. r \in Seq(Chars) /\ path \o r \in Seq(Chars)
    BY <1>1, <1>2, ConcatProperties
  <2> QED BY <1>3, <1>4, <2>1 DEF Assign, AppendTo
<1>5. ASSUME NEW c \in Chars, PushBack(c) PROVE IInv'
  <2>1. Append(path, c) \in Seq(Chars)
    BY <1>1, AppendProperties
  <2> QED BY <1>3, <1>5, <2>1 DEF PushBack
<1>6. CASE Clear
  BY <1>1, <1>3, <1>6 DEF Clear
<1>7. CASE Fix \/ MakePreferred \/ RemoveExtension \/ RemoveFilename
  <2>1. /\ Fixed(path) \in Seq(Chars) /\ Preferred(path) \in Seq(Chars)
        /\ ExtensionRemoved(path) \in Seq(Chars) /\ FilenameRemoved(path) \in Seq(Chars)
    BY <1>1, EditTypes
  <2> QED BY <1>3, <1>7, <2>1 DEF Fix, MakePreferred, RemoveExtension, RemoveFilename
<1>8. ASSUME NEW r \in Inputs, ReplaceExtension(r) \/ ReplaceFilename(r) PROVE IInv'
  <2>1. /\ ExtensionReplaced(path, r) \in Seq(Chars)
        /\ FilenameReplaced(path, r) \in Seq(Chars)
    BY <1>1, <1>2, EditTypes
  <2> QED BY <1>3, <1>8, <2>1 DEF ReplaceExtension, ReplaceFilename
<1>9. ASSUME NEW n \in 0..MaxLength, NEW c \in Chars, Resize(n, c) PROVE IInv'
  <2> DEFINE s == [k \in 1..n |-> IF k <= Len(path) THEN path[k] ELSE c]
  <2>1. n \in Nat
    BY Room
  <2>2. \A k \in 1..n : (IF k <= Len(path) THEN path[k] ELSE c) \in Chars
    <3>1. \A k \in 1..n : k <= Len(path) => k \in 1..Len(path)
      BY <1>1, <2>1
    <3> QED BY <1>1, <3>1, ElementOfSeq
  <2>3. s \in Seq(Chars)
    BY <2>1, <2>2
  <2>4. Becomes(s)
    BY <1>9 DEF Resize
  <2> HIDE DEF s
  <2> QED BY <1>3, <2>3, <2>4
<1>10. CASE MakePath
  BY <1>10, MakePathKeeps
<1>11. CASE UNCHANGED path
  BY <1>11 DEF IInv
<1> QED BY <1>4, <1>5, <1>6, <1>7, <1>8, <1>9, <1>10, <1>11 DEF Next

LEMMA InitIInv == Init => IInv
<1>1. <<>> \in Seq(Chars) /\ Len(<<>>) = 0
  OBVIOUS
<1>2. Len(<<>>) <= MaxLength
  BY <1>1, Room
<1> QED BY <1>1, <1>2 DEF Init, IInv

\* A path is a string of characters, as short as MaxLength has it.
LEMMA Bounded == Spec => []IInv
BY InitIInv, NextIInv, PTL DEF Spec

\* The file name and the extension add up with what is left of a path without them:
\* remove_filename() and remove_extension() take off what filename() and extension()
\* return and one separator, and nothing else
\* (path.cpp:181-193, 289-309).
THEOREM PartsOfPath == Spec => []PartsAddUp
BY Bounded, AddsUp, PTL

\* fix() leaves out slashes behind slashes and nothing else, and gives every path one
\* form, in one go; make_preferred() before it makes no difference
\* (path.cpp:196-212, 276-286).
THEOREM MeaningKept == Spec => []FixKeepsMeaning
BY Bounded, Keeps, PTL

\* replace_filename() and replace_extension() put the new part where it is found again,
\* and with the old one put back the path is as it was, with a backslash before a
\* file name: a path without a folder becomes absolute by it (path.cpp:312-329).
THEOREM ReplacementFound == Spec => []ReplacedIsFound
BY Bounded, Found, PTL

\* make_path() never returns a torn path, however the current directory changes
\* between the two system calls of current_path() (path.cpp:524-532, 571-588).
THEOREM PathMadeWhole == Spec => []MadeWhole
BY Bounded, Made, PTL
=============================================================================
