------------------------- MODULE SmallBuffer_proofs -------------------------
(***************************************************************************)
(* Proofs about SmallBuffer: types, the exactness of the heap, and that it *)
(* implements Buffer, for elements of any size and width of size_t.        *)
(***************************************************************************)
EXTENDS SmallBuffer, TLAPS

\* What the array holds when it is the storage: elements, and zeros after them.
CellsInUse ==
  \A k \in 1..InlineCells :
    IF k <= size THEN cells[k] \in Values ELSE cells[k] = Zero

\* What is left of it under a pointer: zeros after what the pointer covers.
CellsAside == \A k \in 1..InlineCells : k > PointerCells => cells[k] = Zero

\* A block holds the elements that its bytes have room for.
BlocksFilled == \A b \in Blocks : Len(heap[b]) = given[b] \div ElementBytes

IInv ==
  /\ TypeOK
  /\ BlocksFilled
  /\ HeapExact
  /\ UsesSbo => CellsInUse
  /\ ~UsesSbo => ptr \in Blocks /\ CellsAside /\ AllocatedBytes(size) # 0
  /\ ~alive => size = 0

-----------------------------------------------------------------------------
(* Sizes and bytes.                                                        *)

LEMMA Quotient ==
  \A w \in Nat, e \in Nat \ {0} :
    /\ w \div e \in Nat
    /\ (w \div e) * e <= w
    /\ w < (w \div e + 1) * e
OBVIOUS

LEMMA Monotone == \A x, y, e \in Nat : x <= y => x * e <= y * e
OBVIOUS

LEMMA Multiple == \A x \in Nat, e \in Nat \ {0} : x * e \in Nat /\ (x * e) \div e = x
OBVIOUS

LEMMA Modulo == \A x \in Nat, w \in Nat \ {0} : x < w => x % w = x
OBVIOUS

\* Sizes up to _Max_size() are those whose bytes can be counted.
LEMMA MaxSizeExact ==
  /\ MaxSize \in Nat
  /\ \A n \in Nat : n <= MaxSize <=> n * ElementBytes < W
<1> DEFINE q == (W - 1) \div ElementBytes
<1>1. /\ W - 1 \in Nat /\ ElementBytes \in Nat \ {0}
  BY SmallBufferAssumption
<1>2. /\ q \in Nat
      /\ q * ElementBytes <= W - 1
      /\ W - 1 < (q + 1) * ElementBytes
  BY <1>1, Quotient
<1> SUFFICES ASSUME NEW n \in Nat
             PROVE  n <= q <=> n * ElementBytes < W
  BY <1>2 DEF MaxSize
<1> HIDE DEF q
<1>3. n * ElementBytes \in Nat /\ q * ElementBytes \in Nat
      /\ (q + 1) * ElementBytes \in Nat /\ W \in Nat
  BY <1>1, <1>2, Multiple, SmallBufferAssumption
<1>4. CASE n <= q
  <2>1. n * ElementBytes <= q * ElementBytes
    BY <1>1, <1>2, <1>4, Monotone
  <2> QED BY <2>1, <1>2, <1>3, <1>4
<1>5. CASE ~(n <= q)
  <2>1. (q + 1) * ElementBytes <= n * ElementBytes
    BY <1>1, <1>2, <1>5, Monotone
  <2> QED BY <2>1, <1>2, <1>3, <1>5
<1> QED BY <1>4, <1>5

LEMMA InlineFits == InlineCells \in 0..MaxSize /\ MaxSize \in 0..(W - 1)
<1>1. InlineCells \in Nat /\ ElementBytes \in Nat \ {0} /\ W \in Nat
  BY SmallBufferAssumption
<1>2. InlineCells * ElementBytes <= (InlineCells + 1) * ElementBytes
  BY <1>1, Monotone
<1>3. ElementBytes * (InlineCells + 1) = (InlineCells + 1) * ElementBytes
  BY <1>1
<1>4. /\ InlineCells * ElementBytes \in Nat
      /\ (InlineCells + 1) * ElementBytes \in Nat
  BY <1>1, Multiple
<1>5. InlineCells * ElementBytes < W
  BY <1>1, <1>2, <1>3, <1>4, SmallBufferAssumption
<1>6. MaxSize \in Nat /\ MaxSize * ElementBytes < W
  BY MaxSizeExact
<1>7. MaxSize * 1 <= MaxSize * ElementBytes
  BY <1>1, <1>6
<1>8. MaxSize * ElementBytes \in Nat
  BY <1>1, <1>6, Multiple
<1>9. MaxSize \in 0..(W - 1)
  BY <1>1, <1>6, <1>7, <1>8
<1> QED BY <1>1, <1>5, <1>9, MaxSizeExact

LEMMA Bytes ==
  \A n \in Nat : /\ AllocatedBytes(n) \in 0..(W - 1)
                 /\ AllocatedBytes(n) \div ElementBytes \in 0..n
<1> SUFFICES ASSUME NEW n \in Nat
             PROVE  /\ AllocatedBytes(n) \in 0..(W - 1)
                    /\ AllocatedBytes(n) \div ElementBytes \in 0..n
  OBVIOUS
<1>1. ElementBytes \in Nat \ {0} /\ W \in Nat \ {0}
  BY SmallBufferAssumption
<1> DEFINE x == n * ElementBytes
<1>2. x \in Nat
  BY <1>1, Multiple
<1>3. AllocatedBytes(n) = x % W
  BY DEF AllocatedBytes
<1> HIDE DEF x
<1>4. x % W \in 0..(W - 1) /\ x % W <= x
  BY <1>1, <1>2
<1> DEFINE a == x % W
<1>5. a \in Nat /\ a <= x
  BY <1>4
<1> HIDE DEF a
<1> DEFINE q == a \div ElementBytes
<1>6. q \in Nat /\ q * ElementBytes <= a
  BY <1>1, <1>5, Quotient
<1> HIDE DEF q
<1>7. ~(q > n)
  <2> SUFFICES ASSUME q > n PROVE FALSE
    OBVIOUS
  <2>1. (n + 1) * ElementBytes <= q * ElementBytes
    BY <1>1, <1>6, Monotone
  <2>2. (n + 1) * ElementBytes = x + ElementBytes
    BY <1>1 DEF x
  <2>3. q * ElementBytes \in Nat
    BY <1>1, <1>6, Multiple
  <2> QED BY <1>1, <1>2, <1>5, <1>6, <2>1, <2>2, <2>3
<1> QED BY <1>3, <1>4, <1>6, <1>7 DEF q, a

\* The allocator gives as many elements as it is asked for.
LEMMA AllocatedExact ==
  \A n \in Nat : n <= MaxSize => AllocatedBytes(n) \div ElementBytes = n
<1> SUFFICES ASSUME NEW n \in Nat, n <= MaxSize
             PROVE  AllocatedBytes(n) \div ElementBytes = n
  OBVIOUS
<1>1. ElementBytes \in Nat \ {0} /\ W \in Nat \ {0}
  BY SmallBufferAssumption
<1>2. n * ElementBytes \in Nat /\ (n * ElementBytes) \div ElementBytes = n
  BY <1>1, Multiple
<1>3. n * ElementBytes < W
  BY MaxSizeExact
<1>4. (n * ElementBytes) % W = n * ElementBytes
  BY <1>1, <1>2, <1>3, Modulo
<1> QED BY <1>2, <1>4 DEF AllocatedBytes

-----------------------------------------------------------------------------
(* Memory.                                                                 *)

LEMMA Whole ==
  ASSUME NEW S, NEW n \in Nat, NEW es \in [1..n -> S]
  PROVE  SubSeq(es, 1, n) = es /\ es \in Seq(S) /\ Len(es) = n
OBVIOUS

LEMMA Front ==
  ASSUME NEW S, NEW N \in Nat, NEW c \in [1..N -> S], NEW n \in 0..N
  PROVE  SubSeq(c, 1, n) = [k \in 1..n |-> c[k]]
OBVIOUS

\* A block is as large as its bytes allow, and holds the front of what it is given.
LEMMA Filled ==
  ASSUME NEW n \in Nat, NEW es \in [1..n -> Values]
  PROVE  /\ Block(n, es) \in Seq(Values)
         /\ Len(Block(n, es)) = AllocatedBytes(n) \div ElementBytes
         /\ \A k \in DOMAIN Block(n, es) : k \in 1..n /\ Block(n, es)[k] = es[k]
<1> DEFINE m == AllocatedBytes(n) \div ElementBytes
<1>1. m \in 0..n
  BY Bytes
<1>2. Block(n, es) = SubSeq(es, 1, m)
  BY DEF Block
<1> HIDE DEF m
<1>3. SubSeq(es, 1, m) = [k \in 1..m |-> es[k]]
  BY <1>1, Front
<1> QED BY <1>1, <1>2, <1>3 DEF m

\* A block for a size that can be counted in bytes is large enough.
LEMMA FilledWhole ==
  ASSUME NEW n \in Nat, n <= MaxSize, NEW es \in [1..n -> Values]
  PROVE  Block(n, es) = es /\ es \in Seq(Values) /\ Len(es) = n
BY AllocatedExact, Whole DEF Block

\* What a new block has, when it is there.
LEMMA GetsFields ==
  ASSUME IInv, NEW n \in Nat, NEW es \in [1..n -> Values], NEW b \in Blocks, Gets(b, n, es)
  PROVE  /\ AllocatedBytes(n) # 0 /\ given[b] = 0
         /\ given' = [given EXCEPT ![b] = AllocatedBytes(n)]
         /\ heap' = [heap EXCEPT ![b] = Block(n, es)]
         /\ given' \in [Blocks -> 0..(W - 1)] /\ heap' \in [Blocks -> Seq(Values)]
         /\ BlocksFilled' /\ heap'[b] = Block(n, es)
<1>1. /\ AllocatedBytes(n) # 0 /\ given[b] = 0
      /\ given' = [given EXCEPT ![b] = AllocatedBytes(n)]
      /\ heap' = [heap EXCEPT ![b] = Block(n, es)]
  BY DEF Gets, Free
<1>2. AllocatedBytes(n) \in 0..(W - 1)
  BY Bytes
<1>3. Block(n, es) \in Seq(Values)
      /\ Len(Block(n, es)) = AllocatedBytes(n) \div ElementBytes
  BY Filled
<1>4. given \in [Blocks -> 0..(W - 1)] /\ heap \in [Blocks -> Seq(Values)] /\ BlocksFilled
  BY DEF IInv, TypeOK
<1> QED BY <1>1, <1>2, <1>3, <1>4 DEF BlocksFilled

LEMMA ExchangesFields ==
  ASSUME IInv, ~UsesSbo, NEW n \in Nat, NEW es \in [1..n -> Values], NEW b \in Blocks,
         Exchanges(b, n, es)
  PROVE  /\ AllocatedBytes(n) # 0 /\ b # ptr /\ ptr \in Blocks
         /\ given' = [given EXCEPT ![b] = AllocatedBytes(n), ![ptr] = 0]
         /\ given' \in [Blocks -> 0..(W - 1)] /\ heap' \in [Blocks -> Seq(Values)]
         /\ BlocksFilled' /\ heap'[b] = Block(n, es)
<1>1. /\ AllocatedBytes(n) # 0 /\ given[b] = 0
      /\ given' = [given EXCEPT ![b] = AllocatedBytes(n), ![ptr] = 0]
      /\ heap' = [heap EXCEPT ![b] = Block(n, es), ![ptr] = <<>>]
  BY DEF Exchanges, Free
<1>2. AllocatedBytes(n) \in 0..(W - 1) /\ 0 \in 0..(W - 1)
  BY Bytes, SmallBufferAssumption
<1>3. Block(n, es) \in Seq(Values)
      /\ Len(Block(n, es)) = AllocatedBytes(n) \div ElementBytes
  BY Filled
<1>4. given \in [Blocks -> 0..(W - 1)] /\ heap \in [Blocks -> Seq(Values)] /\ BlocksFilled
  BY DEF IInv, TypeOK
<1>5. b # ptr /\ ptr \in Blocks
  BY <1>1 DEF IInv, HeapExact
<1>6. <<>> \in Seq(Values) /\ Len(<<>>) = 0 \div ElementBytes
  BY SmallBufferAssumption
<1> QED BY <1>1, <1>2, <1>3, <1>4, <1>5, <1>6 DEF BlocksFilled

LEMMA FreesFields ==
  ASSUME IInv, ~UsesSbo, Frees
  PROVE  /\ ptr \in Blocks /\ given' = [given EXCEPT ![ptr] = 0]
         /\ given' \in [Blocks -> 0..(W - 1)] /\ heap' \in [Blocks -> Seq(Values)]
         /\ BlocksFilled'
<1>1. given' = [given EXCEPT ![ptr] = 0] /\ heap' = [heap EXCEPT ![ptr] = <<>>]
      /\ ptr \in Blocks
  BY DEF Frees, IInv
<1>2. given \in [Blocks -> 0..(W - 1)] /\ heap \in [Blocks -> Seq(Values)] /\ BlocksFilled
  BY DEF IInv, TypeOK
<1>3. <<>> \in Seq(Values) /\ Len(<<>>) = 0 \div ElementBytes /\ 0 \in 0..(W - 1)
  BY SmallBufferAssumption
<1> QED BY <1>1, <1>2, <1>3 DEF BlocksFilled

Elements ==
  /\ View \in Seq(Values \cup {Outside}) /\ Len(View) = size
  /\ \A k \in 1..size :
       View[k] = IF UsesSbo THEN cells[k]
                 ELSE IF k \in DOMAIN heap[ptr] THEN heap[ptr][k] ELSE Outside

LEMMA ViewElements == IInv => Elements
<1> SUFFICES ASSUME IInv PROVE Elements
  OBVIOUS
<1>1. CASE UsesSbo
  <2>1. InlineCells \in Nat /\ size \in 0..InlineCells
    BY <1>1, SmallBufferAssumption DEF IInv, TypeOK, UsesSbo
  <2>2. View = [k \in 1..size |-> cells[k]]
    BY <1>1, <2>1, Front DEF View, IInv, TypeOK
  <2>3. View \in [1..size -> Values]
    BY <1>1, <2>1, <2>2 DEF IInv, CellsInUse
  <2> QED BY <1>1, <2>1, <2>2, <2>3, Whole DEF Elements
<1>2. CASE ~UsesSbo
  <2>1. size \in Nat /\ ptr \in Blocks /\ heap[ptr] \in Seq(Values)
    BY <1>2, SmallBufferAssumption DEF IInv, TypeOK
  <2>2. View = [k \in 1..size |-> IF k \in DOMAIN heap[ptr] THEN heap[ptr][k] ELSE Outside]
    BY <1>2 DEF View
  <2>3. View \in [1..size -> Values \cup {Outside}]
    BY <2>1, <2>2
  <2> QED BY <1>2, <2>1, <2>2, <2>3, Whole DEF Elements
<1> QED BY <1>1, <1>2

LEMMA ViewElementsNext == IInv' => Elements'
BY ViewElements, PTL

-----------------------------------------------------------------------------
(* The invariant, one action at a time.                                    *)

LEMMA InitIInv == Init => IInv
<1> SUFFICES ASSUME Init PROVE IInv
  OBVIOUS
<1> USE SmallBufferAssumption, InlineFits
<1>1. TypeOK
  <2>1. heap \in [Blocks -> Seq(Values)] /\ given \in [Blocks -> 0..(W - 1)]
    BY DEF Init
  <2>2. cells \in [1..InlineCells -> Values \cup {PointerByte}]
    BY DEF Init, Zeros
  <2>3. size \in 0..(W - 1)
    BY DEF Init
  <2> QED BY <2>1, <2>2, <2>3 DEF Init, TypeOK
<1>2. HeapExact
  BY DEF Init, HeapExact, UsesSbo
<1>3. UsesSbo /\ CellsInUse
  BY DEF Init, UsesSbo, CellsInUse, Zeros
<1>4. BlocksFilled
  BY DEF Init, BlocksFilled
<1> QED BY <1>1, <1>2, <1>3, <1>4 DEF Init, IInv

LEMMA ConstructIInv == IInv /\ Construct => IInv'
<1> SUFFICES ASSUME IInv, Construct PROVE IInv'
  OBVIOUS
<1> USE SmallBufferAssumption, InlineFits DEF Construct, StoreCells, heapVars
<1>1. TypeOK'
  BY DEF IInv, TypeOK, Zeros, Null
<1>2. HeapExact' /\ BlocksFilled'
  BY DEF IInv, HeapExact, BlocksFilled, UsesSbo
<1>3. UsesSbo' /\ CellsInUse'
  BY DEF UsesSbo, CellsInUse, Zeros
<1> QED BY <1>1, <1>2, <1>3 DEF IInv

LEMMA PutIInv ==
  ASSUME IInv, alive, NEW k \in 1..(W - 1), NEW v \in Values, Put(k, v)
  PROVE  IInv'
<1> USE SmallBufferAssumption, InlineFits DEF Put
<1>1. CASE UsesSbo
  <2>1. TypeOK'
    BY <1>1 DEF IInv, TypeOK, UsesSbo
  <2>2. HeapExact' /\ BlocksFilled'
    BY <1>1 DEF IInv, HeapExact, BlocksFilled, UsesSbo
  <2>3. UsesSbo' /\ CellsInUse'
    BY <1>1 DEF IInv, TypeOK, UsesSbo, CellsInUse
  <2> QED BY <2>1, <2>2, <2>3 DEF IInv
<1>2. CASE ~UsesSbo
  <2>1. /\ ptr \in Blocks /\ heap[ptr] \in Seq(Values)
        /\ UNCHANGED <<cells, size, ptr, given, alive, answer>>
    BY <1>2 DEF IInv, TypeOK
  <2>2. heap' \in [Blocks -> Seq(Values)] /\ \A b \in Blocks : Len(heap'[b]) = Len(heap[b])
    <3>1. CASE k \notin DOMAIN heap[ptr]
      BY <1>2, <3>1 DEF IInv, TypeOK
    <3>2. CASE k \in DOMAIN heap[ptr]
      <4> DEFINE h == [heap[ptr] EXCEPT ![k] = v]
      <4>1. h \in Seq(Values) /\ Len(h) = Len(heap[ptr])
        BY <2>1, <3>2
      <4> HIDE DEF h
      <4>2. heap' = [heap EXCEPT ![ptr] = h]
        BY <1>2, <3>2 DEF h
      <4> QED BY <2>1, <4>1, <4>2 DEF IInv, TypeOK
    <3> QED BY <3>1, <3>2
  <2>3. TypeOK'
    BY <2>1, <2>2 DEF IInv, TypeOK
  <2>4. HeapExact' /\ BlocksFilled'
    BY <1>2, <2>1, <2>2 DEF IInv, TypeOK, HeapExact, BlocksFilled, UsesSbo
  <2>5. ~UsesSbo' /\ ptr' \in Blocks /\ CellsAside' /\ AllocatedBytes(size') # 0
    BY <1>2, <2>1 DEF IInv, UsesSbo, CellsAside
  <2> QED BY <2>1, <2>3, <2>4, <2>5 DEF IInv
<1> QED BY <1>1, <1>2

\* What _Release() leaves, whether it is called or is a part of _Resize().
LEMMA EmptyIInv ==
  ASSUME IInv, Empty, alive' \in BOOLEAN, answer' \in BOOLEAN
  PROVE  IInv'
<1> USE SmallBufferAssumption, InlineFits DEF Empty, StoreCells, StorePtr
<1>1. UsesSbo'
  BY DEF UsesSbo
<1>2. CASE UsesSbo
  <2>1. TypeOK'
    BY <1>2 DEF IInv, TypeOK, Zeros, Null, heapVars
  <2>2. HeapExact' /\ BlocksFilled'
    BY <1>1, <1>2 DEF IInv, HeapExact, BlocksFilled, heapVars
  <2>3. CellsInUse'
    BY <1>2 DEF IInv, CellsInUse, Zeros
  <2> QED BY <1>1, <2>1, <2>2, <2>3 DEF IInv
<1>3. CASE ~UsesSbo
  <2>1. ptr \in Blocks /\ CellsAside
    BY <1>3 DEF IInv
  <2>2. /\ Frees /\ ptr' = Null /\ size' = 0
        /\ cells' = [k \in DOMAIN cells |-> IF k > PointerCells THEN cells[k] ELSE Zero]
    BY <1>3
  <2>3. /\ given' = [given EXCEPT ![ptr] = 0] /\ BlocksFilled'
        /\ given' \in [Blocks -> 0..(W - 1)] /\ heap' \in [Blocks -> Seq(Values)]
    BY <1>3, <2>2, FreesFields
  <2>4. TypeOK'
    BY <2>2, <2>3 DEF IInv, TypeOK
  <2>5. HeapExact'
    BY <1>1, <1>3, <2>1, <2>2, <2>3 DEF IInv, TypeOK, HeapExact
  <2>6. CellsInUse'
    BY <2>1, <2>2 DEF IInv, TypeOK, CellsInUse, CellsAside
  <2> QED BY <1>1, <2>2, <2>3, <2>4, <2>5, <2>6 DEF IInv
<1> QED BY <1>2, <1>3

LEMMA DestroyIInv == IInv /\ Destroy => IInv'
<1> SUFFICES ASSUME IInv, Destroy PROVE IInv'
  OBVIOUS
<1> USE SmallBufferAssumption, InlineFits DEF Destroy, StoreCells
<1>1. UsesSbo' /\ CellsInUse'
  BY DEF UsesSbo, CellsInUse, Zeros
<1>2. /\ given' = IF UsesSbo THEN given ELSE [given EXCEPT ![ptr] = 0]
      /\ given' \in [Blocks -> 0..(W - 1)] /\ heap' \in [Blocks -> Seq(Values)]
      /\ BlocksFilled'
  <2>1. CASE UsesSbo
    BY <2>1 DEF IInv, TypeOK, BlocksFilled, heapVars
  <2>2. CASE ~UsesSbo
    BY <2>2, FreesFields
  <2> QED BY <2>1, <2>2
<1>3. TypeOK'
  <2>1. cells' \in [1..InlineCells -> Values \cup {PointerByte}]
    BY DEF Zeros
  <2>2. ptr' \in {Null} \cup Blocks /\ size' \in 0..(W - 1)
    OBVIOUS
  <2>3. alive' \in BOOLEAN /\ answer' \in BOOLEAN
    BY DEF IInv, TypeOK
  <2> QED BY <1>2, <2>1, <2>2, <2>3 DEF TypeOK
<1>4. HeapExact'
  BY <1>1, <1>2 DEF IInv, TypeOK, HeapExact
<1> QED BY <1>1, <1>2, <1>3, <1>4 DEF IInv

LEMMA PrepareIInv == ASSUME IInv, alive, NEW n \in Nat, Prepare(n) PROVE IInv'
<1> USE SmallBufferAssumption, InlineFits DEF Prepare, StoreCells, Answers, heapVars
<1>1. UsesSbo' /\ CellsInUse'
  BY DEF UsesSbo, CellsInUse, Zeros
<1>2. TypeOK'
  BY DEF IInv, TypeOK, Zeros, Null
<1>3. HeapExact' /\ BlocksFilled'
  BY <1>1 DEF IInv, HeapExact, BlocksFilled, UsesSbo
<1> QED BY <1>1, <1>2, <1>3 DEF IInv

LEMMA StayInsideIInv == ASSUME IInv, NEW n \in Nat, StayInside(n) PROVE IInv'
<1> USE SmallBufferAssumption, InlineFits DEF StayInside, Changes, Answers, heapVars
<1>1. UsesSbo' /\ CellsInUse'
  BY DEF IInv, TypeOK, UsesSbo, CellsInUse
<1>2. TypeOK'
  BY DEF IInv, TypeOK
<1>3. HeapExact' /\ BlocksFilled'
  BY <1>1 DEF IInv, HeapExact, BlocksFilled
<1> QED BY <1>1, <1>2, <1>3 DEF IInv

LEMMA AllocateIInv ==
  ASSUME IInv, alive, NEW n \in 0..(W - 1), Allocate(n)
  PROVE  IInv'
<1> USE SmallBufferAssumption, InlineFits DEF StorePtr, Answers
<1>1. size = 0 /\ n > InlineCells /\ UsesSbo /\ CellsInUse
  BY DEF Allocate, IInv, UsesSbo
<1>2. CASE StorePtr(cells, Null) /\ UNCHANGED <<size, heapVars>> /\ Answers(FALSE)
  <2>1. UsesSbo' /\ CellsInUse'
    BY <1>1, <1>2 DEF IInv, TypeOK, UsesSbo, CellsInUse
  <2>2. TypeOK'
    BY <1>2 DEF IInv, TypeOK, Null, heapVars
  <2>3. HeapExact' /\ BlocksFilled'
    BY <1>1, <1>2, <2>1 DEF IInv, HeapExact, BlocksFilled, heapVars
  <2> QED BY <1>2, <2>1, <2>2, <2>3 DEF IInv
<1>3. ASSUME NEW b \in Blocks, Gets(b, n, Zeros(n)), StorePtr(cells, b),
             size' = n, Answers(TRUE)
      PROVE  IInv'
  <2>1. Zeros(n) \in [1..n -> Values] /\ n \in Nat
    BY DEF Zeros
  <2>2. /\ AllocatedBytes(n) # 0
        /\ given' = [given EXCEPT ![b] = AllocatedBytes(n)]
        /\ given' \in [Blocks -> 0..(W - 1)] /\ heap' \in [Blocks -> Seq(Values)]
        /\ BlocksFilled'
    BY <1>3, <2>1, GetsFields
  <2>3. ~UsesSbo' /\ ptr' = b /\ CellsAside' /\ AllocatedBytes(size') # 0
    BY <1>1, <1>3, <2>2 DEF IInv, TypeOK, UsesSbo, CellsInUse, CellsAside
  <2>4. TypeOK'
    BY <1>3, <2>2 DEF IInv, TypeOK
  <2>5. HeapExact'
    BY <1>1, <1>3, <2>2, <2>3 DEF IInv, TypeOK, HeapExact
  <2> QED BY <1>3, <2>2, <2>3, <2>4, <2>5 DEF IInv
<1> QED BY <1>2, <1>3 DEF Allocate

LEMMA MoveOutIInv == ASSUME IInv, alive, NEW n \in Nat, MoveOut(n) PROVE IInv'
<1> USE SmallBufferAssumption, InlineFits DEF StorePtr, Answers
<1>1. /\ n <= MaxSize /\ UsesSbo /\ n > InlineCells /\ CellsInUse
      /\ size' = n /\ Answers(TRUE)
  BY DEF MoveOut, IInv
<1>2. PICK b \in Blocks, beyond \in [(InlineCells + 1)..n -> Values] :
        /\ Gets(b, n, [k \in 1..n |-> IF k <= InlineCells THEN cells[k] ELSE beyond[k]])
        /\ StorePtr(Zeros(InlineCells), b)
  BY DEF MoveOut
<1> DEFINE es == [k \in 1..n |-> IF k <= InlineCells THEN cells[k] ELSE beyond[k]]
<1>3. es \in [1..n -> Values]
  BY <1>1 DEF CellsInUse
<1>4. /\ AllocatedBytes(n) # 0
      /\ given' = [given EXCEPT ![b] = AllocatedBytes(n)]
      /\ given' \in [Blocks -> 0..(W - 1)] /\ heap' \in [Blocks -> Seq(Values)]
      /\ BlocksFilled'
  <2> HIDE DEF es
  <2>1. Gets(b, n, es)
    BY <1>2 DEF es
  <2> QED BY <1>3, <2>1, GetsFields
<1> HIDE DEF es
<1>5. ~UsesSbo' /\ ptr' = b /\ CellsAside' /\ AllocatedBytes(size') # 0
  BY <1>1, <1>2, <1>4 DEF UsesSbo, CellsAside, Zeros
<1>6. TypeOK'
  BY <1>1, <1>2, <1>4 DEF IInv, TypeOK, Zeros
<1>7. HeapExact'
  BY <1>1, <1>4, <1>5 DEF IInv, TypeOK, HeapExact
<1> QED BY <1>1, <1>4, <1>5, <1>6, <1>7 DEF IInv

LEMMA MoveOverIInv == ASSUME IInv, alive, NEW n \in Nat, MoveOver(n) PROVE IInv'
<1> USE SmallBufferAssumption, InlineFits DEF StorePtr, Answers
<1>1. /\ n <= MaxSize /\ ~UsesSbo /\ n > InlineCells /\ CellsAside
      /\ size' = n /\ Answers(TRUE)
  BY DEF MoveOver, IInv
<1>2. PICK b \in Blocks, es \in Copies(n) : Exchanges(b, n, es) /\ StorePtr(cells, b)
  BY DEF MoveOver
<1>3. es \in [1..n -> Values]
  BY DEF Copies
<1>4. /\ AllocatedBytes(n) # 0 /\ b # ptr /\ ptr \in Blocks
      /\ given' = [given EXCEPT ![b] = AllocatedBytes(n), ![ptr] = 0]
      /\ given' \in [Blocks -> 0..(W - 1)] /\ heap' \in [Blocks -> Seq(Values)]
      /\ BlocksFilled'
  BY <1>1, <1>2, <1>3, ExchangesFields
<1>5. ~UsesSbo' /\ ptr' = b /\ CellsAside' /\ AllocatedBytes(size') # 0
  BY <1>1, <1>2, <1>4 DEF IInv, TypeOK, UsesSbo, CellsAside
<1>6. TypeOK'
  <2>1. cells' \in [1..InlineCells -> Values \cup {PointerByte}]
    BY <1>2 DEF IInv, TypeOK
  <2>2. size' \in 0..(W - 1) /\ ptr' \in {Null} \cup Blocks
        /\ alive' \in BOOLEAN /\ answer' \in BOOLEAN
    BY <1>1, <1>2 DEF IInv, TypeOK
  <2> QED BY <1>4, <2>1, <2>2 DEF TypeOK
<1>7. HeapExact'
  BY <1>1, <1>4, <1>5 DEF IInv, TypeOK, HeapExact
<1> QED BY <1>1, <1>4, <1>5, <1>6, <1>7 DEF IInv

LEMMA MoveInIInv == ASSUME IInv, alive, NEW n \in Nat, MoveIn(n) PROVE IInv'
<1> USE SmallBufferAssumption, InlineFits DEF MoveIn, Changes, StoreCells, Answers
<1>1. /\ ~UsesSbo /\ CellsAside /\ n < size /\ n \in 1..InlineCells
  BY DEF IInv, TypeOK, UsesSbo
<1>2. PICK es \in Copies(n) :
        /\ cells' = [k \in 1..InlineCells |->
                       IF k <= n THEN es[k]
                       ELSE IF k <= PointerCells THEN Zero ELSE cells[k]]
        /\ ptr' = Null
  OBVIOUS
<1>3. es \in [1..n -> Values]
  BY DEF Copies
<1>4. /\ ptr \in Blocks /\ given' = [given EXCEPT ![ptr] = 0] /\ BlocksFilled'
      /\ given' \in [Blocks -> 0..(W - 1)] /\ heap' \in [Blocks -> Seq(Values)]
  BY <1>1, FreesFields
<1>5. UsesSbo' /\ CellsInUse'
  BY <1>1, <1>2, <1>3 DEF IInv, TypeOK, UsesSbo, CellsInUse, CellsAside
<1>6. TypeOK'
  <2>1. cells' \in [1..InlineCells -> Values \cup {PointerByte}]
    BY <1>1, <1>2, <1>3 DEF IInv, TypeOK
  <2> QED BY <1>1, <1>2, <1>4, <2>1 DEF IInv, TypeOK
<1>7. HeapExact'
  BY <1>1, <1>4, <1>5 DEF IInv, TypeOK, HeapExact
<1> QED BY <1>4, <1>5, <1>6, <1>7 DEF IInv

LEMMA ResizeIInv == ASSUME IInv, alive, NEW n \in 0..(W - 1), Resize(n) PROVE IInv'
<1>0. n \in Nat
  BY SmallBufferAssumption
<1>1. CASE SameSize(n) \/ Refuses(n)
  <2>1. UNCHANGED <<alive, size, cells, ptr, given, heap>> /\ answer' \in BOOLEAN
    BY <1>1 DEF SameSize, Refuses, Answers, heapVars
  <2> QED BY <2>1 DEF IInv, TypeOK, HeapExact, BlocksFilled, UsesSbo, CellsInUse, CellsAside
<1>2. CASE ToNothing(n)
  BY <1>2, EmptyIInv DEF ToNothing, Answers, IInv, TypeOK
<1> QED BY <1>0, <1>1, <1>2, PrepareIInv, AllocateIInv, StayInsideIInv, MoveOutIInv,
           MoveOverIInv, MoveInIInv DEF Resize

LEMMA NextIInv == IInv /\ [Next]_vars => IInv'
<1> SUFFICES ASSUME IInv, [Next]_vars PROVE IInv'
  OBVIOUS
<1>1. CASE UNCHANGED vars
  BY <1>1 DEF vars, heapVars, IInv, TypeOK, HeapExact, BlocksFilled, UsesSbo, CellsInUse,
              CellsAside
<1>2. CASE alive /\ Release
  BY <1>2, EmptyIInv DEF Release, IInv, TypeOK
<1>3. ASSUME alive, NEW n \in Requests, Resize(n) PROVE IInv'
  BY <1>3, ResizeIInv, SmallBufferAssumption
<1> QED BY <1>1, <1>2, <1>3, ConstructIInv, DestroyIInv, PutIInv DEF Next

-----------------------------------------------------------------------------
\* Type correctness, for elements of any size and any width of size_t: what is read
\* for an element never is a byte of the pointer (sbo.hpp:125-250, allocator.hpp).
THEOREM TypeCorrect == Spec => []TypeOK
<1>1. IInv => TypeOK
  BY DEF IInv
<1> QED BY <1>1, InitIInv, NextIInv, PTL DEF Spec

\* No block of the heap leaks, is freed twice or freed with a size that is not
\* its own, in any order of growing, shrinking, failing and releasing, also one that
\* is shorter than its buffer was asked for (sbo.hpp:172-250).
THEOREM NoLeak == Spec => []HeapExact
<1>1. IInv => HeapExact
  BY DEF IInv
<1> QED BY <1>1, InitIInv, NextIInv, PTL DEF Spec

-----------------------------------------------------------------------------
(* The refinement: what each action does to the elements.                  *)

\* Actions after which the elements are as they were.
LEMMA SameElements ==
  ASSUME IInv, IInv', size' = size, UNCHANGED <<cells, ptr, heap>>
  PROVE  View' = View
BY DEF View, UsesSbo

LEMMA NothingLeft ==
  ASSUME IInv', size' = 0
  PROVE  View' = <<>>
<1>1. View' \in Seq(Values \cup {Outside}) /\ Len(View') = 0
  BY ViewElementsNext DEF Elements
<1> QED BY <1>1

\* A change of size that keeps what both sizes have and fills up with zeros.
LEMMA Resizes ==
  ASSUME IInv, IInv', answer' = TRUE,
         \A k \in 1..size : k <= size' => View[k] = Outside \/ View'[k] = View[k],
         Spills(size, size') \/ \A k \in 1..size' : k > size => View'[k] = Zero
  PROVE  Abstract!Resize
<1>1. View \in Seq(Values \cup {Outside}) /\ Len(View) = size
  BY ViewElements DEF Elements
<1>2. View' \in Seq(Values \cup {Outside}) /\ Len(View') = size'
  BY ViewElementsNext DEF Elements
<1>3. size \in Nat /\ size' \in Nat
  BY <1>1, <1>2
<1>4. DOMAIN View = 1..size /\ DOMAIN View' = 1..size'
  BY <1>1, <1>2
<1> HIDE DEF View
<1>5. Abstract!Kept(View, View')
  BY <1>3, <1>4 DEF Abstract!Kept
<1>6. Spills(size, size') \/ Abstract!ZeroAfter(size, View')
  BY <1>4 DEF Abstract!ZeroAfter
<1> QED BY <1>1, <1>2, <1>5, <1>6 DEF Abstract!Resize

LEMMA PrepareResizes ==
  ASSUME IInv, IInv', NEW n \in Nat, Prepare(n)
  PROVE  Abstract!Resize
<1>1. size = 0 /\ size' = n /\ answer' = TRUE /\ UsesSbo' /\ cells' = Zeros(InlineCells)
      /\ n \in 1..InlineCells
  BY SmallBufferAssumption DEF Prepare, Answers, StoreCells, UsesSbo
<1>2. \A k \in 1..size' : View'[k] = Zero
  BY <1>1, ViewElementsNext, SmallBufferAssumption DEF Elements, Zeros
<1> QED BY <1>1, <1>2, Resizes

LEMMA AllocateResizes ==
  ASSUME IInv, IInv', NEW n \in Nat, Allocate(n)
  PROVE  [Abstract!Next]_(Abstract!vars)
<1>1. size = 0 /\ n > InlineCells /\ UsesSbo
  BY SmallBufferAssumption DEF Allocate, UsesSbo
<1>2. CASE UNCHANGED size /\ answer' = FALSE
  <2>1. View = <<>> /\ View' = <<>>
    <3>1. View \in Seq(Values \cup {Outside}) /\ Len(View) = 0
      BY <1>1, ViewElements DEF Elements
    <3> QED BY <1>1, <1>2, <3>1, NothingLeft
  <2> QED BY <1>2, <2>1 DEF Abstract!Next, Abstract!Refuse
<1>3. ASSUME NEW b \in Blocks, Gets(b, n, Zeros(n)), StorePtr(cells, b),
             size' = n, Answers(TRUE)
      PROVE  Abstract!Resize
  <2>1. CASE n > MaxSize
    <3>1. Spills(size, size')
      BY <1>1, <1>3, <2>1 DEF Spills, Untested
    <3> QED BY <1>1, <1>3, <3>1, Resizes DEF Answers
  <2>2. CASE ~(n > MaxSize)
    <3>1. Zeros(n) \in [1..n -> Values] /\ n <= MaxSize
      BY <2>2, SmallBufferAssumption, MaxSizeExact DEF Zeros
    <3>2. heap'[b] = Block(n, Zeros(n)) /\ ptr' = b
      BY <1>3, <3>1, GetsFields DEF StorePtr
    <3>3. heap'[ptr'] = Zeros(n) /\ ~UsesSbo' /\ DOMAIN Zeros(n) = 1..n
      BY <1>1, <1>3, <3>1, <3>2, FilledWhole, SmallBufferAssumption DEF UsesSbo
    <3>4. \A k \in 1..size' : View'[k] = Zero
      BY <1>3, <3>3, ViewElementsNext DEF Elements, Zeros
    <3> QED BY <1>1, <1>3, <3>4, Resizes DEF Answers
  <2> QED BY <2>1, <2>2
<1> QED BY <1>2, <1>3 DEF Allocate, Answers, Abstract!Next

LEMMA StayInsideResizes ==
  ASSUME IInv, IInv', NEW n \in Nat, StayInside(n)
  PROVE  Abstract!Resize
<1>1. /\ size' = n /\ answer' = TRUE /\ UsesSbo /\ UsesSbo' /\ CellsInUse
      /\ cells' = [k \in 1..InlineCells |->
                     IF n < size /\ k > n THEN Zero ELSE cells[k]]
  BY DEF StayInside, Answers, UsesSbo, IInv
<1>2. size \in 0..InlineCells /\ n \in 0..InlineCells
  BY <1>1, SmallBufferAssumption DEF IInv, TypeOK, UsesSbo
<1>3. /\ \A k \in 1..size : View[k] = cells[k]
      /\ \A k \in 1..n : View'[k] = cells'[k]
  BY <1>1, ViewElements, ViewElementsNext DEF Elements
<1>4. ASSUME NEW k \in 1..size, k <= size' PROVE View'[k] = View[k]
  <2>1. k \in 1..n /\ k \in 1..InlineCells /\ ~(k > n)
    BY <1>1, <1>2, <1>4, SmallBufferAssumption
  <2>2. cells'[k] = cells[k]
    BY <1>1, <2>1
  <2> QED BY <1>3, <2>1, <2>2
<1>5. ASSUME NEW k \in 1..size', k > size PROVE View'[k] = Zero
  <2>1. k \in 1..n /\ k \in 1..InlineCells /\ ~(k <= size) /\ ~(n < size)
    BY <1>1, <1>2, <1>5, SmallBufferAssumption
  <2>2. cells'[k] = cells[k]
    BY <1>1, <2>1
  <2>3. cells[k] = Zero
    BY <1>1, <2>1 DEF CellsInUse
  <2> QED BY <1>3, <2>1, <2>2, <2>3
<1> QED BY <1>1, <1>4, <1>5, Resizes

LEMMA MoveOutResizes ==
  ASSUME IInv, IInv', NEW n \in Nat, MoveOut(n)
  PROVE  Abstract!Resize
<1>1. /\ n <= MaxSize /\ UsesSbo /\ n > InlineCells /\ CellsInUse
      /\ size' = n /\ answer' = TRUE /\ size # 0
  BY DEF MoveOut, Answers, Changes, IInv
<1>2. size \in 1..InlineCells /\ ~UsesSbo'
  BY <1>1, SmallBufferAssumption DEF IInv, TypeOK, UsesSbo
<1>3. PICK b \in Blocks, beyond \in [(InlineCells + 1)..n -> Values] :
        /\ Gets(b, n, [k \in 1..n |-> IF k <= InlineCells THEN cells[k] ELSE beyond[k]])
        /\ StorePtr(Zeros(InlineCells), b)
  BY DEF MoveOut
<1> DEFINE es == [k \in 1..n |-> IF k <= InlineCells THEN cells[k] ELSE beyond[k]]
<1>4. es \in [1..n -> Values]
  BY <1>1, <1>2, SmallBufferAssumption DEF CellsInUse
<1>5. heap'[b] = Block(n, es) /\ ptr' = b /\ Block(n, es) = es
  <2> HIDE DEF es
  <2>1. Gets(b, n, es)
    BY <1>3 DEF es
  <2> QED BY <1>1, <1>3, <1>4, <2>1, GetsFields, FilledWhole DEF StorePtr
<1>6. heap'[ptr'] = es
  BY <1>5
<1>7. \A k \in 1..size : k <= size' => View'[k] = View[k]
  BY <1>1, <1>2, <1>6, ViewElements, ViewElementsNext, SmallBufferAssumption DEF Elements
<1> HIDE DEF es
<1>8. Spills(size, size')
  BY <1>1, <1>2 DEF Spills, LeavesTheArray
<1> QED BY <1>1, <1>7, <1>8, Resizes

\* What is copied from a block is what was seen there, and zeros behind the size.
LEMMA CopiesKeep ==
  ASSUME IInv, ~UsesSbo, NEW n \in Nat, NEW es \in Copies(n)
  PROVE  /\ es \in [1..n -> Values]
         /\ \A k \in 1..size : k <= n => View[k] = Outside \/ es[k] = View[k]
         /\ \A k \in 1..n : k > size => es[k] = Zero
<1>1. \A k \in 1..size : View[k] = IF k \in DOMAIN heap[ptr] THEN heap[ptr][k] ELSE Outside
  BY ViewElements DEF Elements
<1>2. /\ es \in [1..n -> Values]
      /\ \A k \in 1..n : /\ k \in DOMAIN heap[ptr] => es[k] = heap[ptr][k]
                         /\ k > size => es[k] = Zero
  BY DEF Copies
<1>3. size \in Nat
  BY SmallBufferAssumption DEF IInv, TypeOK
<1> QED BY <1>1, <1>2, <1>3

LEMMA MoveOverResizes ==
  ASSUME IInv, IInv', NEW n \in Nat, MoveOver(n)
  PROVE  Abstract!Resize
<1>1. /\ n <= MaxSize /\ ~UsesSbo /\ n > InlineCells
      /\ size' = n /\ answer' = TRUE /\ size \in Nat
  BY SmallBufferAssumption DEF MoveOver, Answers, IInv, TypeOK
<1>2. PICK b \in Blocks, es \in Copies(n) : Exchanges(b, n, es) /\ StorePtr(cells, b)
  BY DEF MoveOver
<1>3. /\ es \in [1..n -> Values]
      /\ \A k \in 1..size : k <= n => View[k] = Outside \/ es[k] = View[k]
      /\ \A k \in 1..n : k > size => es[k] = Zero
  BY <1>1, CopiesKeep
<1>4. heap'[ptr'] = es /\ ~UsesSbo' /\ DOMAIN es = 1..n
  <2>1. heap'[b] = Block(n, es) /\ Block(n, es) = es
    BY <1>1, <1>2, <1>3, ExchangesFields, FilledWhole
  <2> QED BY <1>1, <1>2, <1>3, <2>1, SmallBufferAssumption DEF UsesSbo, StorePtr
<1>5. \A k \in 1..n : View'[k] = es[k]
  BY <1>1, <1>4, ViewElementsNext DEF Elements
<1>6. /\ \A k \in 1..size : k <= size' => View[k] = Outside \/ View'[k] = View[k]
      /\ \A k \in 1..size' : k > size => View'[k] = Zero
  BY <1>1, <1>3, <1>5
<1> QED BY <1>1, <1>6, Resizes

LEMMA MoveInResizes ==
  ASSUME IInv, IInv', NEW n \in Nat, MoveIn(n)
  PROVE  Abstract!Resize
<1>1. PICK es \in Copies(n) :
        cells' = [k \in 1..InlineCells |->
                    IF k <= n THEN es[k]
                    ELSE IF k <= PointerCells THEN Zero ELSE cells[k]]
  BY DEF MoveIn, StoreCells
<1>2. ~UsesSbo /\ UsesSbo' /\ n <= InlineCells /\ size' = n /\ answer' = TRUE
  BY SmallBufferAssumption DEF MoveIn, Answers, UsesSbo
<1>3. size \in Nat /\ n < size
  BY <1>2, SmallBufferAssumption DEF IInv, TypeOK, UsesSbo
<1>4. \A k \in 1..size : k <= n => View[k] = Outside \/ es[k] = View[k]
  BY <1>2, CopiesKeep
<1>5. ASSUME NEW k \in 1..n PROVE View'[k] = es[k]
  <2>1. k \in 1..InlineCells /\ k <= n
    BY <1>2, SmallBufferAssumption
  <2>2. cells'[k] = es[k]
    BY <1>1, <2>1
  <2> QED BY <1>2, <2>2, ViewElementsNext DEF Elements
<1>6. /\ \A k \in 1..size : k <= size' => View[k] = Outside \/ View'[k] = View[k]
      /\ \A k \in 1..size' : k > size => View'[k] = Zero
  BY <1>2, <1>3, <1>4, <1>5
<1> QED BY <1>2, <1>6, Resizes

\* A write behind a block that is too short changes nothing here.
LEMMA PutPuts ==
  ASSUME IInv, IInv', NEW k \in 1..(W - 1), NEW v \in Values, Put(k, v)
  PROVE  Abstract!Put \/ UNCHANGED Abstract!vars
<1>1. size' = size /\ k \in 1..size /\ (UsesSbo' <=> UsesSbo) /\ answer' = answer /\ ptr' = ptr
  BY SmallBufferAssumption DEF Put, UsesSbo, IInv, TypeOK
<1>2. /\ View \in Seq(Values \cup {Outside}) /\ Len(View) = size
      /\ View' \in Seq(Values \cup {Outside}) /\ Len(View') = size
  BY <1>1, ViewElements, ViewElementsNext DEF Elements
<1>3. CASE ~UsesSbo /\ k \notin DOMAIN heap[ptr]
  <2>1. UNCHANGED <<size, cells, ptr, heap>>
    BY <1>3 DEF Put
  <2> QED BY <1>1, <2>1, SameElements DEF Abstract!vars
<1>4. CASE UsesSbo \/ k \in DOMAIN heap[ptr]
  <2>1. \A j \in 1..size : View'[j] = IF j = k THEN v ELSE View[j]
    <3>1. CASE UsesSbo
      BY <1>1, <3>1, ViewElements, ViewElementsNext, SmallBufferAssumption
      DEF Elements, Put, IInv, TypeOK, UsesSbo
    <3>2. CASE ~UsesSbo
      <4>1. /\ heap' = [heap EXCEPT ![ptr][k] = v] /\ ptr \in Blocks
            /\ heap \in [Blocks -> Seq(Values)] /\ k \in DOMAIN heap[ptr]
        BY <1>4, <3>2 DEF Put, IInv, TypeOK
      <4>2. DOMAIN heap'[ptr] = DOMAIN heap[ptr] /\ heap'[ptr] = [heap[ptr] EXCEPT ![k] = v]
        BY <4>1
      <4> QED BY <1>1, <3>2, <4>1, <4>2, ViewElements, ViewElementsNext DEF Elements
    <3> QED BY <3>1, <3>2
  <2> HIDE DEF View
  <2>2. View' = [View EXCEPT ![k] = v] /\ k \in DOMAIN View
    BY <1>1, <1>2, <2>1
  <2>3. \E j \in DOMAIN View, u \in Values : View' = [View EXCEPT ![j] = u]
    BY <2>2, Zenon
  <2> QED BY <1>1, <2>3 DEF Abstract!Put
<1> QED BY <1>3, <1>4

LEMMA ResizeImplements ==
  ASSUME IInv, IInv', NEW n \in 0..(W - 1), Resize(n)
  PROVE  [Abstract!Next]_(Abstract!vars)
<1>0. n \in Nat
  BY SmallBufferAssumption
<1>1. CASE SameSize(n)
  <2>1. View' = View
    BY <1>1, SameElements DEF SameSize, heapVars
  <2>2. Abstract!Resize
    <3>1. size' = size /\ answer' = TRUE /\ size \in Nat
      BY <1>1, SmallBufferAssumption DEF SameSize, Answers, IInv, TypeOK
    <3> QED BY <2>1, <3>1, Resizes
  <2> QED BY <2>2 DEF Abstract!Next
<1>2. CASE ToNothing(n)
  <2>1. size' = 0 /\ answer' = TRUE
    BY <1>2 DEF ToNothing, Empty, Answers
  <2>2. Abstract!Resize
    BY <2>1, Resizes, SmallBufferAssumption DEF IInv, TypeOK
  <2> QED BY <2>2 DEF Abstract!Next
<1>3. CASE Refuses(n)
  <2>1. View' = View /\ answer' = FALSE
    BY <1>3, SameElements DEF Refuses, Answers, heapVars
  <2> QED BY <2>1 DEF Abstract!Next, Abstract!Refuse
<1>4. CASE Prepare(n) \/ StayInside(n) \/ MoveOut(n) \/ MoveOver(n) \/ MoveIn(n)
  BY <1>0, <1>4, PrepareResizes, StayInsideResizes, MoveOutResizes, MoveOverResizes,
     MoveInResizes DEF Abstract!Next
<1> QED BY <1>0, <1>1, <1>2, <1>3, <1>4, AllocateResizes DEF Resize

LEMMA InitImplements == Init => Abstract!Init
BY InitIInv, ViewElements DEF Init, Elements, Abstract!Init

LEMMA NextImplements == IInv /\ IInv' /\ [Next]_vars => [Abstract!Next]_(Abstract!vars)
<1> SUFFICES ASSUME IInv, IInv', [Next]_vars
             PROVE  [Abstract!Next]_(Abstract!vars)
  OBVIOUS
<1>1. CASE UNCHANGED vars
  BY <1>1, SameElements DEF vars, heapVars, Abstract!vars
<1>2. CASE Construct
  <2>1. size = 0 /\ size' = 0 /\ answer' = answer
    BY <1>2 DEF Construct, IInv
  <2>2. View = <<>> /\ View' = <<>>
    <3>1. View \in Seq(Values \cup {Outside}) /\ Len(View) = 0
      BY <2>1, ViewElements DEF Elements
    <3> QED BY <2>1, <3>1, NothingLeft
  <2> QED BY <2>1, <2>2 DEF Abstract!vars
<1>3. CASE Release \/ Destroy
  <2>1. size' = 0 /\ answer' = answer
    BY <1>3 DEF Release, Empty, Destroy
  <2> QED BY <2>1, NothingLeft DEF Abstract!Next, Abstract!Release
<1>4. ASSUME NEW n \in Requests, Resize(n)
      PROVE  [Abstract!Next]_(Abstract!vars)
  BY <1>4, ResizeImplements, SmallBufferAssumption
<1>5. ASSUME NEW k \in 1..(W - 1), NEW v \in Values, Put(k, v)
      PROVE  [Abstract!Next]_(Abstract!vars)
  BY <1>5, PutPuts DEF Abstract!Next, Abstract!vars
<1> QED BY <1>1, <1>2, <1>3, <1>4, <1>5 DEF Next

\* The elements survive every move between the object and the heap and every
\* refused change of size, and new elements are zero, except those that growing
\* out of the object takes from behind the array and those that an untested first
\* request has no room for (sbo.hpp:135-250): a small buffer implements Buffer, with
\* any size of elements, array and size_t.
THEOREM Refinement == Spec => Promise
BY InitIInv, NextIInv, InitImplements, NextImplements, PTL
DEF Spec, Promise, Abstract!Spec
=============================================================================
