---------------------------- MODULE SmallBuffer ----------------------------
(***************************************************************************)
(* Class template _Sbo_buffer (core/optimization/sbo.hpp): an array of a   *)
(* trivial type that is kept in the object while it is small, and on the   *)
(* heap from then on.  The storage is a union of the internal array and    *)
(* the pointer to the heap; which of them counts follows from the size.    *)
(* A type of more than _Small_type_size bytes has no internal array: the   *)
(* second specialization is the first one with InlineCells = 0.            *)
(*                                                                         *)
(* A definition named X_Y is X with the fault Y.                           *)
(***************************************************************************)
EXTENDS Naturals, Sequences

CONSTANTS
  Values,        \* what an element can be
  Zero,          \* an element of zero bytes
  PointerByte,   \* an element that is a part of the pointer
  Outside,       \* stands for an element that is not in the block
  ElementBytes,  \* sizeof(value_type)
  InlineCells,   \* _Buffer_size: 16 / sizeof(value_type), or 0
  PointerCells,  \* elements that the pointer covers
  W,             \* number of values of size_t
  Requests       \* sizes a user asks for

ASSUME SmallBufferAssumption ==
  /\ Zero \in Values /\ PointerByte \notin Values /\ Outside \notin Values
  /\ ElementBytes \in Nat \ {0}
  /\ InlineCells \in Nat /\ PointerCells \in 0..InlineCells
  /\ W \in Nat /\ W > ElementBytes * (InlineCells + 1)
  /\ Requests \subseteq 0..(W - 1)

VARIABLES
  alive,         \* whether there is a buffer
  size,          \* _Mysize
  cells,         \* _Mystorage._Buf
  ptr,           \* _Mystorage._Ptr: a block, or Null
  given,         \* bytes that each block was allocated with; 0 when it is free
  heap,          \* the elements that each block has room for
  answer         \* of the last _Resize()

heapVars == <<given, heap>>
vars == <<alive, size, cells, ptr, heapVars, answer>>

Null == 0
Blocks == 1..2
MaxSize == (W - 1) \div ElementBytes

Zeros(n) == [k \in 1..n |-> Zero]
UsesSbo == size <= InlineCells

Init ==
  /\ alive = FALSE /\ answer = TRUE
  /\ size = 0 /\ cells = Zeros(InlineCells) /\ ptr = Null
  /\ given = [b \in Blocks |-> 0] /\ heap = [b \in Blocks |-> <<>>]

\* The pointer is written over the beginning of the array c.
StorePtr(c, p) ==
  /\ ptr' = p
  /\ cells' = [k \in DOMAIN c |->
                 IF k > PointerCells THEN c[k]
                 ELSE IF p = Null THEN Zero ELSE PointerByte]

\* The array is written over the pointer.
StoreCells(c) == cells' = c /\ ptr' = Null

-----------------------------------------------------------------------------
(* The allocator, whose product of size and element size wraps around.     *)

AllocatedBytes(n) == (n * ElementBytes) % W

\* A free block is to be had for n elements.
Free(b, n) == AllocatedBytes(n) \notin {0, W - 1} /\ given[b] = 0

\* What a block for n elements holds of the elements es.
Block(n, es) == SubSeq(es, 1, AllocatedBytes(n) \div ElementBytes)

\* The block b is given away with the elements es.
Gets(b, n, es) ==
  /\ Free(b, n)
  /\ given' = [given EXCEPT ![b] = AllocatedBytes(n)]
  /\ heap' = [heap EXCEPT ![b] = Block(n, es)]

\* The same, and the old block is freed.
Exchanges(b, n, es) ==
  /\ Free(b, n)
  /\ given' = [given EXCEPT ![b] = AllocatedBytes(n), ![ptr] = 0]
  /\ heap' = [heap EXCEPT ![b] = Block(n, es), ![ptr] = <<>>]

Frees ==
  /\ given' = [given EXCEPT ![ptr] = 0]
  /\ heap' = [heap EXCEPT ![ptr] = <<>>]

\* What a copy of the old elements, filled up with zeros to n, can be: a block
\* that is shorter than the size says is followed by anything.
Copies(n) ==
  {es \in [1..n -> Values] :
     \A k \in 1..n : /\ k \in DOMAIN heap[ptr] => es[k] = heap[ptr][k]
                     /\ k > size => es[k] = Zero}

-----------------------------------------------------------------------------
(* _Resize().                                                              *)

Answers(b) == answer' = b /\ UNCHANGED alive

\* The effect of _Release(): the array is zero again, or the pointer null.
Empty ==
  /\ size' = 0
  /\ IF UsesSbo
       THEN /\ IF size = 0 THEN UNCHANGED <<cells, ptr>>
               ELSE StoreCells(Zeros(InlineCells))
            /\ UNCHANGED heapVars
       ELSE StorePtr(cells, Null) /\ Frees

SameSize(n) ==
  /\ n = size
  /\ Answers(TRUE)
  /\ UNCHANGED <<size, cells, ptr, heapVars>>

ToNothing(n) ==
  /\ n = 0 /\ size # 0
  /\ Answers(TRUE)
  /\ Empty

\* From nothing into the object.
Prepare(n) ==
  /\ size = 0 /\ n \in 1..InlineCells
  /\ size' = n
  /\ StoreCells(Zeros(InlineCells))
  /\ Answers(TRUE)
  /\ UNCHANGED heapVars

\* From nothing to the heap.  Here nobody asks for _Max_size(): the product wraps
\* around for a larger size, which is recorded of a block that is shorter.
Allocate(n) ==
  /\ size = 0 /\ n > InlineCells
  /\ \/ \E b \in Blocks :
          /\ Gets(b, n, Zeros(n))
          /\ StorePtr(cells, b)
          /\ size' = n
          /\ Answers(TRUE)
     \/ StorePtr(cells, Null) /\ UNCHANGED <<size, heapVars>> /\ Answers(FALSE)

Changes(n) == size # 0 /\ n \notin {0, size}

\* An overflow, or a new block that is not to be had.
Refuses(n) ==
  /\ Changes(n)
  /\ n > MaxSize \/ n > InlineCells
  /\ Answers(FALSE)
  /\ UNCHANGED <<size, cells, ptr, heapVars>>

StayInside_KeepsTail(n) ==
  /\ Changes(n) /\ n <= MaxSize
  /\ UsesSbo /\ n <= InlineCells
  /\ size' = n
  /\ UNCHANGED <<cells, ptr, heapVars>>
  /\ Answers(TRUE)

\* What a smaller size gives up is zeroed, so that a larger one finds zeros.
StayInside(n) ==
  /\ Changes(n) /\ n <= MaxSize
  /\ UsesSbo /\ n <= InlineCells
  /\ size' = n
  /\ cells' = [k \in 1..InlineCells |->
                 IF n < size /\ k > n THEN Zero ELSE cells[k]]
  /\ UNCHANGED <<ptr, heapVars>>
  /\ Answers(TRUE)

MoveOut_PointerFirst(n) ==
  /\ Changes(n) /\ n <= MaxSize
  /\ UsesSbo /\ n > InlineCells
  /\ \E b \in Blocks, beyond \in [(InlineCells + 1)..n -> Values] :
       /\ StorePtr(Zeros(InlineCells), b)
       /\ Gets(b, n, [k \in 1..n |-> IF k <= InlineCells THEN cells'[k] ELSE beyond[k]])
  /\ size' = n
  /\ Answers(TRUE)

\* All n elements are taken from the array, which has only InlineCells of them:
\* the rest is whatever lies behind it.
MoveOut(n) ==
  /\ Changes(n) /\ n <= MaxSize
  /\ UsesSbo /\ n > InlineCells
  /\ \E b \in Blocks, beyond \in [(InlineCells + 1)..n -> Values] :
       /\ Gets(b, n, [k \in 1..n |-> IF k <= InlineCells THEN cells[k] ELSE beyond[k]])
       /\ StorePtr(Zeros(InlineCells), b)
  /\ size' = n
  /\ Answers(TRUE)

MoveOver_Leaks(n) ==
  /\ Changes(n) /\ n <= MaxSize
  /\ ~UsesSbo /\ n > InlineCells
  /\ \E b \in Blocks, es \in Copies(n) : Gets(b, n, es) /\ StorePtr(cells, b)
  /\ size' = n
  /\ Answers(TRUE)

\* To another block.
MoveOver(n) ==
  /\ Changes(n) /\ n <= MaxSize
  /\ ~UsesSbo /\ n > InlineCells
  /\ \E b \in Blocks, es \in Copies(n) : Exchanges(b, n, es) /\ StorePtr(cells, b)
  /\ size' = n
  /\ Answers(TRUE)

\* Back into the object: the null pointer zeroes the cells it covers, and n of
\* them are written after that.
MoveIn(n) ==
  /\ Changes(n) /\ n <= MaxSize
  /\ ~UsesSbo /\ n <= InlineCells
  /\ \E es \in Copies(n) :
       StoreCells([k \in 1..InlineCells |->
                     IF k <= n THEN es[k]
                     ELSE IF k <= PointerCells THEN Zero ELSE cells[k]])
  /\ Frees
  /\ size' = n
  /\ Answers(TRUE)

Resize(n) ==
  \/ SameSize(n) \/ ToNothing(n)
  \/ Prepare(n) \/ Allocate(n)
  \/ Refuses(n) \/ StayInside(n) \/ MoveOut(n) \/ MoveOver(n) \/ MoveIn(n)

-----------------------------------------------------------------------------
(* The other operations.                                                   *)

\* The constructor with a size; _Resize() of the buffer it makes comes next.
Construct ==
  /\ ~alive
  /\ alive' = TRUE
  /\ size' = 0 /\ StoreCells(Zeros(InlineCells))
  /\ UNCHANGED <<heapVars, answer>>

\* A write through _Get().  Behind a block that is too short it hits memory that
\* is not the buffer's.
Put(k, v) ==
  /\ k <= size
  /\ IF UsesSbo
       THEN cells' = [cells EXCEPT ![k] = v] /\ UNCHANGED heap
       ELSE /\ heap' = IF k \in DOMAIN heap[ptr] THEN [heap EXCEPT ![ptr][k] = v] ELSE heap
            /\ UNCHANGED cells
  /\ UNCHANGED <<alive, size, ptr, given, answer>>

Release ==
  /\ Empty
  /\ UNCHANGED <<alive, answer>>

Destroy ==
  /\ alive' = FALSE
  /\ size' = 0 /\ StoreCells(Zeros(InlineCells))
  /\ IF UsesSbo THEN UNCHANGED heapVars ELSE Frees
  /\ UNCHANGED answer

Next ==
  \/ Construct
  \/ /\ alive
     /\ \/ \E n \in Requests : Resize(n)
        \/ \E k \in 1..(W - 1), v \in Values : Put(k, v)
        \/ Release
        \/ Destroy

Spec == Init /\ [][Next]_vars

-----------------------------------------------------------------------------
TypeOK ==
  /\ alive \in BOOLEAN /\ answer \in BOOLEAN
  /\ size \in 0..(W - 1)
  /\ cells \in [1..InlineCells -> Values \cup {PointerByte}]
  /\ ptr \in {Null} \cup Blocks
  /\ given \in [Blocks -> 0..(W - 1)]
  /\ heap \in [Blocks -> Seq(Values)]

\* Whatever order of growing, shrinking, failing and releasing: there is a block
\* exactly when the size asks for one, the pointer points to it, and its bytes are
\* those that the sized delete will name, also where the product has wrapped
\* around.  No block leaks or is freed twice.
HeapExact ==
  \A b \in Blocks :
    given[b] = IF ~UsesSbo /\ b = ptr THEN AllocatedBytes(size) ELSE 0

\* The elements, where _Get() points.
View ==
  IF UsesSbo THEN SubSeq(cells, 1, size)
  ELSE [k \in 1..size |-> IF k \in DOMAIN heap[ptr] THEN heap[ptr][k] ELSE Outside]

\* Growing out of the object, and a first request that nobody tested.
LeavesTheArray(old, new) == old \in 1..InlineCells /\ new > InlineCells

Untested(old, new) == old = 0 /\ new > MaxSize

Spills(old, new) == LeavesTheArray(old, new) \/ Untested(old, new)

Abstract == INSTANCE Buffer WITH
  Nothing <- Outside, contents <- View

\* The elements survive every move between the object and the heap, a refused
\* change of size leaves them, and new elements are zero, although growing in the
\* object writes none; but not where the array is left, nor where an empty buffer
\* is asked for more than can be counted in bytes.
Promise == Abstract!Spec
=============================================================================
