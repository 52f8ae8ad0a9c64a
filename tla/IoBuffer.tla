------------------------------ MODULE IoBuffer ------------------------------
(***************************************************************************)
(* IoBuffer (src/common/io_buffer.{h,cpp}), the growable byte buffer every *)
(* socket reads into and writes from: a block of memory of which the bytes *)
(* between start_ and end_ are the contents.  Pointers are offsets from    *)
(* buf_.  Writing grows the block when there is no room behind end_;       *)
(* Size(), which every read calls first, moves an empty buffer back to the *)
(* beginning, and gives a block that grew too large back to the heap.      *)
(***************************************************************************)
EXTENDS Naturals, Sequences

CONSTANTS
  Bytes,            \* byte values
  Garbage,          \* what fresh memory holds
  kDefaultSize,     \* 64 K
  kShrinkSize,      \* 128 K
  kEnlargeSize,     \* 64 K
  MaxRead,          \* the most one read(2) is asked for (64 K)
  MaxData,          \* bound: bytes written at once
  MaxCapacity       \* bound: size of the block

ASSUME BufferSizesAssumption ==
  /\ kDefaultSize \in Nat /\ kShrinkSize \in Nat /\ kEnlargeSize \in Nat
  /\ MaxRead \in Nat /\ MaxData \in Nat /\ MaxCapacity \in Nat
ASSUME GarbageAssumption == Garbage \notin Bytes

VARIABLES
  buf_,        \* offset -> byte
  capacity_,
  start_,
  end_,
  taken        \* the bytes handed out by the last operation

bufferVars == <<buf_, capacity_, start_, end_, taken>>

Data == UNION {[1..n -> Bytes] : n \in 1..MaxData}

FreshBlock(capacity) == [i \in 0..(capacity - 1) |-> Garbage]

BufferInit ==
  /\ capacity_ = 0 /\ start_ = 0 /\ end_ = 0
  /\ buf_ = FreshBlock(0)
  /\ taken = << >>

Larger(a, b) == IF a >= b THEN a ELSE b

CapacityLeft == capacity_ - end_

\* The operators named Slip... are slips of the definition after them, used
\* to test that the properties notice: no specification here uses them.

\* MakeSpaceIfNeed: the capacity of the block after room for len is made.
CapacityFor(len) ==
  IF CapacityLeft >= len THEN capacity_
  ELSE Larger(capacity_ + len, 2 * capacity_)

\* The memory after realloc to capacity and a copy of data to end_.
Stored(capacity, data) ==
  [i \in 0..(capacity - 1) |->
     IF i \in end_..(end_ + Len(data) - 1) THEN data[i - end_ + 1]
     ELSE IF i < capacity_ THEN buf_[i] ELSE Garbage]

-----------------------------------------------------------------------------
\* Write, and WriteU8 ... WriteU64.
Write(data) ==
  /\ CapacityFor(Len(data)) <= MaxCapacity
  /\ capacity_' = CapacityFor(Len(data))
  /\ buf_' = Stored(capacity_', data)
  /\ end_' = end_ + Len(data)
  /\ taken' = << >>
  /\ UNCHANGED start_

\* data is what read(2) returned; nothing, when it failed or the peer closed.
ReadFromFdAndWrite(data) ==
  /\ CapacityFor(kEnlargeSize) <= MaxCapacity
  /\ capacity_' = CapacityFor(kEnlargeSize)
  /\ Len(data) <= MaxRead
  /\ Len(data) <= capacity_' - end_
  /\ buf_' = Stored(capacity_', data)
  /\ end_' = end_ + Len(data)
  /\ taken' = << >>
  /\ UNCHANGED start_

\* The first n bytes of the contents.
Contents(n) == [i \in 1..n |-> buf_[start_ + i - 1]]

\* Size() == 0: back to the beginning, in a block of the default size when
\* this one is larger than kShrinkSize.
Reset ==
  /\ IF capacity_ > kShrinkSize
     THEN capacity_' = kDefaultSize /\ buf_' = FreshBlock(kDefaultSize)
     ELSE UNCHANGED <<capacity_, buf_>>
  /\ start_' = 0 /\ end_' = 0

\* Any call that finds the buffer empty: Size, Empty, Peek and all reads.
WhenEmpty ==
  /\ start_ = end_
  /\ Reset
  /\ taken' = << >>

SlipRead(len) ==                         \* start_ not moved when all is read
  /\ start_ # end_
  /\ IF len >= end_ - start_
     THEN UNCHANGED start_ /\ taken' = Contents(end_ - start_)
     ELSE start_' = start_ + len /\ taken' = Contents(len)
  /\ UNCHANGED <<buf_, capacity_, end_>>

\* Read and ReadAndCopy return what there is when asked for more; ReadU8 ...
\* ReadU64 and the callers of Skip ask for no more than there is; WriteToFd
\* hands over what write(2) accepts.
Read(len) ==
  /\ start_ # end_
  /\ LET n == IF len >= end_ - start_ THEN end_ - start_ ELSE len
     IN  start_' = start_ + n /\ taken' = Contents(n)
  /\ UNCHANGED <<buf_, capacity_, end_>>

BufferNext ==
  \/ \E data \in Data : Write(data)
  \/ \E data \in Data \cup {<< >>} : ReadFromFdAndWrite(data)
  \/ \E len \in 0..MaxCapacity : Read(len)
  \/ WhenEmpty

BufferSpec == BufferInit /\ [][BufferNext]_bufferVars

-----------------------------------------------------------------------------
(* Properties.                                                             *)

\* The block has the size that is kept for it, and the contents lie inside
\* it: the assertions end_ >= start_ of Size and MakeSpaceIfNeed hold, and
\* no read or write of the buffer touches memory it does not own.
BufferTypeOK ==
  /\ capacity_ \in Nat /\ start_ \in Nat /\ end_ \in Nat
  /\ buf_ \in [0..(capacity_ - 1) -> Bytes \cup {Garbage}]
  /\ start_ <= end_ /\ end_ <= capacity_

\* What is between start_ and end_ was written there: no garbage is ever
\* handed out, whether the block grew, shrank or was used again.
ContentsWritten == \A i \in start_..(end_ - 1) : buf_[i] \in Bytes

\* The buffer is a queue of bytes, whatever the block does underneath.
Fifo == INSTANCE ByteFifo WITH queue <- Contents(end_ - start_)

BufferIsFifo == Fifo!FifoSpec
=============================================================================
