--------------------------- MODULE SpscRingProofs ---------------------------
(***************************************************************************)
(* Proofs about SpscRing, for every capacity, every stream length and      *)
(* every block size.                                                       *)
(***************************************************************************)
EXTENDS SpscRing, SequenceTheorems, TLAPS

\* A multiple of a positive number that is smaller than it, in absolute
\* value, is zero.
LEMMA SmallMultiple ==
    ASSUME NEW c \in Nat, c > 0, NEW q \in Int, -c < c * q, c * q < c
    PROVE  q = 0
<1>1. CASE q >= 1
  <2>1. c * q >= c
    BY <1>1, SMT
  <2> QED BY <2>1, SMT
<1>2. CASE q <= -1
  <2>1. c * q <= -c
    BY <1>2, SMT
  <2> QED BY <2>1, SMT
<1> QED BY <1>1, <1>2, SMT

\* Quotient and remainder are unique.
LEMMA RemainderUnique ==
    ASSUME NEW p \in Nat, NEW turn \in Nat, NEW r \in Slots,
           p = Capacity * turn + r
    PROVE  p % Capacity = r
<1>1. Capacity \in Nat /\ Capacity > 0
  BY CapacityAssumption
<1> DEFINE d == p \div Capacity
           s == p % Capacity
<1>2. p = Capacity * d + s /\ d \in Nat /\ s \in Slots
  BY <1>1, SMT DEF Slots
<1> HIDE DEF d, s
<1> DEFINE q == d - turn
<1>3. q \in Int /\ Capacity * q = r - s
  BY <1>1, <1>2, SMT DEF Slots
<1>4. -Capacity < Capacity * q /\ Capacity * q < Capacity
  BY <1>1, <1>2, <1>3, SMT DEF Slots
<1> HIDE DEF q
<1>5. q = 0
  BY <1>1, <1>3, <1>4, SmallMultiple
<1>6. r - s = 0
  BY <1>1, <1>3, <1>5, SMT
<1> QED BY <1>2, <1>6, SMT DEF Slots, s

\* Two stream positions less than one ring apart are kept in different slots.
LEMMA SlotsDiffer ==
    ASSUME NEW i \in Nat, NEW j \in Nat, i < j, j < i + Capacity
    PROVE  i % Capacity # j % Capacity
<1>1. Capacity \in Nat /\ Capacity > 0
  BY CapacityAssumption
<1>2. i = Capacity * (i \div Capacity) + (i % Capacity)
      /\ j = Capacity * (j \div Capacity) + (j % Capacity)
      /\ i \div Capacity \in Nat /\ j \div Capacity \in Nat
      /\ i % Capacity \in Slots /\ j % Capacity \in Slots
  BY <1>1, SMT DEF Slots
<1> SUFFICES ASSUME i % Capacity = j % Capacity
             PROVE  FALSE
  OBVIOUS
<1> DEFINE q == (j \div Capacity) - (i \div Capacity)
<1>3. q \in Int /\ Capacity * q = j - i
  BY <1>1, <1>2, SMT
<1>4. -Capacity < Capacity * q /\ Capacity * q < Capacity
  BY <1>1, <1>3, SMT
<1> HIDE DEF q
<1>5. q = 0
  BY <1>1, <1>3, <1>4, SmallMultiple
<1> QED BY <1>1, <1>3, <1>5, SMT

\* The two-part copy reaches the slot of the k-th position after the cursor.
LEMMA SlotOfPosition ==
    ASSUME NEW cursor \in Nat, NEW k \in Slots
    PROVE  SlotOf(cursor, k) = (cursor + k) % Capacity /\ SlotOf(cursor, k) \in Slots
<1>1. Capacity \in Nat /\ Capacity > 0
  BY CapacityAssumption
<1> DEFINE start == cursor % Capacity
           turn == cursor \div Capacity
<1>2. cursor = Capacity * turn + start /\ turn \in Nat /\ start \in Slots
  BY <1>1, SMT DEF Slots
<1>3. SlotOf(cursor, k) = IF k < Capacity - start THEN start + k ELSE k - (Capacity - start)
  BY DEF SlotOf
<1> HIDE DEF start, turn
<1>4. CASE k < Capacity - start
  <2>1. cursor + k = Capacity * turn + (start + k) /\ start + k \in Slots /\ cursor + k \in Nat
    BY <1>1, <1>2, <1>4, SMT DEF Slots
  <2>2. (cursor + k) % Capacity = start + k
    BY <1>2, <2>1, RemainderUnique
  <2> QED BY <1>3, <1>4, <2>1, <2>2
<1>5. CASE ~(k < Capacity - start)
  <2>1. cursor + k = Capacity * (turn + 1) + (k - (Capacity - start))
        /\ turn + 1 \in Nat /\ k - (Capacity - start) \in Slots /\ cursor + k \in Nat
    BY <1>1, <1>2, <1>5, SMT DEF Slots
  <2>2. (cursor + k) % Capacity = k - (Capacity - start)
    BY <2>1, RemainderUnique
  <2> QED BY <1>3, <1>5, <2>1, <2>2
<1> QED BY <1>4, <1>5

-----------------------------------------------------------------------------
(* The inductive invariant. *)

\* Each thread's view of the other's cursor lags behind it, and what each has
\* reserved lies within what it saw.
CursorOrder ==
    /\ seenRead <= readCursor
    /\ readCursor + readCount <= seenWrite
    /\ seenWrite <= writeCursor
    /\ writeCursor + writeCount <= seenRead + Capacity
    /\ writeCursor + writeCount <= StreamLength
    /\ copied <= writeCount
    /\ Len(destination) <= readCount

\* Every position not released yet and copied already is in its slot.
SlotsHold ==
    \A i \in readCursor .. (writeCursor + copied - 1) : storage[i % Capacity] = i

\* The read in progress has copied out the right positions.
CopiedOut == \A k \in 1..Len(destination) : destination[k] = readCursor + k - 1

ObserverOrder ==
    /\ observer.loaded => observer.first <= readCursor
    /\ AvailableNeverNegative

RingInv ==
    /\ TypeOK
    /\ CursorOrder
    /\ SlotsHold
    /\ CopiedOut
    /\ FifoDelivery
    /\ ObserverOrder

\* An empty ring satisfies the invariant.
LEMMA InitRing == Init => RingInv
<1> SUFFICES ASSUME Init PROVE RingInv
  OBVIOUS
<1> USE CapacityAssumption, BoundsAssumption DEF Init
<1>1. TypeOK
  BY SMT DEF TypeOK, Slots, Positions, Unwritten
<1>2. CursorOrder /\ SlotsHold /\ CopiedOut /\ FifoDelivery /\ ObserverOrder
  BY SMT DEF CursorOrder, SlotsHold, CopiedOut, FifoDelivery, ObserverOrder,
             AvailableNeverNegative
<1> QED BY <1>1, <1>2 DEF RingInv

\* One step per action of the ring; only the copies touch storage.
LEMMA RingStep == RingInv /\ [Next]_vars => RingInv'
<1> SUFFICES ASSUME RingInv, [Next]_vars PROVE RingInv'
  OBVIOUS
<1> USE CapacityAssumption, BoundsAssumption
<1>0. TypeOK /\ CursorOrder /\ SlotsHold /\ CopiedOut /\ FifoDelivery /\ ObserverOrder
  BY DEF RingInv
<1>n. /\ Capacity \in Nat /\ StreamLength \in Nat /\ MaxBlock \in Nat
      /\ writeCursor \in Nat /\ readCursor \in Nat /\ seenRead \in Nat /\ seenWrite \in Nat
      /\ writeCount \in Nat /\ copied \in Nat /\ readCount \in Nat /\ Len(destination) \in Nat
  BY <1>0, SMT DEF TypeOK
<1>1. ASSUME NEW n \in 1..MaxBlock, BeginWrite(n) \/ BeginWriteExact(n)
      PROVE  RingInv'
  <2>1. PICK seen \in seenRead..readCursor :
          /\ seenRead' = seen
          /\ \/ writeCount' = Smaller(n, RoomSeen(seen))
             \/ writeCount' = IF RoomSeen(seen) < n THEN 0 ELSE n
    BY <1>1 DEF BeginWrite, BeginWriteExact
  <2>2. /\ writeCount = 0 /\ writeCursor + n <= StreamLength /\ copied' = 0
        /\ storage' = storage /\ writeCursor' = writeCursor /\ readCursor' = readCursor
        /\ seenWrite' = seenWrite /\ readCount' = readCount /\ destination' = destination
        /\ delivered' = delivered /\ observer' = observer
    BY <1>1 DEF BeginWrite, BeginWriteExact, WriteOffer, consumerVars
  <2>3. /\ n \in Nat /\ seen \in Nat /\ RoomSeen(seen) \in 0..Capacity
        /\ RoomSeen(seen) = Capacity - (writeCursor - seen)
        /\ seen <= readCursor /\ seenRead <= seen /\ copied = 0
    BY <1>0, <1>n, <2>2, SMT DEF CursorOrder, RoomSeen
  <2> DEFINE count == writeCount'
  <2>4. count \in Nat /\ count <= RoomSeen(seen) /\ count <= n
    BY <1>n, <2>1, <2>3, SMT DEF Smaller
  <2>5. TypeOK'
    BY <1>0, <1>n, <2>1, <2>2, <2>3, <2>4, SMT DEF TypeOK
  <2>6. CursorOrder'
    <3> HIDE DEF count
    <3>1. writeCursor + count <= seen + Capacity /\ writeCursor + count <= StreamLength
      BY <1>n, <2>2, <2>3, <2>4, SMT
    <3> USE DEF count
    <3>2. copied' <= writeCount' /\ seenRead' <= readCursor'
      BY <2>1, <2>2, <2>3, <2>4, SMT
    <3> QED BY <1>0, <2>1, <2>2, <3>1, <3>2 DEF CursorOrder
  <2>7. SlotsHold'
    BY <1>0, <2>2, <2>3 DEF SlotsHold
  <2>8. CopiedOut' /\ FifoDelivery' /\ ObserverOrder'
    BY <1>0, <2>2 DEF CopiedOut, FifoDelivery, ObserverOrder, AvailableNeverNegative
  <2> QED BY <2>5, <2>6, <2>7, <2>8 DEF RingInv
<1>2. CASE CopyIn
  <2> USE <1>2 DEF CopyIn
  <2> DEFINE p == writeCursor + copied
             slot == SlotOf(writeCursor, copied)
  <2>1. copied \in Slots /\ writeCursor \in Nat /\ p \in Positions /\ p \in Nat
    BY <1>0, SMT DEF TypeOK, CursorOrder, Slots, Positions
  <2>2. slot = p % Capacity /\ slot \in Slots
    BY <2>1, SlotOfPosition
  <2> HIDE DEF slot
  <2>3. storage' = [storage EXCEPT ![slot] = p]
    BY DEF slot
  <2>4. TypeOK'
    <3>1. storage' \in [Slots -> Positions \cup {Unwritten}]
      BY <1>0, <2>1, <2>3 DEF TypeOK
    <3>2. copied' \in 0..Capacity
      BY <1>0, <1>n, SMT DEF TypeOK, CursorOrder
    <3> QED BY <1>0, <3>1, <3>2 DEF TypeOK, consumerVars
  <2>5. CursorOrder'
    BY <1>0, SMT DEF TypeOK, CursorOrder, consumerVars
  <2>6. SlotsHold'
    <3> SUFFICES ASSUME NEW i \in readCursor..p
                 PROVE  storage'[i % Capacity] = i
      <4>1. readCursor' = readCursor /\ writeCursor' + copied' - 1 = p
        BY <1>n, SMT
      <4> QED BY <4>1 DEF SlotsHold
    <3>1. i \in Nat /\ i % Capacity \in Slots
      BY <1>0, <2>1, SMT DEF TypeOK, Slots
    <3>2. CASE i = p
      BY <1>0, <2>2, <2>3, <3>2 DEF TypeOK
    <3>3. CASE i # p
      <4>1. i < p /\ p < i + Capacity /\ i \in readCursor..(writeCursor + copied - 1)
        BY <1>0, <2>1, <3>3, SMT DEF TypeOK, CursorOrder
      <4>2. i % Capacity # slot
        BY <2>1, <2>2, <3>1, <4>1, SlotsDiffer
      <4>3. storage[i % Capacity] = i
        BY <1>0, <4>1 DEF SlotsHold
      <4> QED BY <1>0, <2>3, <3>1, <4>2, <4>3 DEF TypeOK
    <3> QED BY <3>2, <3>3
  <2>7. CopiedOut' /\ FifoDelivery' /\ ObserverOrder'
    BY <1>0 DEF CopiedOut, FifoDelivery, ObserverOrder, AvailableNeverNegative,
                consumerVars
  <2> QED BY <2>4, <2>5, <2>6, <2>7 DEF RingInv
<1>3. CASE Publish
  <2> USE <1>3 DEF Publish
  <2>1. TypeOK' /\ CursorOrder'
    BY <1>0, SMT DEF TypeOK, CursorOrder, consumerVars
  <2>2. SlotsHold'
    <3>1. writeCursor' + copied' - 1 = writeCursor + copied - 1
      BY <1>n, SMT
    <3> QED BY <1>0, <3>1 DEF SlotsHold
  <2>3. CopiedOut' /\ FifoDelivery' /\ ObserverOrder'
    BY <1>0 DEF CopiedOut, FifoDelivery, ObserverOrder, AvailableNeverNegative,
                consumerVars
  <2> QED BY <2>1, <2>2, <2>3 DEF RingInv
<1>4. ASSUME NEW n \in 1..MaxBlock, BeginRead(n) \/ BeginReadExact(n)
      PROVE  RingInv'
  <2>1. PICK seen \in seenWrite..writeCursor :
          /\ seenWrite' = seen
          /\ \/ readCount' = Smaller(n, seen - readCursor)
             \/ readCount' = IF seen - readCursor < n THEN 0 ELSE n
    BY <1>4 DEF BeginRead, BeginReadExact
  <2>2. /\ readCount = 0
        /\ storage' = storage /\ writeCursor' = writeCursor /\ readCursor' = readCursor
        /\ seenRead' = seenRead /\ writeCount' = writeCount /\ copied' = copied
        /\ destination' = destination /\ delivered' = delivered /\ observer' = observer
    BY <1>4 DEF BeginRead, BeginReadExact, ReadOffer, producerVars
  <2>3. /\ n \in Nat /\ seen \in Nat /\ seen <= writeCursor /\ seen - readCursor \in 0..Capacity
        /\ Len(destination) = 0
    BY <1>0, <1>n, <2>2, SMT DEF CursorOrder
  <2> DEFINE count == readCount'
  <2>4. count \in Nat /\ count <= seen - readCursor
    BY <1>n, <2>1, <2>3, SMT DEF Smaller
  <2>5. TypeOK'
    BY <1>0, <1>n, <2>1, <2>2, <2>3, <2>4, SMT DEF TypeOK
  <2>6. CursorOrder'
    <3> HIDE DEF count
    <3>1. readCursor + count <= seen
      BY <1>n, <2>3, <2>4, SMT
    <3> USE DEF count
    <3>2. Len(destination') <= readCount'
      BY <2>2, <2>3, <2>4, SMT
    <3> QED BY <1>0, <2>1, <2>2, <2>3, <3>1, <3>2 DEF CursorOrder
  <2>7. SlotsHold' /\ CopiedOut' /\ FifoDelivery' /\ ObserverOrder'
    BY <1>0, <2>2 DEF SlotsHold, CopiedOut, FifoDelivery, ObserverOrder, AvailableNeverNegative
  <2> QED BY <2>5, <2>6, <2>7 DEF RingInv
<1>5. CASE CopyOut
  <2> USE <1>5 DEF CopyOut
  <2> DEFINE k == Len(destination)
             p == readCursor + k
  <2>1. k \in Slots /\ readCursor \in Nat /\ p \in Positions /\ p < writeCursor
    BY <1>0, SMT DEF TypeOK, CursorOrder, Slots, Positions
  <2>2. SlotOf(readCursor, k) = p % Capacity
    BY <2>1, SlotOfPosition
  <2>3. storage[p % Capacity] = p
    BY <1>0, <2>1, SMT DEF SlotsHold, TypeOK, CursorOrder, Positions
  <2>4. destination' = Append(destination, p)
    BY <2>2, <2>3
  <2>5. TypeOK' /\ CursorOrder'
    BY <1>0, <2>1, <2>4, SMT DEF TypeOK, CursorOrder, producerVars
  <2>6. CopiedOut'
    BY <1>0, <2>1, <2>4, SMT DEF TypeOK, CopiedOut
  <2>7. SlotsHold' /\ FifoDelivery' /\ ObserverOrder'
    BY <1>0 DEF SlotsHold, FifoDelivery, ObserverOrder, AvailableNeverNegative, producerVars
  <2> QED BY <2>5, <2>6, <2>7 DEF RingInv
<1>6. CASE Release
  <2>1. /\ readCount > 0 /\ Len(destination) = readCount
        /\ readCursor' = readCursor + readCount /\ readCount' = 0
        /\ delivered' = delivered \o destination /\ destination' = <<>>
        /\ storage' = storage /\ writeCursor' = writeCursor /\ seenRead' = seenRead
        /\ writeCount' = writeCount /\ copied' = copied
        /\ seenWrite' = seenWrite /\ observer' = observer
    BY <1>6 DEF Release, producerVars
  <2>2. TypeOK'
    BY <1>0, <2>1, SMT DEF TypeOK, CursorOrder
  <2>3. CursorOrder'
    BY <1>0, <1>n, <2>1, SMT DEF CursorOrder
  <2>4. SlotsHold'
    <3> SUFFICES ASSUME NEW i \in readCursor'..(writeCursor + copied - 1)
                 PROVE  storage[i % Capacity] = i
      BY <2>1 DEF SlotsHold
    <3>1. i \in readCursor..(writeCursor + copied - 1)
      BY <1>n, <2>1, SMT
    <3> QED BY <1>0, <3>1 DEF SlotsHold
  <2>5. FifoDelivery'
    <3>1. /\ Len(delivered) = readCursor /\ delivered \in Seq(Positions \cup {Unwritten})
          /\ destination \in Seq(Positions \cup {Unwritten})
      BY <1>0 DEF TypeOK, FifoDelivery
    <3>2. Len(delivered') = readCursor'
      <4>1. Len(delivered \o destination) = Len(delivered) + Len(destination)
        BY <3>1, SMT
      <4> QED BY <2>1, <3>1, <4>1
    <3>3. ASSUME NEW k \in 1..Len(delivered') PROVE delivered'[k] = k - 1
      <4>1. CASE k \in 1..readCursor
        <5>1. delivered'[k] = delivered[k]
          BY <1>n, <2>1, <3>1, <4>1, SMT
        <5> QED BY <1>0, <3>1, <4>1, <5>1 DEF FifoDelivery
      <4>2. CASE k \notin 1..readCursor
        <5>1. /\ k - readCursor \in 1..Len(destination)
              /\ delivered'[k] = destination[k - readCursor]
          BY <1>n, <2>1, <3>1, <3>2, <4>2, SMT
        <5>2. delivered'[k] = readCursor + (k - readCursor) - 1
          BY <1>0, <5>1 DEF CopiedOut
        <5> QED BY <1>n, <3>2, <5>2, <2>1, SMT
      <4> QED BY <4>1, <4>2
    <3> QED BY <3>2, <3>3 DEF FifoDelivery
  <2>6. CopiedOut' /\ ObserverOrder'
    BY <1>0, <1>n, <2>1, SMT DEF TypeOK, CopiedOut, ObserverOrder, AvailableNeverNegative
  <2> QED BY <2>2, <2>3, <2>4, <2>5, <2>6 DEF RingInv
<1>7. CASE ObserveFirst
  <2>1. /\ observer' = [observer EXCEPT !.loaded = TRUE, !.first = readCursor]
        /\ UNCHANGED <<storage, writeCursor, readCursor, seenRead, writeCount, copied,
                       seenWrite, readCount, destination, delivered>>
    BY <1>7 DEF ObserveFirst, Available, producerVars, consumerVars
  <2>2. observer'.loaded /\ observer'.first = readCursor /\ observer'.available = observer.available
    BY <1>0, <2>1 DEF TypeOK
  <2>3. TypeOK'
    BY <1>0, <2>1 DEF TypeOK
  <2>4. ObserverOrder'
    BY <1>0, <1>n, <2>1, <2>2, SMT DEF ObserverOrder, AvailableNeverNegative
  <2>5. CursorOrder' /\ SlotsHold' /\ CopiedOut' /\ FifoDelivery'
    BY <1>0, <2>1 DEF CursorOrder, SlotsHold, CopiedOut, FifoDelivery
  <2> QED BY <2>3, <2>4, <2>5 DEF RingInv
<1>8. CASE ObserveSecond
  <2> USE <1>8 DEF ObserveSecond, Available
  <2>1. TypeOK' /\ CursorOrder' /\ ObserverOrder'
    BY <1>0, SMT DEF TypeOK, CursorOrder, ObserverOrder, AvailableNeverNegative,
                     producerVars, consumerVars
  <2>2. SlotsHold' /\ CopiedOut' /\ FifoDelivery'
    BY <1>0 DEF SlotsHold, CopiedOut, FifoDelivery, producerVars, consumerVars
  <2> QED BY <2>1, <2>2 DEF RingInv
<1>9. CASE UNCHANGED vars
  BY <1>0, <1>9 DEF vars, producerVars, consumerVars, RingInv, TypeOK, CursorOrder, SlotsHold,
                    CopiedOut, FifoDelivery, ObserverOrder, AvailableNeverNegative
<1> QED BY <1>1, <1>2, <1>3, <1>4, <1>5, <1>6, <1>7, <1>8, <1>9
        DEF Next, Producer, Consumer, Observer

\* The inductive invariant holds in every reachable state of a ring of any size.
THEOREM RingInvariant == Spec => []RingInv
<1>1. Init => RingInv
  BY InitRing
<1>2. RingInv /\ [Next]_vars => RingInv'
  BY RingStep
<1> QED BY <1>1, <1>2, PTL DEF Spec

-----------------------------------------------------------------------------
(* What follows from it. *)

\* Type correctness of the ring: the counts of write, write_exact, read and
\* read_exact stay within the storage whatever the capacity.
THEOREM RingTypeOK == Spec => []TypeOK
<1>1. RingInv => TypeOK
  BY DEF RingInv
<1> QED BY <1>1, RingInvariant, PTL

\* Completed reads return the written stream from its start, each value once
\* and in order, for any mix of partial and exact operations.
THEOREM RingFifoDelivery == Spec => []FifoDelivery
<1>1. RingInv => FifoDelivery
  BY DEF RingInv
<1> QED BY <1>1, RingInvariant, PTL

\* available_to_read never wraps below zero, even for a third thread.
THEOREM RingAvailable == Spec => []AvailableNeverNegative
<1>1. RingInv => AvailableNeverNegative
  BY DEF RingInv, ObserverOrder
<1> QED BY <1>1, RingInvariant, PTL

\* The slots still to be written are those of positions that lie beyond every
\* position still to be read, less than one ring away.
LEMMA NoConflictInRing == RingInv => NoSlotConflict
<1> SUFFICES ASSUME RingInv,
                    NEW k \in copied..(writeCount - 1),
                    NEW m \in Len(destination)..(readCount - 1),
                    SlotOf(writeCursor, k) = SlotOf(readCursor, m)
             PROVE  FALSE
  BY DEF NoSlotConflict, SlotsToWrite, SlotsToRead
<1>1. /\ Capacity \in Nat /\ writeCursor \in Nat /\ readCursor \in Nat
      /\ writeCount \in 0..Capacity /\ readCount \in 0..Capacity /\ seenRead \in Nat
      /\ copied \in Nat /\ Len(destination) \in Nat /\ seenWrite \in Nat
  BY CapacityAssumption, BoundsAssumption, SMT DEF RingInv, TypeOK
<1>2. k \in Slots /\ m \in Slots /\ k \in Nat /\ m \in Nat
  BY <1>1, SMT DEF Slots
<1> DEFINE j == writeCursor + k
           i == readCursor + m
<1>3. i \in Nat /\ j \in Nat /\ i < j /\ j < i + Capacity
  BY <1>1, <1>2, SMT DEF RingInv, CursorOrder
<1>4. SlotOf(writeCursor, k) = j % Capacity /\ SlotOf(readCursor, m) = i % Capacity
  BY <1>1, <1>2, SlotOfPosition
<1> HIDE DEF i, j
<1> QED BY <1>3, <1>4, SlotsDiffer

\* The two memcpys of the ring never overlap, so the copies, which are not
\* atomic, are free of data races.
THEOREM RingNoSlotConflict == Spec => []NoSlotConflict
<1> QED BY NoConflictInRing, RingInvariant, PTL

-----------------------------------------------------------------------------
(* The ring implements the bounded FIFO. *)

\* n consecutive stream positions.
Span(first, n) == [k \in 1..n |-> first + k - 1]

\* A span of the stream is a sequence of its positions, as long as it says.
LEMMA SpanIsSeq ==
    ASSUME NEW a \in Nat, NEW n \in Nat
    PROVE  /\ Span(a, n) \in Seq(Int)
           /\ Len(Span(a, n)) = n
           /\ \A k \in 1..n : Span(a, n)[k] = a + k - 1
<1>1. Span(a, n) \in [1..n -> Int]
  BY SMT DEF Span
<1> QED BY <1>1, SMT DEF Span

\* Two adjoining spans make one.
LEMMA SpanConcat ==
    ASSUME NEW a \in Nat, NEW n \in Nat, NEW m \in Nat
    PROVE  Span(a, n) \o Span(a + n, m) = Span(a, n + m)
<1>1. a + n \in Nat /\ n + m \in Nat
  BY SMT
<1>2. /\ Span(a, n) \in Seq(Int) /\ Len(Span(a, n)) = n
      /\ Span(a + n, m) \in Seq(Int) /\ Len(Span(a + n, m)) = m
      /\ Span(a, n + m) \in Seq(Int) /\ Len(Span(a, n + m)) = n + m
  BY <1>1, SpanIsSeq
<1> DEFINE joined == Span(a, n) \o Span(a + n, m)
<1>3. /\ joined \in Seq(Int) /\ Len(joined) = n + m
      /\ \A k \in 1..(n + m) :
            joined[k] = IF k <= n THEN Span(a, n)[k] ELSE Span(a + n, m)[k - n]
  <2>1. /\ joined \in Seq(Int) /\ Len(joined) = Len(Span(a, n)) + Len(Span(a + n, m))
        /\ \A k \in 1..(Len(Span(a, n)) + Len(Span(a + n, m))) :
              joined[k] = IF k <= Len(Span(a, n)) THEN Span(a, n)[k]
                          ELSE Span(a + n, m)[k - Len(Span(a, n))]
    BY <1>2, ConcatProperties
  <2> QED BY <1>2, <2>1
<1>4. ASSUME NEW k \in 1..(n + m) PROVE joined[k] = Span(a, n + m)[k]
  <2>1. CASE k <= n
    BY <1>1, <1>3, <1>4, <2>1, SMT DEF Span
  <2>2. CASE ~(k <= n)
    BY <1>1, <1>3, <1>4, <2>2, SMT DEF Span
  <2> QED BY <2>1, <2>2
<1> HIDE DEF joined
<1>5. joined = Span(a, n + m)
  BY <1>2, <1>3, <1>4, SeqEqual
<1> QED BY <1>5 DEF joined

\* A part of a span is the span between its ends.
LEMMA SpanSub ==
    ASSUME NEW a \in Nat, NEW n \in Nat, NEW m \in 0..n
    PROVE  /\ SubSeq(Span(a, n), 1, m) = Span(a, m)
           /\ SubSeq(Span(a, n), m + 1, n) = Span(a + m, n - m)
<1>1. a + m \in Nat /\ n - m \in Nat /\ m \in Nat
  BY SMT
<1>n. \A k \in 1..n : Span(a, n)[k] \in Int
  BY SMT DEF Span
<1>2. /\ \A k \in 1..n : Span(a, n)[k] = a + k - 1
      /\ Span(a, m) \in Seq(Int) /\ Len(Span(a, m)) = m
      /\ \A k \in 1..m : Span(a, m)[k] = a + k - 1
      /\ Span(a + m, n - m) \in Seq(Int) /\ Len(Span(a + m, n - m)) = n - m
      /\ \A k \in 1..(n - m) : Span(a + m, n - m)[k] = a + m + k - 1
  BY <1>1, SpanIsSeq
<1>3. /\ SubSeq(Span(a, n), 1, m) \in Seq(Int)
      /\ Len(SubSeq(Span(a, n), 1, m)) = m
      /\ \A k \in 1..m : SubSeq(Span(a, n), 1, m)[k] = a + k - 1
  <2>1. \A k \in 1..m : Span(a, n)[k] \in Int
    BY <1>n
  <2>2. /\ SubSeq(Span(a, n), 1, m) \in Seq(Int)
        /\ Len(SubSeq(Span(a, n), 1, m)) = IF 1 <= m THEN m - 1 + 1 ELSE 0
        /\ \A k \in 1..(m - 1 + 1) : SubSeq(Span(a, n), 1, m)[k] = Span(a, n)[1 + k - 1]
    BY <1>1, <2>1, SubSeqProperties
  <2> QED BY <1>1, <1>2, <2>2, SMT
<1>4. SubSeq(Span(a, n), 1, m) = Span(a, m)
  BY <1>2, <1>3, SeqEqual
<1>5. /\ SubSeq(Span(a, n), m + 1, n) \in Seq(Int)
      /\ Len(SubSeq(Span(a, n), m + 1, n)) = n - m
      /\ \A k \in 1..(n - m) : SubSeq(Span(a, n), m + 1, n)[k] = a + m + k - 1
  <2>1. \A k \in (m + 1)..n : Span(a, n)[k] \in Int
    BY <1>n
  <2>2. /\ SubSeq(Span(a, n), m + 1, n) \in Seq(Int)
        /\ Len(SubSeq(Span(a, n), m + 1, n)) = IF m + 1 <= n THEN n - (m + 1) + 1 ELSE 0
        /\ \A k \in 1..(n - (m + 1) + 1) :
              SubSeq(Span(a, n), m + 1, n)[k] = Span(a, n)[m + 1 + k - 1]
    BY <1>1, <2>1, SubSeqProperties
  <2> QED BY <1>1, <1>2, <2>2, SMT
<1>6. SubSeq(Span(a, n), m + 1, n) = Span(a + m, n - m)
  BY <1>2, <1>5, SeqEqual
<1> QED BY <1>4, <1>6

\* What the invariant says of the two variables of the FIFO.
FifoShape ==
    /\ Published = Span(readCursor, writeCursor - readCursor)
    /\ delivered = Span(0, readCursor)
    /\ writeCursor \in Nat /\ readCursor \in Nat /\ Capacity \in Nat
    /\ writeCursor - readCursor \in 0..Capacity

\* Under the invariant, what the consumer has and what is published are the
\* two adjoining spans of the stream that the cursors name.
LEMMA FifoState == RingInv => FifoShape
<1> SUFFICES ASSUME RingInv PROVE FifoShape
  OBVIOUS
<1>1. /\ writeCursor \in Nat /\ readCursor \in Nat /\ Capacity \in Nat /\ copied \in Nat
      /\ readCount \in Nat /\ seenWrite \in Nat /\ seenRead \in Nat /\ writeCount \in Nat
  BY CapacityAssumption, BoundsAssumption, SMT DEF RingInv, TypeOK
<1>2. writeCursor - readCursor \in 0..Capacity
  BY <1>1, SMT DEF RingInv, CursorOrder
<1>3. ASSUME NEW k \in 1..(writeCursor - readCursor)
      PROVE  storage[(readCursor + k - 1) % Capacity] = readCursor + k - 1
  <2>1. readCursor + k - 1 \in readCursor..(writeCursor + copied - 1)
    BY <1>1, <1>2, SMT
  <2> QED BY <2>1 DEF RingInv, SlotsHold
<1>4. Published = Span(readCursor, writeCursor - readCursor)
  BY <1>3 DEF Published, Span
<1>5. /\ delivered \in Seq(Int) /\ Len(delivered) = readCursor
      /\ \A k \in 1..readCursor : delivered[k] = k - 1
  <2>1. Positions \cup {Unwritten} \subseteq Int
    BY BoundsAssumption, SMT DEF Positions, Unwritten
  <2>2. delivered \in Seq(Positions \cup {Unwritten})
    BY DEF RingInv, TypeOK
  <2>3. delivered \in Seq(Int)
    BY <2>1, <2>2, SeqMonotonic
  <2> QED BY <2>3 DEF RingInv, FifoDelivery
<1>6. /\ Span(0, readCursor) \in Seq(Int) /\ Len(Span(0, readCursor)) = readCursor
      /\ \A k \in 1..readCursor : Span(0, readCursor)[k] = k - 1
  <2>1. /\ Span(0, readCursor) \in Seq(Int) /\ Len(Span(0, readCursor)) = readCursor
        /\ \A k \in 1..readCursor : Span(0, readCursor)[k] = 0 + k - 1
    BY <1>1, SpanIsSeq
  <2> QED BY <2>1, SMT
<1>7. delivered = Span(0, readCursor)
  BY <1>5, <1>6, SeqEqual
<1> QED BY <1>1, <1>2, <1>4, <1>7 DEF FifoShape

\* The same of the next state.
LEMMA FifoStateNext == RingInv' => FifoShape'
<1> QED BY FifoState, PTL

\* Storing the write cursor is a Put of the values that follow; it is the only
\* step of the producer a user of the FIFO can see.
LEMMA PublishIsPut ==
    ASSUME RingInv, RingInv', Publish
    PROVE  Fifo!PutNext
<1> DEFINE n == writeCount
           used == writeCursor - readCursor
<1>1. /\ n \in 1..Capacity /\ n + used <= Capacity /\ n \in Nat /\ used \in Nat
      /\ readCursor \in Nat /\ writeCursor \in Nat /\ Capacity \in Nat
  <2>1. /\ writeCount \in Nat /\ writeCount > 0 /\ seenRead \in Nat
        /\ seenRead <= readCursor /\ writeCursor + writeCount <= seenRead + Capacity
    BY CapacityAssumption, BoundsAssumption, SMT DEF RingInv, TypeOK, CursorOrder, Publish
  <2> QED BY <2>1, FifoState, SMT DEF FifoShape
<1>2. /\ Published = Span(readCursor, used) /\ Len(Published) = used
      /\ delivered = Span(0, readCursor) /\ Len(delivered) = readCursor
  BY <1>1, FifoState, SpanIsSeq DEF FifoShape
<1>3. Published' = Span(readCursor, used + n)
  <2>1. Published' = Span(readCursor', writeCursor' - readCursor')
    BY FifoStateNext DEF FifoShape
  <2>2. writeCursor' = writeCursor + n /\ readCursor' = readCursor
    BY DEF Publish
  <2>3. (writeCursor + n) - readCursor = used + n
    BY <1>1, SMT
  <2> QED BY <2>1, <2>2, <2>3
<1>4. Fifo!Following(n) = Span(readCursor + used, n)
  <2>1. Len(delivered) + Len(Published) = readCursor + used
    BY <1>2
  <2> QED BY <2>1 DEF Fifo!Following, Span
<1>5. Published' = Published \o Fifo!Following(n)
  <2>1. Span(readCursor, used) \o Span(readCursor + used, n) = Span(readCursor, used + n)
    BY <1>1, SpanConcat
  <2> QED BY <1>2, <1>3, <1>4, <2>1
<1>6. Len(Fifo!Following(n)) = n
  BY <1>1, <1>4, SpanIsSeq, SMT
<1>7. Len(Fifo!Following(n)) <= Fifo!Room
  BY <1>1, <1>2, <1>6, SMT DEF Fifo!Room
<1>8. delivered' = delivered
  BY DEF Publish, consumerVars
<1> QED BY <1>1, <1>5, <1>7, <1>8 DEF Fifo!PutNext, Fifo!Put

\* Storing the read cursor is a Take of the oldest values; it is the only step
\* of the consumer a user of the FIFO can see.
LEMMA ReleaseIsTake ==
    ASSUME RingInv, RingInv', Release
    PROVE  Fifo!TakeNext
<1> DEFINE n == readCount
           used == writeCursor - readCursor
<1>1. /\ n \in 1..Capacity /\ n \in 0..used /\ n \in Nat /\ used \in Nat
      /\ readCursor \in Nat /\ writeCursor \in Nat /\ Capacity \in Nat
  <2>1. /\ readCount \in Nat /\ readCount > 0 /\ seenWrite \in Nat
        /\ readCursor + readCount <= seenWrite /\ seenWrite <= writeCursor
    BY CapacityAssumption, BoundsAssumption, SMT DEF RingInv, TypeOK, CursorOrder, Release
  <2> QED BY <2>1, FifoState, SMT DEF FifoShape
<1>2. /\ Published = Span(readCursor, used) /\ Len(Published) = used
      /\ delivered = Span(0, readCursor)
  BY <1>1, FifoState, SpanIsSeq DEF FifoShape
<1>3. readCursor' = readCursor + n /\ writeCursor' = writeCursor
  BY DEF Release
<1>4. Published' = Span(readCursor + n, used - n) /\ delivered' = Span(0, readCursor + n)
  <2>1. /\ Published' = Span(readCursor', writeCursor' - readCursor')
        /\ delivered' = Span(0, readCursor')
    BY FifoStateNext DEF FifoShape
  <2>2. writeCursor - (readCursor + n) = used - n
    BY <1>1, SMT
  <2> QED BY <1>3, <2>1, <2>2
<1>5. SubSeq(Published, 1, n) = Span(readCursor, n)
      /\ SubSeq(Published, n + 1, used) = Span(readCursor + n, used - n)
  BY <1>1, <1>2, SpanSub
<1>6. delivered' = delivered \o SubSeq(Published, 1, n)
  <2>1. Span(0, readCursor) \o Span(0 + readCursor, n) = Span(0, readCursor + n)
    BY <1>1, SpanConcat
  <2>2. 0 + readCursor = readCursor
    BY <1>1, SMT
  <2> QED BY <1>2, <1>4, <1>5, <2>1, <2>2
<1>7. n <= Len(Published)
  BY <1>1, <1>2, SMT
<1> QED BY <1>1, <1>2, <1>4, <1>5, <1>6, <1>7 DEF Fifo!TakeNext, Fifo!Take

\* Every other step changes neither variable of the FIFO.
LEMMA OtherStepsStutter ==
    ASSUME RingInv, RingInv', [Next]_vars, ~Publish, ~Release
    PROVE  UNCHANGED <<Published, delivered>>
<1>1. UNCHANGED <<writeCursor, readCursor, delivered>>
  BY DEF Next, Producer, Consumer, Observer, BeginWrite, BeginWriteExact, CopyIn, BeginRead,
         BeginReadExact, CopyOut, ObserveFirst, ObserveSecond, vars, producerVars, consumerVars
<1>2. Published = Span(readCursor, writeCursor - readCursor)
  BY FifoState DEF FifoShape
<1>3. Published' = Span(readCursor', writeCursor' - readCursor')
  BY FifoStateNext DEF FifoShape
<1> QED BY <1>1, <1>2, <1>3

\* The ring, of any capacity, implements the bounded FIFO that AsioCapture
\* uses in its place: every step is a Put, a Take or invisible.
THEOREM RingImplementsFifo == Spec => ImplementsFifo
<1>1. Init => Fifo!Init
  <2> SUFFICES ASSUME Init PROVE Fifo!Init
    OBVIOUS
  <2>1. RingInv /\ readCursor = 0 /\ writeCursor = 0 /\ delivered = <<>>
    BY InitRing DEF Init
  <2>2. Published = <<>>
    BY <2>1, SMT DEF Published
  <2> QED BY <2>1, <2>2 DEF Fifo!Init
<1>2. RingInv /\ RingInv' /\ [Next]_vars => [Fifo!Next]_(Fifo!fifoVars)
  BY PublishIsPut, ReleaseIsTake, OtherStepsStutter DEF Fifo!Next, Fifo!fifoVars
<1> QED BY <1>1, <1>2, RingInvariant, PTL DEF Spec, ImplementsFifo, Fifo!Spec
=============================================================================
