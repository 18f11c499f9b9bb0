------------------------------ MODULE SpscRing ------------------------------
(***************************************************************************)
(* The bounded, allocation-free ring between one producer thread and one   *)
(* consumer thread (asio_spsc_ring.hpp).  An operation of the code is three *)
(* kinds of step here, because the other thread can run between them: the  *)
(* load of the two cursors, the copy of each value, the store that         *)
(* publishes the cursor.                                                   *)
(*                                                                         *)
(* The value at stream position i is the number i: the code is generic in  *)
(* its element type, so what matters is which position a slot holds.       *)
(*                                                                         *)
(* A load of the other side's cursor returns any value that side has       *)
(* stored since the value this thread saw last: that is what acquire and   *)
(* release promise, and a store that is still in a store buffer is seen    *)
(* late.  Cursors are 64 bits wide in the code and do not wrap.            *)
(***************************************************************************)
EXTENDS Integers, Sequences

CONSTANTS
    Capacity,      \* storage_.size()
    StreamLength,  \* bound: the producer writes this many values in all
    MaxBlock       \* bound: the largest span passed to one call

\* The constructor refuses a ring without storage.
ASSUME CapacityAssumption == Capacity \in Nat \ {0}
ASSUME BoundsAssumption == StreamLength \in Nat /\ MaxBlock \in Nat

VARIABLES
    storage,      \* storage_: slot -> the stream position it holds
    writeCursor,  \* write_cursor_
    readCursor,   \* read_cursor_
    seenRead,     \* the producer's last loaded value of readCursor
    writeCount,   \* values the write in progress will publish, 0 when idle
    copied,       \* how many of them are in storage already
    seenWrite,    \* the consumer's last loaded value of writeCursor
    readCount,    \* values the read in progress will release, 0 when idle
    destination,  \* what that read has copied out so far
    delivered,    \* history: what completed reads returned
    observer      \* a third thread inside available_to_read

producerVars == <<seenRead, writeCount, copied>>
consumerVars == <<seenWrite, readCount, destination, delivered>>
vars == <<storage, writeCursor, readCursor, producerVars, consumerVars, observer>>

Unwritten == StreamLength   \* no stream position: a slot never written
Slots == 0 .. Capacity - 1
Positions == 0 .. StreamLength - 1
Smaller(a, b) == IF a <= b THEN a ELSE b

Init ==
    /\ storage = [s \in Slots |-> Unwritten]
    /\ writeCursor = 0 /\ readCursor = 0
    /\ seenRead = 0 /\ writeCount = 0 /\ copied = 0
    /\ seenWrite = 0 /\ readCount = 0 /\ destination = <<>>
    /\ delivered = <<>>
    /\ observer = [loaded |-> FALSE, first |-> 0, available |-> 0]

\* The slot of the k-th value copied from a cursor: the first memcpy fills
\* storage up to its end, the second continues at slot 0.
SlotOf(cursor, k) ==
    LET start == cursor % Capacity
    IN  IF k < Capacity - start THEN start + k ELSE k - (Capacity - start)

-----------------------------------------------------------------------------
(* The producer. *)

RoomSeen(seen) == Capacity - (writeCursor - seen)

WriteOffer(n) == writeCount = 0 /\ n \in 1..MaxBlock /\ writeCursor + n <= StreamLength

\* write: as many values as fit, possibly none.
BeginWrite(n) ==
    /\ WriteOffer(n)
    /\ \E seen \in seenRead..readCursor :
          /\ seenRead' = seen
          /\ writeCount' = Smaller(n, RoomSeen(seen))
    /\ copied' = 0
    /\ UNCHANGED <<storage, writeCursor, readCursor, consumerVars, observer>>

\* Variant: one value too many is thought to fit.
BeginWriteExactOffByOne(n) ==
    /\ WriteOffer(n) /\ n <= Capacity
    /\ \E seen \in seenRead..readCursor :
          /\ seenRead' = seen
          /\ writeCount' = IF RoomSeen(seen) + 1 < n THEN 0 ELSE n
    /\ copied' = 0
    /\ UNCHANGED <<storage, writeCursor, readCursor, consumerVars, observer>>
\* write_exact: the whole block or nothing.
BeginWriteExact(n) ==
    /\ WriteOffer(n) /\ n <= Capacity
    /\ \E seen \in seenRead..readCursor :
          /\ seenRead' = seen
          /\ writeCount' = IF RoomSeen(seen) < n THEN 0 ELSE n
    /\ copied' = 0
    /\ UNCHANGED <<storage, writeCursor, readCursor, consumerVars, observer>>

\* Variant: the second memcpy starts over in the source span.
CopyInFromStart ==
    LET first == Capacity - (writeCursor % Capacity)
        k == IF copied < first THEN copied ELSE copied - first
    IN  /\ copied < writeCount
        /\ storage' = [storage EXCEPT ![SlotOf(writeCursor, copied)] = writeCursor + k]
        /\ copied' = copied + 1
        /\ UNCHANGED <<writeCursor, readCursor, seenRead, writeCount, consumerVars, observer>>
\* copy_into_storage, one value.
CopyIn ==
    /\ copied < writeCount
    /\ storage' = [storage EXCEPT ![SlotOf(writeCursor, copied)] = writeCursor + copied]
    /\ copied' = copied + 1
    /\ UNCHANGED <<writeCursor, readCursor, seenRead, writeCount, consumerVars, observer>>

\* The release store of write_cursor_ ends the call.
Publish ==
    /\ writeCount > 0 /\ copied = writeCount
    /\ writeCursor' = writeCursor + writeCount
    /\ writeCount' = 0 /\ copied' = 0
    /\ UNCHANGED <<storage, readCursor, seenRead, consumerVars, observer>>

-----------------------------------------------------------------------------
(* The consumer. *)

ReadOffer(n) == readCount = 0 /\ n \in 1..MaxBlock

\* read: as many values as are available, possibly none.
BeginRead(n) ==
    /\ ReadOffer(n)
    /\ \E seen \in seenWrite..writeCursor :
          /\ seenWrite' = seen
          /\ readCount' = Smaller(n, seen - readCursor)
    /\ UNCHANGED <<storage, writeCursor, readCursor, producerVars,
                   destination, delivered, observer>>

\* read_exact: the whole block or nothing.
BeginReadExact(n) ==
    /\ ReadOffer(n) /\ n <= Capacity
    /\ \E seen \in seenWrite..writeCursor :
          /\ seenWrite' = seen
          /\ readCount' = IF seen - readCursor < n THEN 0 ELSE n
    /\ UNCHANGED <<storage, writeCursor, readCursor, producerVars,
                   destination, delivered, observer>>

\* copy_from_storage, one value.
CopyOut ==
    /\ Len(destination) < readCount
    /\ destination' = Append(destination, storage[SlotOf(readCursor, Len(destination))])
    /\ UNCHANGED <<storage, writeCursor, readCursor, producerVars,
                   seenWrite, readCount, delivered, observer>>

\* The release store of read_cursor_ ends the call.
Release ==
    /\ readCount > 0 /\ Len(destination) = readCount
    /\ readCursor' = readCursor + readCount
    /\ delivered' = delivered \o destination
    /\ readCount' = 0 /\ destination' = <<>>
    /\ UNCHANGED <<storage, writeCursor, producerVars, seenWrite, observer>>

-----------------------------------------------------------------------------
(* A third thread that asks how much there is to read: the control thread  *)
(* of a capture, while the playback worker fills the ring and nobody reads *)
(* it yet.  The ring answers even while both ends move, which nothing in   *)
(* this code asks of it: it loads the read cursor first.                   *)

\* Variant: the cursors are loaded in the other order.
AvailableSwapped(second) == IF second THEN observer.first - readCursor ELSE writeCursor
\* available_to_read: what its first load keeps, and what it returns.
Available(second) == IF second THEN writeCursor - observer.first ELSE readCursor

ObserveFirst ==
    /\ ~observer.loaded
    /\ observer' = [observer EXCEPT !.loaded = TRUE, !.first = Available(FALSE)]
    /\ UNCHANGED <<storage, writeCursor, readCursor, producerVars, consumerVars>>

ObserveSecond ==
    /\ observer.loaded
    /\ observer' = [loaded |-> FALSE, first |-> 0, available |-> Available(TRUE)]
    /\ UNCHANGED <<storage, writeCursor, readCursor, producerVars, consumerVars>>

-----------------------------------------------------------------------------
Producer ==
    \/ \E n \in 1..MaxBlock : BeginWrite(n) \/ BeginWriteExact(n)
    \/ CopyIn
    \/ Publish

Consumer ==
    \/ \E n \in 1..MaxBlock : BeginRead(n) \/ BeginReadExact(n)
    \/ CopyOut
    \/ Release

Observer == ObserveFirst \/ ObserveSecond

Next == Producer \/ Consumer \/ Observer

Spec == Init /\ [][Next]_vars

-----------------------------------------------------------------------------
(* Properties. *)

\* Every variable has its type, and the counts their bounds.
TypeOK ==
    /\ storage \in [Slots -> Positions \cup {Unwritten}]
    /\ writeCursor \in 0..StreamLength /\ readCursor \in 0..StreamLength
    /\ seenRead \in 0..StreamLength /\ seenWrite \in 0..StreamLength
    /\ writeCount \in 0..Capacity /\ copied \in 0..Capacity
    /\ readCount \in 0..Capacity
    /\ destination \in Seq(Positions \cup {Unwritten})
    /\ delivered \in Seq(Positions \cup {Unwritten})
    /\ observer \in [loaded : BOOLEAN, first : 0..StreamLength, available : Int]

\* Completed reads return the stream from its start, every value once and in
\* order: no value is lost, repeated, torn or read before it was published,
\* whichever partial and exact calls the two threads mix and wherever the
\* ring wraps.
FifoDelivery ==
    /\ Len(delivered) = readCursor
    /\ \A k \in 1..Len(delivered) : delivered[k] = k - 1

\* The memcpy of one thread never touches a slot the memcpy of the other
\* still has to touch: the copies are not atomic, so this is what keeps the
\* two threads free of a data race.
SlotsToWrite == {SlotOf(writeCursor, k) : k \in copied..(writeCount - 1)}
SlotsToRead == {SlotOf(readCursor, k) : k \in Len(destination)..(readCount - 1)}
NoSlotConflict == SlotsToWrite \cap SlotsToRead = {}

\* available_to_read subtracts unsigned cursors: asked by any thread, at any
\* moment, it never returns a difference below zero, which the code would
\* take for a ring with nearly 2^64 values in it.
AvailableNeverNegative == observer.available >= 0

(* The ring implements the bounded FIFO. *)

Published == [k \in 1..(writeCursor - readCursor) |-> storage[(readCursor + k - 1) % Capacity]]

Fifo == INSTANCE BoundedFifo WITH queue <- Published, taken <- delivered

\* Every step of the ring is a whole Put, a whole Take or nothing a user of
\* the FIFO can see.
ImplementsFifo == Fifo!Spec
=============================================================================
