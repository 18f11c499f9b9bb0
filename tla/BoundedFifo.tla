---------------------------- MODULE BoundedFifo ----------------------------
(***************************************************************************)
(* What a bounded single-producer/single-consumer ring promises its two    *)
(* users, with no storage, no cursors and no intermediate steps: blocks of *)
(* the stream enter whole at one end and leave in order at the other.      *)
(*                                                                         *)
(* SpscRing implements this specification; AsioCapture instantiates it     *)
(* twice, once for the playback ring and once for the recording ring.      *)
(***************************************************************************)
EXTENDS Naturals, Sequences

CONSTANT Capacity   \* SpscRing::capacity()

VARIABLES
    queue,   \* published to the consumer and not yet released by it
    taken    \* everything the consumer has received, oldest first

fifoVars == <<queue, taken>>

Room == Capacity - Len(queue)

Init == queue = <<>> /\ taken = <<>>

\* One publication of the producer: the block is visible whole or not at all.
Put(block) ==
    /\ Len(block) <= Room
    /\ queue' = queue \o block
    /\ UNCHANGED taken

\* One completed read of the consumer: the n oldest values, in order.
Take(n) ==
    /\ n <= Len(queue)
    /\ taken' = taken \o SubSeq(queue, 1, n)
    /\ queue' = SubSeq(queue, n + 1, Len(queue))

\* The n values that follow everything put so far; value i is stream position i.
Following(n) == [i \in 1..n |-> Len(taken) + Len(queue) + i - 1]

PutNext == \E n \in 1..Capacity : Put(Following(n))
TakeNext == \E n \in 1..Capacity : Take(n)

Next == PutNext \/ TakeNext

Spec == Init /\ [][Next]_fifoVars
=============================================================================
