----------------------------- MODULE FakeLoopback -----------------------------
(***************************************************************************)
(* The recording of backends/fake/src/fake_backend.cpp: what is played     *)
(* comes back after the latency that was set, one channel of it here.      *)
(*                                                                         *)
(* A source is how many frames it declares and how many its reader really  *)
(* delivers; a source frame is its number, from 1 on.  The source chunk is *)
(* [start, buffer], the frames loaded last.                                *)
(***************************************************************************)
EXTENDS Integers, Sequences, FiniteSets

EmptyChunk == [start |-> 0, buffer |-> <<>>, failed |-> FALSE]

End(chunk) == chunk.start + Len(chunk.buffer)

\* load_source_chunk; the reader is asked again until the chunk is full.
LoadSourceChunk(chunk, frame, source, chunkFrames) ==
  LET left == source.declared - frame
      requested == IF left < chunkFrames THEN left ELSE chunkFrames
      outOfSequence == frame # End(chunk)
      endsEarly == source.delivered < frame + requested
  IN IF chunk.failed \/ (chunk.start <= frame /\ frame < End(chunk)) THEN chunk
     ELSE IF outOfSequence \/ endsEarly THEN [chunk EXCEPT !.failed = TRUE]
     ELSE [start |-> frame, buffer |-> [j \in 1..requested |-> frame + j],
           failed |-> FALSE]

\* Mutant: what the latency moves out of the recording is not read.
DrainNothing(chunk, source, chunkFrames) == chunk

\* The rest of the source is read and checked although nobody hears it.
Drain(chunk, source, chunkFrames) ==
  LET after[i \in 0..source.declared] ==
        IF i = 0 THEN chunk
        ELSE LET before == after[i - 1]
             IN IF End(before) < source.declared
                  THEN LoadSourceChunk(before, End(before), source, chunkFrames)
                ELSE before
  IN after[source.declared]

\* How many frames of the source the recording still holds.
HeardFrames(plan, padding, latency) ==
  LET room == 2 * padding + plan.sourceStart + plan.sourceFrames
                - (padding + latency + plan.sourceStart)
  IN IF room < 0 THEN 0
     ELSE IF room < plan.sourceFrames THEN room ELSE plan.sourceFrames

\* What the frames of the source up to one of them leave in the recording.
Played(count, source, chunkFrames) ==
  LET after[k \in 0..count] ==
        IF k = 0 THEN [chunk |-> EmptyChunk, frames |-> <<>>]
        ELSE LET before == after[k - 1]
                 chunk == LoadSourceChunk(before.chunk, k - 1, source, chunkFrames)
             IN IF chunk.failed THEN [before EXCEPT !.chunk = chunk]
                ELSE [chunk |-> chunk,
                      frames |-> Append(before.frames, chunk.buffer[k - chunk.start])]
  IN after[count]

\* FakeAudioBackend::capture: the frames of the recording that hold a marker
\* and the stretch that holds the source, or that the source failed.
Capture(plan, padding, latency, source, chunkFrames) ==
  LET total == 2 * padding + plan.sourceStart + plan.sourceFrames
      played == Played(HeardFrames(plan, padding, latency), source, chunkFrames)
      onsets == [i \in DOMAIN plan.markers |-> padding + latency + plan.markers[i]]
  IN [failed  |-> Drain(played.chunk, source, chunkFrames).failed,
      total   |-> total,
      markers |-> SubSeq(onsets, 1, Cardinality({i \in DOMAIN onsets : onsets[i] < total})),
      offset  |-> padding + latency + plan.sourceStart,
      frames  |-> played.frames]
=============================================================================
