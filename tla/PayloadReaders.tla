---------------------------- MODULE PayloadReaders ----------------------------
(***************************************************************************)
(* The frame readers of core/src/streaming.cpp: a reader over a recorded   *)
(* asset, and the reader of an aligned payload on top of it, which turns a *)
(* stretch of the asset into exactly as many frames as the source has.     *)
(*                                                                         *)
(* A frame of the asset is its index, Silence is a frame of zeros.  A read *)
(* of an asset may return fewer frames than it is asked for, but at least  *)
(* one of those that are left; "short" is the most it returns at once.     *)
(***************************************************************************)
EXTENDS Integers, Sequences

Silence == -1

AtMost(high, x) == IF x > high THEN high ELSE x

\* make_reader of an asset or of a payload refuses a start outside the asset.
StartIsInside(start, assetFrames) == start \in 0..assetFrames

\* MemoryFrameReader and RawFloat32FileReader: how much the next read returns
AssetRead(position, assetFrames, requested, short) ==
  AtMost(short, AtMost(assetFrames - position, requested))

OpenPayload(start, frames) ==
  [position |-> start, remaining |-> frames, ended |-> FALSE]

\* Mutant: one read of the asset, and silence for what it did not return.
ReadFramesOnce(reader, size, assetFrames, short) ==
  LET requested == AtMost(reader.remaining, size)
      read == AssetRead(reader.position, assetFrames, requested, short)
  IN [frames |-> [i \in 1..requested |->
                    IF i <= read THEN reader.position + i - 1 ELSE Silence],
      reader |-> [position |-> reader.position + read,
                  remaining |-> reader.remaining - requested,
                  ended |-> read = 0]]

\* AlignedPayloadReader::read_frames: the reads of the asset it makes until
\* it has enough or one of them returns nothing, then silence for the rest.
ReadFrames(reader, size, assetFrames, short) ==
  LET requested == AtMost(reader.remaining, size)
      state[i \in 0..(requested + 1)] ==
        IF i = 0 THEN [position |-> reader.position, filled |-> 0,
                       ended |-> reader.ended]
        ELSE LET before == state[i - 1]
                 read == AssetRead(before.position, assetFrames,
                                   requested - before.filled, short)
             IN IF before.filled = requested \/ before.ended THEN before
                ELSE [position |-> before.position + read,
                      filled |-> before.filled + read, ended |-> read = 0]
      last == state[requested + 1]
  IN [frames |-> [i \in 1..requested |->
                    IF i <= last.filled THEN reader.position + i - 1
                    ELSE Silence],
      reader |-> [position |-> last.position,
                  remaining |-> reader.remaining - requested,
                  ended |-> last.ended]]

\* validated_peak_level: one pass in chunks over what is there, which fails
\* when a read returns nothing before the declared count is reached.
PeakScanSucceeds(declared, actual) == actual >= declared
=============================================================================
