------------------------------ MODULE WavFormat ------------------------------
(***************************************************************************)
(* The WAV container as core/src/wav.cpp writes and reads it, and as the   *)
(* panel's WavMetadataReader.cs reads it for itself.                       *)
(*                                                                         *)
(* A file is its length, the size field of its RIFF header and the chunks  *)
(* that follow one another from byte 12 on; the size field of a chunk may  *)
(* be larger than what is left of the file.  The body of a format chunk is *)
(* a record of its fields; identifiers other than "fmt" and "data" are     *)
(* "other".  Errors are not told apart: a reader that gives up answers     *)
(* Unreadable.                                                             *)
(***************************************************************************)
EXTENDS Integers, Sequences

CONSTANTS MaxSize,   \* the largest value of a 32-bit size field
          MaxAlign,  \* the largest value of a 16-bit block alignment
          MinSourceRate, MaxSourceRate   \* the sample rates of a source

HeaderSize == 44      \* RIFF and WAVE, a 16-byte format chunk, data header

ASSUME SizesAssumption ==
  /\ MaxSize \in Nat /\ MaxSize > HeaderSize
  /\ MaxAlign \in Nat /\ MaxAlign <= MaxSize

Unreadable == [frames |-> -1]

Padding(size) == size % 2

BitDepths == {16, 24, 32}

----------------------------------------------------------------------------
(* Writing.  A request is [frames, channels, bits, rate].                  *)

BlockAlign(w) == w.channels * (w.bits \div 8)

DataSize(w) == w.frames * BlockAlign(w)

\* Mutant: the padding byte is forgotten in the bound of the RIFF size.
ValidateCapacityUnpadded(w) ==
  /\ w.bits \in BitDepths
  /\ w.frames >= 0 /\ w.channels > 0
  /\ w.rate > 0 /\ w.rate <= MaxSize
  /\ BlockAlign(w) <= MaxAlign
  /\ w.rate <= MaxSize \div BlockAlign(w)
  /\ DataSize(w) <= MaxSize - 36

ValidateCapacity(w) ==
  /\ w.bits \in BitDepths
  /\ w.frames >= 0 /\ w.channels > 0
  /\ w.rate > 0 /\ w.rate <= MaxSize
  /\ BlockAlign(w) <= MaxAlign
  /\ w.rate <= MaxSize \div BlockAlign(w)
  /\ DataSize(w) <= MaxSize
  /\ DataSize(w) <= MaxSize - 36 - Padding(DataSize(w))

\* The size fields are computed in 32 bits.
Wrapped(x) == x % (MaxSize + 1)

RiffSize(w) ==
  Wrapped(36 + Wrapped(DataSize(w)) + Padding(Wrapped(DataSize(w))))

WriteWav(w) ==
  LET size == Wrapped(DataSize(w))
  IN [length |-> HeaderSize + DataSize(w) + Padding(size),
      riff |-> RiffSize(w),
      chunks |-> << [id |-> "fmt", size |-> 16,
                     body |-> [tag |-> "pcm", sub |-> "none", guid |-> TRUE,
                               extension |-> 0, channels |-> w.channels,
                               rate |-> w.rate, align |-> BlockAlign(w),
                               bits |-> w.bits, valid |-> 0]],
                    [id |-> "data", size |-> size] >>]

----------------------------------------------------------------------------
(* Reading.                                                                *)

\* parse_format_chunk
Encoding(f) == IF f.tag = "extensible" THEN f.sub ELSE f.tag

ValidBits(f) ==
  IF f.tag = "extensible" /\ f.valid # 0 THEN f.valid ELSE f.bits

FormatIsRead(f, size) ==
  /\ size >= 16
  /\ f.tag = "extensible" =>
       /\ size >= 40 /\ f.extension >= 22 /\ f.extension + 18 <= size
       /\ f.guid
  /\ Encoding(f) \in {"pcm", "float"}
  /\ f.channels > 0 /\ f.rate > 0 /\ f.align > 0
  /\ f.bits \in BitDepths
  /\ Encoding(f) = "float" => f.bits = 32 /\ ValidBits(f) = 32
  /\ ValidBits(f) <= f.bits
  /\ f.align = f.channels * (f.bits \div 8) /\ f.align <= MaxAlign

\* Mutant: the valid bits of a sample are not looked at.
PanelFormatAnyBits(f, size) ==
  /\ size >= 16
  /\ f.tag = "extensible" =>
       /\ size >= 40 /\ f.extension >= 22 /\ f.extension + 18 <= size
       /\ f.guid /\ f.sub \in {"pcm", "float"}
  /\ Encoding(f) \in {"pcm", "float"}
  /\ f.channels > 0 /\ f.rate > 0 /\ f.align > 0
  /\ f.bits \in BitDepths
  /\ Encoding(f) = "float" => f.bits = 32
  /\ f.align = f.channels * (f.bits \div 8) /\ f.align <= MaxAlign

\* WavMetadataReader.ParseFormat
PanelFormatIsRead(f, size) ==
  /\ size >= 16
  /\ f.tag = "extensible" =>
       /\ size >= 40 /\ f.extension >= 22 /\ f.extension + 18 <= size
       /\ f.guid /\ f.sub \in {"pcm", "float"}
  /\ Encoding(f) \in {"pcm", "float"}
  /\ f.channels > 0 /\ f.rate > 0 /\ f.align > 0
  /\ f.bits \in BitDepths
  /\ Encoding(f) = "float" => f.bits = 32
  /\ ValidBits(f) <= f.bits /\ (Encoding(f) = "float" => ValidBits(f) = 32)
  /\ f.align = f.channels * (f.bits \div 8) /\ f.align <= MaxAlign

\* One turn of the loop over the chunks: the first format and the first data
\* chunk count.  The code looks at the format chunk when it meets it, the
\* models after the loop: either way the file is not read.
AfterChunk(state, chunk, end) ==
  LET offset == state.position + 8
      padded == chunk.size + Padding(chunk.size)
  IN IF state.failed \/ offset > end THEN state
     ELSE IF padded > end - offset THEN [state EXCEPT !.failed = TRUE]
     ELSE [position |-> offset + padded,
           failed |-> FALSE,
           format |-> IF chunk.id = "fmt" /\ state.format = <<>>
                        THEN <<chunk>> ELSE state.format,
           data |-> IF chunk.id = "data" /\ state.data = <<>>
                      THEN <<[offset |-> offset, size |-> chunk.size]>>
                      ELSE state.data]

BeforeChunks(file) ==
  LET end == file.riff + 8
  IN [position |-> 12, failed |-> end < 12 \/ end > file.length,
      format |-> <<>>, data |-> <<>>]

Walk(file) ==
  LET state[i \in 0..Len(file.chunks)] ==
        IF i = 0 THEN BeforeChunks(file)
        ELSE AfterChunk(state[i - 1], file.chunks[i], file.riff + 8)
  IN state[Len(file.chunks)]

\* parse_wav_descriptor, and read_wav up to the samples
ReadWav(file) ==
  LET walk == Walk(file)
      format == walk.format[1].body
      data == walk.data[1]
  IN IF \/ file.length < 12 \/ walk.failed
        \/ walk.format = <<>> \/ walk.data = <<>>
        \/ ~FormatIsRead(format, walk.format[1].size)
       THEN Unreadable
     ELSE IF data.size % format.align # 0 THEN Unreadable
     ELSE [frames |-> data.size \div format.align, channels |-> format.channels,
           bits |-> format.bits, rate |-> format.rate,
           offset |-> data.offset, size |-> data.size]

\* What CaptureService::capture asks of its source before it looks for a device.
IsCaptureSource(wav) ==
  /\ wav.frames > 0
  /\ wav.rate >= MinSourceRate /\ wav.rate <= MaxSourceRate

\* The largest sample rate an int can hold.
MaxPanelRate == MaxSize \div 2

ASSUME RatesAssumption ==
  /\ MinSourceRate \in Nat /\ MaxSourceRate \in Nat
  /\ MaxSourceRate <= MaxPanelRate

\* WavMetadataReader.ReadMetadata; checked((int)format.SampleRate) throws too.
PanelReads(file) ==
  LET walk == Walk(file)
      format == walk.format[1].body
      data == walk.data[1]
  IN IF \/ file.length < 12 \/ walk.failed
        \/ walk.format = <<>> \/ walk.data = <<>>
        \/ ~PanelFormatIsRead(format, walk.format[1].size)
       THEN Unreadable
     ELSE IF \/ data.size % format.align # 0 \/ data.size < format.align
             \/ format.rate > MaxPanelRate
       THEN Unreadable
     ELSE [frames |-> data.size \div format.align, channels |-> format.channels,
           bits |-> format.bits, rate |-> format.rate]

\* Mutant: the rate of a picked file is not checked.
PanelPicksAnyRate(file) == PanelReads(file)
\* WavMetadataReader.ReadMetadataSnapshot and ReadSnapshot, of a picked file.
PanelPicks(file) ==
  LET metadata == PanelReads(file)
  IN IF \/ metadata = Unreadable
        \/ metadata.rate < MinSourceRate \/ metadata.rate > MaxSourceRate
       THEN Unreadable
     ELSE metadata

----------------------------------------------------------------------------
(* Samples, in half steps of the depth: -2 * scale .. 2 * scale stands for *)
(* -1.0 .. 1.0, and what lies outside is saturated.                        *)

\* The steps from 0 to 1.0, at half the depth of the file.
Scale(bits) == CASE bits = 16 -> 128 [] bits = 24 -> 2048 [] OTHER -> 32768

RoundedHalf(k) ==   \* llround: halves go away from zero
  IF k >= 0 THEN (k + 1) \div 2 ELSE -((1 - k) \div 2)

Quantize(k, scale) ==
  IF k <= -2 * scale THEN -scale
  ELSE IF k >= 2 * scale THEN scale - 1
  ELSE IF RoundedHalf(k) > scale - 1 THEN scale - 1 ELSE RoundedHalf(k)

\* two's complement in as many bytes as the container has
Encoded(q, scale) == IF q < 0 THEN q + 2 * scale ELSE q

\* decode_signed_integer; padding bits are divided away, toward zero
Decode(raw, scale, padding) ==
  LET q == IF raw >= scale THEN raw - 2 * scale ELSE raw
  IN IF q >= 0 THEN q \div padding ELSE -((-q) \div padding)
=============================================================================
