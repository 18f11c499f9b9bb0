--------------------------- MODULE SampleConverter ---------------------------
(***************************************************************************)
(* backends/asio/src/asio_sample_converter.cpp: interleaved floats to and  *)
(* from the buffers of an ASIO driver, one buffer for each channel.        *)
(*                                                                         *)
(* A byte has 4 bits here and every depth is half of the real one, so that *)
(* a 32-bit sample stays within TLC's integers.  A level is an integer,    *)
(* FullScale stands for 1.0.  Only the bytes of a floating-point number    *)
(* are abstract: byte i of the number k is <<k, i>>.                       *)
(***************************************************************************)
EXTENDS Integers, Sequences, SequencesExt

FullScale == 32768

NotANumber == 4 * FullScale

ByteValues == 16

Weight == <<1, 16, 256, 4096>>   \* of the byte i of an integer

\* describe_sample_type; every type has a big-endian (MSB) and a
\* little-endian (LSB) form, and what the switch does not name is unsupported.
Layouts ==
  [int16 |-> [bytes |-> 2, valid |-> 8],   int24 |-> [bytes |-> 3, valid |-> 12],
   int32 |-> [bytes |-> 4, valid |-> 16],  int32in16 |-> [bytes |-> 4, valid |-> 8],
   int32in18 |-> [bytes |-> 4, valid |-> 9],
   int32in20 |-> [bytes |-> 4, valid |-> 10],
   int32in24 |-> [bytes |-> 4, valid |-> 12],
   float32 |-> [bytes |-> 4, valid |-> 0], float64 |-> [bytes |-> 8, valid |-> 0]]

IsSupported(type) == type.name \in DOMAIN Layouts /\ type.order \in {"msb", "lsb"}

ByteCount(type) == Layouts[type.name].bytes

ValidBits(type) == Layouts[type.name].valid

IsInteger(type) == ValidBits(type) > 0

----------------------------------------------------------------------------
Normalized(k) ==
  IF k = NotANumber THEN 0
  ELSE IF k < -FullScale THEN -FullScale
  ELSE IF k > FullScale THEN FullScale
  ELSE k

\* 1 << (valid_bits - 1)
Scale(valid) ==
  CASE valid = 8 -> 128 [] valid = 9 -> 256 [] valid = 10 -> 512
    [] valid = 12 -> 2048 [] OTHER -> 32768

\* The level of one step of a depth.
Step(valid) == FullScale \div Scale(valid)

QuantizeSample(k, valid) ==   \* llround: halves go away from zero
  LET step == Step(valid)
      scale == Scale(valid)
      level == Normalized(k)
      rounded == IF level >= 0 THEN (2 * level + step) \div (2 * step)
                 ELSE -((step - 2 * level) \div (2 * step))
  IN IF level <= -FullScale THEN -scale
     ELSE IF level >= FullScale \/ rounded > scale - 1 THEN scale - 1
     ELSE rounded

InOrder(bytes, order) == IF order = "lsb" THEN bytes ELSE Reverse(bytes)

\* The bytes of a two's complement integer, sign-extended to its container.
Digits(q, count) ==
  [i \in 1..count |-> (q \div Weight[i]) % ByteValues]

ReadUnsigned(bytes) ==
  LET part == [i \in 1..Len(bytes) |-> bytes[i] * Weight[i]]
      value[i \in 0..Len(part)] == IF i = 0 THEN 0 ELSE value[i - 1] + part[i]
  IN value[Len(part)]

\* Mutant: the most negative value keeps its raw sign.
SignExtendAbove(raw, valid) ==
  LET value == raw % (2 * Scale(valid))
  IN IF value > Scale(valid) THEN value - 2 * Scale(valid) ELSE value

SignExtend(raw, valid) ==
  LET value == raw % (2 * Scale(valid))
  IN IF value >= Scale(valid) THEN value - 2 * Scale(valid) ELSE value

EncodeSample(k, type) ==
  InOrder(IF IsInteger(type)
            THEN Digits(QuantizeSample(k, ValidBits(type)), ByteCount(type))
            ELSE [i \in 1..ByteCount(type) |-> <<Normalized(k), i>>],
          type.order)

DecodeSample(bytes, type) ==
  LET ordered == InOrder(bytes, type.order)
  IN IF IsInteger(type)
       THEN SignExtend(ReadUnsigned(ordered), ValidBits(type)) * Step(ValidBits(type))
     ELSE IF \A i \in DOMAIN ordered : ordered[i] = <<ordered[1][1], i>>
       THEN Normalized(ordered[1][1])
     ELSE NotANumber   \* the bytes of no number, or of another one

----------------------------------------------------------------------------
(* A channel is [type, bytes]; a call leaves bytes beyond the frames alone. *)

Validation(sampleCount, frames, channels) ==
  IF \/ sampleCount # frames * Len(channels)
     \/ channels = <<>> /\ frames # 0
    THEN "invalid_shape"
  ELSE LET bad == {c \in DOMAIN channels :
                     \/ ~IsSupported(channels[c].type)
                     \/ Len(channels[c].bytes) < frames * ByteCount(channels[c].type)}
           first == CHOOSE c \in bad : \A d \in bad : c <= d
       IN IF bad = {} THEN "success"
          ELSE IF ~IsSupported(channels[first].type) THEN "unsupported_sample_type"
          ELSE "buffer_too_small"

InterleavedFloatToAsio(interleaved, frames, channels) ==
  LET outcome == Validation(Len(interleaved), frames, channels)
      Written(c) ==
        LET size == ByteCount(channels[c].type)
            Encoded(f) == EncodeSample(interleaved[f * Len(channels) + c],
                                       channels[c].type)
        IN [i \in DOMAIN channels[c].bytes |->
              IF i <= frames * size
                THEN Encoded((i - 1) \div size)[1 + ((i - 1) % size)]
                ELSE channels[c].bytes[i]]
  IN [outcome |-> outcome,
      channels |-> IF outcome # "success" THEN channels
                   ELSE [c \in DOMAIN channels |->
                           [channels[c] EXCEPT !.bytes = Written(c)]]]

AsioToInterleavedFloat(channels, frames, interleaved) ==
  LET outcome == Validation(Len(interleaved), frames, channels)
      Sample(i) ==
        LET channel == channels[1 + ((i - 1) % Len(channels))]
            size == ByteCount(channel.type)
            offset == ((i - 1) \div Len(channels)) * size
        IN DecodeSample(SubSeq(channel.bytes, offset + 1, offset + size),
                        channel.type)
  IN [outcome |-> outcome,
      interleaved |-> IF outcome # "success" THEN interleaved
                      ELSE [i \in DOMAIN interleaved |-> Sample(i)]]
=============================================================================
