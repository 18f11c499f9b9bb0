------------------------- MODULE WorkerPipelineProofs -------------------------
(***************************************************************************)
(* What holds of the data path of a worker for all inputs.  The recursive  *)
(* definitions are reasoned about by induction over a set of numbers       *)
(* (SetInduction), which takes no operator as a parameter.                 *)
(***************************************************************************)
EXTENDS WorkerPipeline, FiniteSetTheorems, WellFoundedInduction,
        NaturalsInduction, TLAPS

------------------------------
(* Induction and recursion.                                                *)

\* Every set of numbers that is not empty has a least element.
LEMMA LeastElement ==
  ASSUME NEW T \in SUBSET Nat, T # {}
  PROVE  \E n \in T : \A m \in T : n <= m
<1>1. IsWellFoundedOn(OpToRel(<, Nat), Nat)
  BY NatLessThanWellFounded
<1>2. \E n \in T : \A m \in T : ~(<<m, n>> \in OpToRel(<, Nat))
  BY <1>1, WFMin
<1>3. PICK n \in T : \A m \in T : ~(<<m, n>> \in {p \in Nat \X Nat : p[1] < p[2]})
  BY <1>2 DEF OpToRel
<1>4. ASSUME NEW m \in T PROVE n <= m
  <2>1. ~(<<m, n>> \in {p \in Nat \X Nat : p[1] < p[2]})
    BY <1>3
  <2> QED BY <2>1
<1> QED BY <1>4

\* A set that holds 0 and with every number up to n - 1 the next one holds all
\* numbers up to n.
LEMMA SetInduction ==
  ASSUME NEW n \in Nat, NEW T, 0 \in T,
         \A i \in 1..n : i - 1 \in T => i \in T
  PROVE  0..n \subseteq T
<1> SUFFICES ASSUME ~(0..n \subseteq T) PROVE FALSE
  OBVIOUS
<1> DEFINE U == (0..n) \ T
<1>1. U \in SUBSET Nat /\ U # {}
  OBVIOUS
<1>2. PICK m \in U : \A k \in U : m <= k
  BY <1>1, LeastElement
<1>3. m \in 1..n /\ m - 1 \in 0..n /\ m - 1 \notin U
  BY <1>2
<1> QED BY <1>3

\* g is what n steps make of base.
Iterated(g, n, D, base, Step) ==
  /\ g \in [0..n -> D]
  /\ g[0] = base
  /\ \A i \in 1..n : g[i] = Step[<<i, g[i - 1]>>]

\* Steps that stay in a set can be iterated: a function that is defined by
\* recursion over them exists.
LEMMA Iterates ==
  ASSUME NEW n \in Nat, NEW D, NEW base \in D, NEW Step \in [(1..n) \X D -> D]
  PROVE  \E g : Iterated(g, n, D, base, Step)
<1> DEFINE Good(k, g) == g[0] = base /\ \A i \in 1..k : g[i] = Step[<<i, g[i - 1]>>]
           T == {k \in 0..n : \E g \in [0..k -> D] : Good(k, g)}
<1>1. 0 \in T
  <2>1. [i \in 0..0 |-> base] \in [0..0 -> D] /\ Good(0, [i \in 0..0 |-> base])
    OBVIOUS
  <2> HIDE DEF Good
  <2> QED BY <2>1
<1>2. ASSUME NEW k \in 1..n, k - 1 \in T PROVE k \in T
  <2>1. PICK g \in [0..(k - 1) -> D] : Good(k - 1, g)
    BY <1>2
  <2> DEFINE x == Step[<<k, g[k - 1]>>]
             h == [i \in 0..k |-> IF i = k THEN x ELSE g[i]]
  <2>2. x \in D
    <3>1. g[k - 1] \in D
      OBVIOUS
    <3> QED BY <3>1
  <2> HIDE DEF x
  <2>3. h \in [0..k -> D]
    BY <2>2
  <2>4. h[0] = base
    BY <2>1
  <2>5. ASSUME NEW i \in 1..k PROVE h[i] = Step[<<i, h[i - 1]>>]
    <3>0. h[i - 1] = g[i - 1]
      OBVIOUS
    <3>1. CASE i = k
      <4>1. h[i] = x
        BY <3>1
      <4>2. x = Step[<<i, g[i - 1]>>]
        BY <3>1 DEF x
      <4> HIDE DEF h
      <4> QED BY <3>0, <4>1, <4>2
    <3>2. CASE i # k
      <4>1. i \in 1..(k - 1) /\ h[i] = g[i]
        BY <3>2
      <4> QED BY <4>1, <2>1, <3>0
    <3> QED BY <3>1, <3>2
  <2>6. Good(k, h)
    BY <2>4, <2>5
  <2> HIDE DEF h, Good
  <2> QED BY <2>3, <2>6
<1> HIDE DEF T
<1>3. n \in T
  BY <1>1, <1>2, SetInduction
<1> QED BY <1>3 DEF T, Iterated

\* A function that starts with the step of base.
RunOver(h, n, D, base, Step) ==
  /\ h \in [1..n -> D] /\ h = [i \in 1..n |-> h[i]]
  /\ \A i \in 1..n : h[i] = Step[<<i, IF i = 1 THEN base ELSE h[i - 1]>>]

LEMMA RunsOver ==
  ASSUME NEW n \in Nat, NEW D, NEW base \in D, NEW Step \in [(1..n) \X D -> D]
  PROVE  \E h : RunOver(h, n, D, base, Step)
<1>1. PICK g : Iterated(g, n, D, base, Step)
  BY Iterates
<1>2. /\ g \in [0..n -> D] /\ g[0] = base
      /\ \A i \in 1..n : g[i] = Step[<<i, g[i - 1]>>] /\ g[i] \in D
  BY <1>1 DEF Iterated
<1> DEFINE h == [i \in 1..n |-> g[i]]
<1>3. h \in [1..n -> D] /\ h = [i \in 1..n |-> h[i]]
  BY <1>2
<1>4. \A i \in 1..n : i # 1 => h[i - 1] = g[i - 1]
  OBVIOUS
<1>5. \A i \in 1..n : h[i] = Step[<<i, IF i = 1 THEN base ELSE h[i - 1]>>]
  <2>1. \A i \in 1..n : h[i] = g[i]
    OBVIOUS
  <2> HIDE DEF h
  <2> QED BY <1>2, <1>4, <2>1
<1> QED BY <1>3, <1>5 DEF RunOver

------------------------------
(* The container of a WAV file.                                            *)

Requested ==
  [frames : Int, channels : Nat, bits : Int, rate : Nat, levels : Seq(Int)]

\* A bound on a quotient is a bound on the product.
LEMMA ProductIsBounded ==
  ASSUME NEW m \in Nat, NEW b \in Nat \ {0}, NEW r \in Nat, r <= m \div b
  PROVE  r * b <= m
<1> DEFINE q == m \div b
<1>1. q \in Nat /\ q * b <= m
  <2>1. m = b * q + (m % b) /\ m % b \in Nat /\ q \in Int
    OBVIOUS
  <2>2. q * b = b * q
    BY <2>1
  <2>3. q >= 0
    OBVIOUS
  <2> QED BY <2>1, <2>2, <2>3
<1>2. r * b <= q * b
  <2>1. q - r \in Nat
    BY <1>1
  <2>2. (q - r) * b \in Nat /\ (q - r) * b = q * b - r * b
    BY <2>1, <1>1
  <2> HIDE DEF q
  <2>3. r * b \in Int /\ q * b \in Int
    BY <1>1
  <2> QED BY <2>2, <2>3
<1> HIDE DEF q
<1>3. r * b \in Int /\ q * b \in Int
  BY <1>1
<1> QED BY <1>1, <1>2, <1>3

\* validate_wav_output_capacity: nothing wraps around in the header of a file
\* that was accepted, the RIFF size is the length of the file without its
\* first eight bytes, and the byte rate fits its field.
THEOREM AcceptedSizesFit ==
  ASSUME NEW w \in Requested, ValidateCapacity(w)
  PROVE  /\ Wrapped(DataSize(w)) = DataSize(w)
         /\ RiffSize(w) + 8 = WriteWav(w).length
         /\ w.rate * BlockAlign(w) <= MaxSize
<1> DEFINE b == BlockAlign(w)
           d == DataSize(w)
<1>1. b \in Nat \ {0}
  <2>1. w.bits \div 8 \in {2, 3, 4}
    BY DEF ValidateCapacity, BitDepths
  <2>2. w.channels \in Nat /\ w.channels > 0
    BY DEF ValidateCapacity, Requested
  <2> QED BY <2>1, <2>2 DEF BlockAlign
<1>2. d \in Nat
  <2>1. w.frames \in Nat
    BY DEF ValidateCapacity, Requested
  <2> QED BY <2>1, <1>1 DEF DataSize
<1>3. d <= MaxSize - 36 - Padding(d)
  BY DEF ValidateCapacity
<1>4. Padding(d) \in {0, 1}
  BY <1>2 DEF Padding
<1>5. MaxSize \in Nat
  BY SizesAssumption
<1>6. \A x \in 0..MaxSize : Wrapped(x) = x
  BY <1>5 DEF Wrapped
<1>7. Wrapped(d) = d
  BY <1>2, <1>3, <1>4, <1>5, <1>6
<1>8. RiffSize(w) = 36 + d + Padding(d)
  <2>1. 36 + d + Padding(d) \in 0..MaxSize
    BY <1>2, <1>3, <1>4, <1>5
  <2> HIDE DEF d
  <2> QED BY <2>1, <1>6, <1>7 DEF RiffSize, d
<1>9. WriteWav(w).length = 44 + d + Padding(d)
  BY <1>7 DEF WriteWav, HeaderSize
<1>10. w.rate * b <= MaxSize
  BY <1>1, <1>5, ProductIsBounded DEF ValidateCapacity, Requested
<1> HIDE DEF d, b
<1> QED BY <1>2, <1>4, <1>7, <1>8, <1>9, <1>10 DEF d, b

\* WavMetadataReader.ParseFormat and parse_format_chunk, written separately
\* in two languages, accept the same format chunks.
THEOREM FormatsAgree ==
  ASSUME NEW f, NEW size
  PROVE  PanelFormatIsRead(f, size) <=> FormatIsRead(f, size)
BY DEF PanelFormatIsRead, FormatIsRead, Encoding, ValidBits

\* A sample that was quantized, written and decoded is within half a step of
\* its level, or saturated at the end of the scale it lies beyond.
THEOREM SampleComesBack ==
  ASSUME NEW scale \in Nat \ {0}, NEW k \in Int
  PROVE  LET back == Decode(Encoded(Quantize(k, scale), scale), scale, 1)
         IN \/ 2 * back - k \in {-1, 0, 1}
            \/ k < -2 * scale /\ back = -scale
            \/ k >= 2 * scale - 1 /\ back = scale - 1
<1> DEFINE q == Quantize(k, scale)
<1>1. q \in -scale..(scale - 1)
  BY DEF Quantize, RoundedHalf
<1>2. \/ 2 * q - k \in {-1, 0, 1}
      \/ k < -2 * scale /\ q = -scale
      \/ k >= 2 * scale - 1 /\ q = scale - 1
  BY DEF Quantize, RoundedHalf
<1> HIDE DEF q
<1>3. Encoded(q, scale) = IF q < 0 THEN q + 2 * scale ELSE q
  BY DEF Encoded
<1>4. \A x \in Int : x \div 1 = x
  OBVIOUS
<1>5. Decode(Encoded(q, scale), scale, 1) = q
  <2>1. CASE q < 0
    BY <1>1, <1>3, <1>4, <2>1 DEF Decode
  <2>2. CASE q >= 0
    BY <1>1, <1>3, <1>4, <2>2 DEF Decode
  <2> QED BY <1>1, <2>1, <2>2
<1> QED BY <1>2, <1>5 DEF q
FormatChunks == [id : {"fmt"}, size : Nat, body : FormatBodies]
FileChunks == FormatChunks \cup [id : {"data", "other"}, size : Nat]
FileTypes == [length : Nat, riff : Nat, chunks : Seq(FileChunks)]
Datas == [offset : Nat, size : Nat]
WalkTypes ==
  [position : Nat, failed : BOOLEAN, format : {<<>>} \cup {<<c>> : c \in FormatChunks},
   data : {<<>>} \cup {<<d>> : d \in Datas}]

\* What is known of the loop after each chunk.
WalkIsSound(state, file) ==
  /\ state \in WalkTypes
  /\ ~state.failed =>
       /\ file.riff + 8 <= file.length
       /\ state.data # <<>> =>
            state.data[1].offset + state.data[1].size <= file.riff + 8

\* One turn of the loop stays within the file.
LEMMA AfterChunkIsSound ==
  ASSUME NEW file \in FileTypes, NEW state, WalkIsSound(state, file),
         NEW chunk \in FileChunks
  PROVE  WalkIsSound(AfterChunk(state, chunk, file.riff + 8), file)
<1> DEFINE end == file.riff + 8
           offset == state.position + 8
           padded == chunk.size + Padding(chunk.size)
           next == [position |-> offset + padded, failed |-> FALSE,
                    format |-> IF chunk.id = "fmt" /\ state.format = <<>>
                                 THEN <<chunk>> ELSE state.format,
                    data |-> IF chunk.id = "data" /\ state.data = <<>>
                               THEN <<[offset |-> offset, size |-> chunk.size]>>
                               ELSE state.data]
<1>1. /\ state \in WalkTypes /\ state.position \in Nat /\ end \in Nat
      /\ chunk.size \in Nat /\ padded \in Nat /\ chunk.size <= padded
  BY DEF WalkIsSound, WalkTypes, FileTypes, FileChunks, FormatChunks, Padding
<1>2. CASE state.failed \/ offset > end
  BY <1>2 DEF AfterChunk
<1>3. CASE ~state.failed /\ ~(offset > end) /\ padded > end - offset
  <2>1. AfterChunk(state, chunk, end) = [state EXCEPT !.failed = TRUE]
    BY <1>3 DEF AfterChunk
  <2>2. [state EXCEPT !.failed = TRUE] \in WalkTypes
    BY <1>1 DEF WalkTypes
  <2>3. [state EXCEPT !.failed = TRUE].failed
    BY <1>1 DEF WalkTypes
  <2> QED BY <2>1, <2>2, <2>3 DEF WalkIsSound
<1>4. CASE ~state.failed /\ ~(offset > end) /\ ~(padded > end - offset)
  <2>1. AfterChunk(state, chunk, end) = next
    BY <1>4 DEF AfterChunk
  <2>2. next.format \in {<<>>} \cup {<<c>> : c \in FormatChunks}
    <3>1. chunk.id = "fmt" => chunk \in FormatChunks
      BY DEF FileChunks, FormatChunks
    <3> QED BY <3>1, <1>1 DEF WalkTypes
  <2>3. next.data \in {<<>>} \cup {<<d>> : d \in Datas}
    <3>1. [offset |-> offset, size |-> chunk.size] \in Datas
      BY <1>1 DEF Datas
    <3> QED BY <3>1, <1>1 DEF WalkTypes
  <2>4. next \in WalkTypes
    BY <1>1, <2>2, <2>3 DEF WalkTypes
  <2>5. next.data # <<>> => next.data[1].offset + next.data[1].size <= end
    <3>1. CASE chunk.id = "data" /\ state.data = <<>>
      <4>1. next.data = <<[offset |-> offset, size |-> chunk.size]>>
        BY <3>1
      <4> QED BY <4>1, <1>1, <1>4
    <3>2. CASE ~(chunk.id = "data" /\ state.data = <<>>)
      <4>1. next.data = state.data
        BY <3>2
      <4> QED BY <4>1, <1>4 DEF WalkIsSound
    <3> QED BY <3>1, <3>2
  <2>6. file.riff + 8 <= file.length
    BY <1>4 DEF WalkIsSound
  <2> HIDE DEF next
  <2> QED BY <2>1, <2>4, <2>5, <2>6 DEF WalkIsSound
<1> QED BY <1>2, <1>3, <1>4

\* The states of the loop, by number of chunks.
Walked(file) ==
  CHOOSE state : state = [i \in 0..Len(file.chunks) |->
                            IF i = 0 THEN BeforeChunks(file)
                            ELSE AfterChunk(state[i - 1], file.chunks[i], file.riff + 8)]

\* The loop does what its body says, chunk by chunk.
LEMMA WalkedChunks ==
  ASSUME NEW file \in FileTypes
  PROVE  /\ Walk(file) = Walked(file)[Len(file.chunks)]
         /\ Walked(file)[0] = BeforeChunks(file)
         /\ \A i \in 1..Len(file.chunks) :
              Walked(file)[i] = AfterChunk(Walked(file)[i - 1], file.chunks[i], file.riff + 8)
         /\ \A i \in 0..Len(file.chunks) : WalkIsSound(Walked(file)[i], file)
<1> DEFINE n == Len(file.chunks)
           D == {s \in WalkTypes : WalkIsSound(s, file)}
           base == BeforeChunks(file)
           Step == [p \in (1..n) \X D |-> AfterChunk(p[2], file.chunks[p[1]], file.riff + 8)]
           Is(g) == g = [i \in 0..n |->
                           IF i = 0 THEN BeforeChunks(file)
                           ELSE AfterChunk(g[i - 1], file.chunks[i], file.riff + 8)]
<1>1. n \in Nat /\ \A i \in 1..n : file.chunks[i] \in FileChunks
  BY DEF FileTypes
<1> HIDE DEF n
<1>2. base \in D
  <2>1. base \in WalkTypes
    BY DEF BeforeChunks, WalkTypes
  <2>2. base.data = <<>>
    BY DEF BeforeChunks
  <2>3. ~base.failed => file.riff + 8 <= file.length
    <3>1. file.riff + 8 \in Nat /\ file.length \in Nat
      BY DEF FileTypes
    <3>2. base.failed <=> (file.riff + 8 < 12 \/ file.riff + 8 > file.length)
      BY DEF BeforeChunks
    <3> QED BY <3>1, <3>2
  <2> QED BY <2>1, <2>2, <2>3 DEF WalkIsSound
<1>3. Step \in [(1..n) \X D -> D]
  <2>1. ASSUME NEW i \in 1..n, NEW s \in D
        PROVE  AfterChunk(s, file.chunks[i], file.riff + 8) \in D
    <3>1. WalkIsSound(AfterChunk(s, file.chunks[i], file.riff + 8), file)
      BY <1>1, AfterChunkIsSound
    <3> QED BY <3>1 DEF WalkIsSound
  <2> HIDE DEF D
  <2> QED BY <2>1
<1>4. PICK g : Iterated(g, n, D, base, Step)
  <2> HIDE DEF D, base, Step
  <2> QED BY <1>1, <1>2, <1>3, Iterates
<1>5. ASSUME NEW i \in 1..n
      PROVE  g[i] = AfterChunk(g[i - 1], file.chunks[i], file.riff + 8)
  <2>1. g[i - 1] \in D
    <3> HIDE DEF D
    <3> QED BY <1>1, <1>4 DEF Iterated
  <2>2. <<i, g[i - 1]>> \in (1..n) \X D
    BY <2>1
  <2> HIDE DEF D
  <2>3. g[i] = Step[<<i, g[i - 1]>>]
    BY <1>4 DEF Iterated
  <2> QED BY <2>2, <2>3
<1>6. Is(g)
  <2>1. g = [i \in 0..n |-> g[i]] /\ g[0] = BeforeChunks(file)
    BY <1>4 DEF Iterated
  <2>2. ASSUME NEW i \in 0..n
        PROVE  g[i] = IF i = 0 THEN BeforeChunks(file)
                      ELSE AfterChunk(g[i - 1], file.chunks[i], file.riff + 8)
    <3>1. i # 0 => i \in 1..n
      BY <1>1
    <3> QED BY <1>5, <2>1, <3>1
  <2> QED BY <2>1, <2>2
<1>7. Walked(file) = CHOOSE h : Is(h)
  BY DEF Walked, n
<1>8. Is(Walked(file))
  <2> HIDE DEF Is
  <2> QED BY <1>6, <1>7
<1>9. /\ Walked(file)[0] = BeforeChunks(file)
      /\ \A i \in 1..n : Walked(file)[i]
                           = AfterChunk(Walked(file)[i - 1], file.chunks[i], file.riff + 8)
  <2>1. 0 \in 0..n /\ \A i \in 1..n : i \in 0..n /\ i # 0
    BY <1>1
  <2> QED BY <1>8, <2>1
<1>10. \A i \in 0..n : WalkIsSound(Walked(file)[i], file)
  <2> DEFINE T == {i \in 0..n : WalkIsSound(Walked(file)[i], file)}
  <2>1. 0 \in T
    BY <1>1, <1>2, <1>9
  <2>2. ASSUME NEW i \in 1..n, i - 1 \in T PROVE i \in T
    BY <1>1, <1>9, <2>2, AfterChunkIsSound
  <2> HIDE DEF T
  <2>3. 0..n \subseteq T
    BY <1>1, <2>1, <2>2, SetInduction
  <2> QED BY <2>3 DEF T
<1>11. Walk(file) = Walked(file)[n]
  BY DEF Walk, Walked, n
<1> QED BY <1>9, <1>10, <1>11 DEF n

\* A quotient is positive exactly when the divisor fits.
LEMMA QuotientIsPositive ==
  ASSUME NEW s \in Nat, NEW b \in Nat \ {0}
  PROVE  s \div b \in Nat /\ (s \div b > 0 <=> ~(s < b))
<1> DEFINE q == s \div b
           r == s % b
<1>1. s = b * q + r /\ r \in Nat /\ r < b /\ q \in Int /\ q >= 0
  OBVIOUS
<1> HIDE DEF q, r
<1>2. CASE q = 0
  BY <1>1, <1>2 DEF q
<1>3. CASE q > 0
  <2>1. (q - 1) * b \in Nat
    BY <1>1, <1>3
  <2>2. b * q = b + (q - 1) * b
    BY <1>1
  <2> QED BY <1>1, <1>3, <2>1, <2>2 DEF q
<1> QED BY <1>1, <1>2, <1>3

\* For every file the panel's reader and the worker's agree.
LEMMA ReadersAgree ==
  ASSUME NEW file \in FileTypes
  PROVE  LET worker == ReadWav(file)
             panel == PanelReads(file)
         IN /\ panel # Unreadable <=> worker.frames > 0 /\ worker.rate <= MaxPanelRate
            /\ panel # Unreadable =>
                 /\ panel.frames = worker.frames
                 /\ panel.channels = worker.channels
                 /\ panel.bits = worker.bits
                 /\ panel.rate = worker.rate
            /\ worker # Unreadable =>
                 worker.offset + worker.size <= file.length /\ worker.rate \in Nat
<1> DEFINE walk == Walk(file)
           format == walk.format[1].body
           data == walk.data[1]
           broken == \/ file.length < 12 \/ walk.failed
                     \/ walk.format = <<>> \/ walk.data = <<>>
                     \/ ~FormatIsRead(format, walk.format[1].size)
           worker == ReadWav(file)
           panel == PanelReads(file)
           frames == data.size \div format.align
           read == [frames |-> frames, channels |-> format.channels,
                    bits |-> format.bits, rate |-> format.rate,
                    offset |-> data.offset, size |-> data.size]
           seen == [frames |-> frames, channels |-> format.channels,
                    bits |-> format.bits, rate |-> format.rate]
<1>1. WalkIsSound(walk, file)
  BY WalkedChunks DEF FileTypes
<1>2. PanelFormatIsRead(format, walk.format[1].size)
        <=> FormatIsRead(format, walk.format[1].size)
  BY FormatsAgree
<1>3. worker = IF broken THEN Unreadable
               ELSE IF data.size % format.align # 0 THEN Unreadable ELSE read
  BY DEF ReadWav
<1>4. panel = IF broken THEN Unreadable
              ELSE IF \/ data.size % format.align # 0 \/ data.size < format.align
                      \/ format.rate > MaxPanelRate
                THEN Unreadable ELSE seen
  BY <1>2 DEF PanelReads
<1>5. ~broken => /\ format \in FormatBodies /\ format.align \in Nat \ {0}
                 /\ data \in Datas /\ data.size \in Nat
                 /\ data.offset + data.size <= file.length
  <2>1. SUFFICES ASSUME ~broken PROVE /\ format \in FormatBodies /\ format.align \in Nat \ {0}
                                      /\ data \in Datas /\ data.size \in Nat
                                      /\ data.offset + data.size <= file.length
    OBVIOUS
  <2>2. PICK c \in FormatChunks : walk.format = <<c>>
    BY <1>1, <2>1 DEF WalkIsSound, WalkTypes
  <2>3. format \in FormatBodies
    BY <2>2 DEF FormatChunks
  <2>4. format.align \in Nat /\ format.align > 0
    BY <2>1, <2>3 DEF FormatIsRead, FormatBodies
  <2>5. PICK d \in Datas : walk.data = <<d>>
    BY <1>1, <2>1 DEF WalkIsSound, WalkTypes
  <2>6. data \in Datas /\ data.size \in Nat /\ data.offset \in Nat
    BY <2>5 DEF Datas
  <2>7. file.riff + 8 <= file.length /\ data.offset + data.size <= file.riff + 8
    BY <1>1, <2>1 DEF WalkIsSound
  <2>8. file.riff \in Nat /\ file.length \in Nat
    BY DEF FileTypes
  <2> HIDE DEF format, data, broken
  <2> QED BY <2>3, <2>4, <2>6, <2>7, <2>8
<1>6. Unreadable.frames = -1
  BY DEF Unreadable
<1>7. CASE broken
  <2> HIDE DEF broken, worker, panel
  <2>1. worker = Unreadable /\ panel = Unreadable
    BY <1>3, <1>4, <1>7
  <2> QED BY <2>1, <1>6 DEF worker, panel
<1>8. CASE ~broken
  <2>1. frames \in Nat /\ (frames > 0 <=> ~(data.size < format.align))
    <3> HIDE DEF broken, format, data
    <3> QED BY <1>5, <1>8, QuotientIsPositive
  <2>2. read # Unreadable /\ seen # Unreadable
    <3> HIDE DEF frames
    <3>1. read.frames # -1 /\ seen.frames # -1
      BY <2>1
    <3> QED BY <3>1, <1>6
  <2>3. /\ read.frames = frames /\ seen.frames = frames
        /\ read.rate = format.rate /\ seen.rate = read.rate
        /\ seen.channels = read.channels /\ seen.bits = read.bits
        /\ read.offset = data.offset /\ read.size = data.size
    OBVIOUS
  <2>4. format.rate \in Nat
    BY <1>5, <1>8 DEF FormatBodies
  <2>5. MaxPanelRate \in Int
    BY SizesAssumption DEF MaxPanelRate
  <2> HIDE DEF read, seen, frames, broken, format, data, worker, panel
  <2>6. CASE data.size % format.align # 0
    <3>1. worker = Unreadable /\ panel = Unreadable
      BY <1>3, <1>4, <1>8, <2>6
    <3> QED BY <3>1, <1>6 DEF worker, panel
  <2>7. CASE data.size % format.align = 0
    <3>1. worker = read
      BY <1>3, <1>8, <2>7
    <3>2. panel = IF data.size < format.align \/ format.rate > MaxPanelRate
                    THEN Unreadable ELSE seen
      BY <1>4, <1>8, <2>7
    <3>3. panel # Unreadable <=> worker.frames > 0 /\ worker.rate <= MaxPanelRate
      BY <3>1, <3>2, <2>1, <2>2, <2>3, <2>4, <2>5, <1>5, <1>8
    <3>4. panel # Unreadable => panel = seen
      BY <3>2
    <3>5. worker.offset + worker.size <= file.length /\ worker.rate \in Nat
      BY <3>1, <2>3, <2>4, <1>5, <1>8
    <3> QED BY <3>1, <3>3, <3>4, <3>5, <2>3 DEF worker, panel
  <2> QED BY <2>6, <2>7
<1> QED BY <1>7, <1>8

\* The panel takes a picked file exactly when the worker captures from it.
LEMMA PickedIsCaptured ==
  ASSUME NEW file \in FileTypes
  PROVE  /\ PanelPicks(file) # Unreadable <=> IsCaptureSource(ReadWav(file))
         /\ PanelPicks(file) \in {Unreadable, PanelReads(file)}
<1> DEFINE worker == ReadWav(file)
           panel == PanelReads(file)
<1>1. /\ panel # Unreadable <=> worker.frames > 0 /\ worker.rate <= MaxPanelRate
      /\ panel # Unreadable => panel.rate = worker.rate
      /\ worker # Unreadable => worker.rate \in Nat
  BY ReadersAgree
<1>2. PanelPicks(file)
        = IF panel = Unreadable \/ panel.rate < MinSourceRate \/ panel.rate > MaxSourceRate
            THEN Unreadable ELSE panel
  BY DEF PanelPicks
<1>3. worker.frames > 0 => worker # Unreadable
  BY DEF Unreadable
<1>4. /\ MinSourceRate \in Nat /\ MaxSourceRate \in Nat
      /\ MaxPanelRate \in Int /\ MaxSourceRate <= MaxPanelRate
  BY RatesAssumption, SizesAssumption DEF MaxPanelRate
<1> HIDE DEF worker, panel
<1>5. PanelPicks(file) # Unreadable <=> IsCaptureSource(worker)
  BY <1>1, <1>2, <1>3, <1>4 DEF IsCaptureSource
<1> QED BY <1>2, <1>5 DEF worker, panel

\* The turn of the loop over a chunk that lies in the file.
LEMMA ChunkIsTaken ==
  ASSUME NEW state, NEW chunk, NEW end, ~state.failed, ~(state.position + 8 > end),
         ~(chunk.size + Padding(chunk.size) > end - (state.position + 8))
  PROVE  AfterChunk(state, chunk, end) =
           [position |-> state.position + 8 + (chunk.size + Padding(chunk.size)),
            failed |-> FALSE,
            format |-> IF chunk.id = "fmt" /\ state.format = <<>>
                         THEN <<chunk>> ELSE state.format,
            data |-> IF chunk.id = "data" /\ state.data = <<>>
                       THEN <<[offset |-> state.position + 8, size |-> chunk.size]>>
                       ELSE state.data]
BY DEF AfterChunk

\* What the writer made of a request it accepted is read with its format and
\* with all its frames.
LEMMA WrittenIsRead ==
  ASSUME NEW w \in Requested, ValidateCapacity(w)
  PROVE  LET worker == ReadWav(WriteWav(w))
         IN /\ worker.frames = w.frames
            /\ worker.channels = w.channels
            /\ worker.bits = w.bits
            /\ worker.rate = w.rate
            /\ WriteWav(w).riff + 8 = WriteWav(w).length
<1> DEFINE b == BlockAlign(w)
           d == DataSize(w)
           file == WriteWav(w)
           body == [tag |-> "pcm", sub |-> "none", guid |-> TRUE,
                    extension |-> 0, channels |-> w.channels,
                    rate |-> w.rate, align |-> b, bits |-> w.bits, valid |-> 0]
           fmt == [id |-> "fmt", size |-> 16, body |-> body]
           data == [id |-> "data", size |-> d]
           end == file.riff + 8
<1>1. /\ w.bits \in BitDepths /\ w.frames \in Nat
      /\ w.channels \in Nat \ {0} /\ w.rate \in Nat \ {0}
      /\ b = w.channels * (w.bits \div 8) /\ b <= MaxAlign
  BY DEF ValidateCapacity, Requested, BlockAlign
<1>2. b \in Nat \ {0}
  <2>1. w.bits \div 8 \in {2, 3, 4}
    BY <1>1 DEF BitDepths
  <2> HIDE DEF b
  <2> QED BY <2>1, <1>1
<1>3. d = w.frames * b /\ d \in Nat
  <2>1. d = w.frames * b
    BY DEF DataSize
  <2> HIDE DEF b, d
  <2> QED BY <1>1, <1>2, <2>1
<1>4. Wrapped(d) = d /\ RiffSize(w) + 8 = file.length
  BY AcceptedSizesFit
<1>5. /\ file.length = 44 + d + Padding(d) /\ file.riff = RiffSize(w)
      /\ file.chunks = <<fmt, data>>
  <2>1. file = [length |-> HeaderSize + d + Padding(Wrapped(d)),
                riff |-> RiffSize(w), chunks |-> <<fmt, [id |-> "data", size |-> Wrapped(d)]>>]
    BY DEF WriteWav
  <2> HIDE DEF file, d, fmt
  <2> QED BY <2>1, <1>4 DEF HeaderSize
<1>6. Padding(d) \in {0, 1} /\ Padding(16) = 0
  <2> HIDE DEF d
  <2> QED BY <1>3 DEF Padding
<1>7. body \in FormatBodies
  <2>1. w.bits \in Nat /\ w.channels \in Nat /\ w.rate \in Nat /\ b \in Nat
    BY <1>1, <1>2 DEF BitDepths
  <2> HIDE DEF b
  <2> QED BY <2>1 DEF FormatBodies
<1>8. file \in FileTypes
  <2>1. fmt \in FileChunks /\ data \in FileChunks
    <3> HIDE DEF body, d
    <3> QED BY <1>3, <1>7 DEF FileChunks, FormatChunks
  <2>2. file.riff \in Nat /\ file.length \in Nat
    <3> HIDE DEF file, d
    <3>1. RiffSize(w) \in Int
      BY SizesAssumption, <1>3, <1>4, <1>6 DEF RiffSize, Wrapped, d
    <3> QED BY <1>3, <1>4, <1>5, <1>6, <3>1
  <2>3. file = [length |-> file.length, riff |-> file.riff, chunks |-> file.chunks]
    BY DEF WriteWav
  <2>4. file.chunks \in Seq(FileChunks)
    <3> HIDE DEF file, fmt, data
    <3> QED BY <1>5, <2>1
  <2> HIDE DEF file
  <2> QED BY <2>2, <2>3, <2>4 DEF FileTypes
<1> HIDE DEF file, d, b
<1>9. end = 44 + d + Padding(d) /\ end = file.length
  BY <1>4, <1>5
<1>10. Len(file.chunks) = 2 /\ file.chunks[1] = fmt /\ file.chunks[2] = data
  BY <1>5
<1>11. Walked(file)[0] = [position |-> 12, failed |-> FALSE, format |-> <<>>, data |-> <<>>]
  <2>1. Walked(file)[0] = [position |-> 12, failed |-> end < 12 \/ end > file.length,
                           format |-> <<>>, data |-> <<>>]
    BY <1>8, WalkedChunks DEF BeforeChunks
  <2>2. (end < 12 \/ end > file.length) = FALSE
    BY <1>3, <1>6, <1>9
  <2> QED BY <2>1, <2>2
<1>12. Walked(file)[1] = [position |-> 36, failed |-> FALSE, format |-> <<fmt>>, data |-> <<>>]
  <2>1. Walked(file)[1] = AfterChunk(Walked(file)[0], fmt, end)
    BY <1>8, <1>10, WalkedChunks
  <2>2. fmt.size = 16 /\ fmt.id = "fmt"
    OBVIOUS
  <2> DEFINE before == Walked(file)[0]
  <2>3. /\ before.position = 12 /\ before.failed = FALSE /\ before.format = <<>>
        /\ before.data = <<>>
    BY <1>11
  <2>4. end \in Nat /\ ~(20 > end) /\ ~(16 > end - 20)
    BY <1>3, <1>6, <1>9
  <2>5. fmt.size + Padding(fmt.size) = 16
    BY <2>2, <1>6
  <2> HIDE DEF fmt, end, before
  <2>6. AfterChunk(before, fmt, end) =
          [position |-> before.position + 8 + (fmt.size + Padding(fmt.size)),
           failed |-> FALSE, format |-> <<fmt>>, data |-> <<>>]
    BY <2>2, <2>3, <2>4, <2>5, ChunkIsTaken
  <2>7. before.position + 8 + (fmt.size + Padding(fmt.size)) = 36
    BY <2>3, <2>5
  <2>8. Walked(file)[1] = AfterChunk(before, fmt, end)
    BY <2>1 DEF before
  <2> QED BY <2>6, <2>7, <2>8
<1>13. Walk(file) = [position |-> 44 + d + Padding(d), failed |-> FALSE, format |-> <<fmt>>,
                     data |-> <<[offset |-> 44, size |-> d]>>]
  <2>1. Walk(file) = AfterChunk(Walked(file)[1], data, end)
    <3>1. /\ Walk(file) = Walked(file)[2]
          /\ Walked(file)[2] = AfterChunk(Walked(file)[1], file.chunks[2], end)
      BY <1>8, <1>10, WalkedChunks
    <3> QED BY <3>1, <1>10
  <2>2. data.size = d /\ data.id = "data"
    OBVIOUS
  <2> DEFINE before == Walked(file)[1]
  <2>3. /\ before.position = 36 /\ before.failed = FALSE /\ before.format = <<fmt>>
        /\ before.data = <<>>
    <3> HIDE DEF fmt
    <3> QED BY <1>12
  <2>4. end \in Nat /\ ~(44 > end) /\ ~(d + Padding(d) > end - 44)
    BY <1>3, <1>6, <1>9
  <2> HIDE DEF fmt, end, data, before
  <2>5. AfterChunk(before, data, end) =
          [position |-> before.position + 8 + (d + Padding(d)), failed |-> FALSE,
           format |-> <<fmt>>, data |-> <<[offset |-> before.position + 8, size |-> d]>>]
    BY <2>2, <2>3, <2>4, ChunkIsTaken
  <2>6. before.position + 8 + (d + Padding(d)) = 44 + d + Padding(d)
    BY <2>3, <1>3, <1>6
  <2>7. Walk(file) = AfterChunk(before, data, end)
    BY <2>1 DEF before
  <2>8. before.position + 8 = 44
    BY <2>3
  <2> QED BY <2>5, <2>6, <2>7, <2>8
<1>14. FormatIsRead(body, 16)
  <2>1. /\ body.tag = "pcm" /\ body.channels = w.channels /\ body.rate = w.rate
        /\ body.align = b /\ body.bits = w.bits
    OBVIOUS
  <2>2. w.channels > 0 /\ w.rate > 0 /\ b > 0 /\ w.bits <= w.bits
    BY <1>1, <1>2 DEF BitDepths
  <2> HIDE DEF body
  <2> QED BY <2>1, <2>2, <1>1 DEF FormatIsRead, Encoding, ValidBits
<1>15. d % b = 0 /\ d \div b = w.frames
  BY <1>1, <1>2, <1>3
<1>16. ReadWav(file) = [frames |-> d \div b, channels |-> w.channels, bits |-> w.bits,
                        rate |-> w.rate, offset |-> 44, size |-> d]
  <2>1. /\ Walk(file).format = <<fmt>> /\ Walk(file).format[1] = fmt
        /\ Walk(file).data # <<>> /\ Walk(file).data[1].size = d
        /\ Walk(file).data[1].offset = 44 /\ ~Walk(file).failed
    <3> HIDE DEF fmt
    <3> QED BY <1>13
  <2>2. fmt.body = body /\ fmt.size = 16 /\ body.align = b /\ body.channels = w.channels
        /\ body.bits = w.bits /\ body.rate = w.rate
    OBVIOUS
  <2>3. ~(file.length < 12)
    BY <1>3, <1>6, <1>5
  <2> HIDE DEF fmt, body
  <2> QED BY <2>1, <2>2, <2>3, <1>14, <1>15 DEF ReadWav
<1> QED BY <1>4, <1>5, <1>15, <1>16 DEF file

------------------------------
(* The command line.                                                       *)

ArgumentLists == Seq([text : STRING, value : STRING])
Services == [events : Nat,
             outcome : {"passed", "failed", "capture_error", "runtime_error"}]

\* A command line is refused, or asks for help, or is a command; version and
\* license stand alone.
LEMMA ParsedCommand ==
  ASSUME NEW args \in ArgumentLists
  PROVE  LET command == C!ParseArguments(args).command
         IN /\ command \in {"rejected", "help", "version", "license"} \cup C!Commands
            /\ command \in {"version", "license"} =>
                 ~\E i \in DOMAIN args : args[i].text = "--json"
<1> DEFINE command == C!CommandName(args[1].text)
           parsed == C!ParseArguments(args)
<1>1. command \in {"help", "version", "license", "unknown"} \cup C!Commands
  BY DEF C!CommandName
<1>2. C!ParseOptions(command, args).command \in {"rejected", "help", command}
  BY DEF C!ParseOptions, C!Rejected
<1>3. command \in {"version", "license"} => args[1].text # "--json"
  BY DEF C!CommandName, C!Commands
<1>4. CASE args = <<>>
  <2>1. parsed.command = "devices"
    BY <1>4 DEF C!ParseArguments
  <2> QED BY <2>1 DEF C!Commands
<1>5. CASE args # <<>> /\ (args[1].value # C!NoValue \/ command = "unknown")
  <2>1. parsed.command = "rejected"
    BY <1>5 DEF C!ParseArguments, C!Rejected
  <2> QED BY <2>1
<1>6. CASE args # <<>> /\ ~(args[1].value # C!NoValue \/ command = "unknown")
  <2>1. CASE command = "help"
    <3>1. parsed.command \in {"rejected", "help"}
      BY <1>6, <2>1 DEF C!ParseArguments, C!Rejected
    <3> QED BY <3>1
  <2>2. CASE command \in {"version", "license"}
    <3>1. parsed = IF Len(args) > 1 THEN C!Rejected
                   ELSE [command |-> command, given |-> {}, topic |-> C!Empty]
      BY <1>6, <2>2 DEF C!ParseArguments
    <3>0. C!Rejected.command = "rejected"
      BY DEF C!Rejected
    <3> HIDE DEF parsed, command
    <3>2. CASE Len(args) > 1
      <4>1. parsed.command = "rejected"
        BY <3>0, <3>1, <3>2
      <4> QED BY <4>1 DEF parsed
    <3>3. CASE ~(Len(args) > 1)
      <4>1. parsed.command = command
        BY <3>1, <3>3
      <4>2. \A i \in DOMAIN args : i = 1
        BY <3>3 DEF ArgumentLists
      <4>3. \A i \in DOMAIN args : args[i].text # "--json"
        BY <1>3, <2>2, <4>2
      <4> QED BY <2>2, <4>1, <4>3 DEF parsed
    <3> QED BY <2>2, <3>2, <3>3
  <2>3. CASE command \notin {"help", "version", "license"}
    <3>1. parsed = C!ParseOptions(command, args)
      BY <1>6, <2>3 DEF C!ParseArguments
    <3>2. command \in C!Commands /\ command \notin {"help", "version", "license"}
      BY <1>1, <1>6, <2>3
    <3>3. parsed.command \in {"rejected", "help"} \cup C!Commands
      BY <1>2, <3>1, <3>2
    <3>4. parsed.command \notin {"version", "license"}
      BY <3>3 DEF C!Commands
    <3> QED BY <3>3, <3>4
  <2> QED BY <2>1, <2>2, <2>3
<1> QED BY <1>4, <1>5, <1>6

\* An option whose value is the next argument.
TakesNext(args, i, command) ==
  /\ args[i].value = C!NoValue
  /\ C!OptionOf(args[i], command) \in C!ValueOptions

\* Its value is there, and is not an option.
IsServed(args, i, command) ==
  TakesNext(args, i, command) =>
    i < Len(args) /\ ~C!StartsWith(args[i + 1].text, "--")

\* What an argument that stands for a value is not.
LEMMA ValueTakesNoValue ==
  ASSUME NEW args, NEW i, NEW command, ~C!LooksLikeOption(args[i])
  PROVE  /\ ~TakesNext(args, i, command)
         /\ ~C!StartsWith(args[i].text, "--")
<1>1. ~C!StartsWith(args[i].text, "--") /\ C!Word(args[i]) \notin {"-i", "-o"}
  BY DEF C!LooksLikeOption
<1>2. args[i].text \notin C!ValueOptions
  BY <1>1, OptionsAssumption
<1>3. args[i].value = C!NoValue => args[i].text \notin {"-i", "-o"}
  BY <1>1 DEF C!Word
<1>4. ASSUME TakesNext(args, i, command) PROVE FALSE
  <2>1. args[i].value = C!NoValue /\ C!OptionOf(args[i], command) \in C!ValueOptions
    BY <1>4 DEF TakesNext
  <2> QED BY <1>2, <1>3, <2>1 DEF C!OptionOf, C!ValueOptions, C!Flags
<1> QED BY <1>1, <1>4

\* Where the loop over the arguments may be after i of them.
Names == C!Flags \cup C!ValueOptions

States(command) ==
  [given : SUBSET Names, topic : {command, C!Empty}, skip : Nat, rejected : BOOLEAN]

IsParsing(s, args, i) ==
  ~s.rejected =>
    /\ s.topic # C!Empty => i = Len(args)
    /\ s.skip <= i + 1
    /\ s.skip = i + 1 => i < Len(args) /\ ~C!LooksLikeOption(args[i + 1])

\* One turn of the loop serves the option it meets, or refuses.
LEMMA AfterOneArgument ==
  ASSUME NEW args \in ArgumentLists, NEW command,
         NEW i \in 2..Len(args), NEW s \in States(command),
         NEW t, t = C!AfterArgument(s, args, i, command)
  PROVE  /\ t \in States(command)
         /\ IsParsing(s, args, i - 1) /\ ~t.rejected =>
              IsParsing(t, args, i) /\ ~s.rejected /\ IsServed(args, i, command)
<1> DEFINE option == C!OptionOf(args[i], command)
           taken == C!Accepts(args, i, option)
           empty == C!Value(args, i) = C!Empty
           next == IF args[i].value = C!NoValue THEN i + 1 ELSE 0
           own == "--driver"
           driver == /\ option = "unknown" /\ command = "channels"
                     /\ C!IsDriverId(args[i]) /\ "--driver" \notin s.given
           Give(name) == [s EXCEPT !.given = @ \cup {name}]
           Take(name) == [s EXCEPT !.given = @ \ {name}]
           kept == IF empty THEN Take(option) ELSE Give(option)
           helped == [s EXCEPT !.topic = command, !.rejected = i # Len(args)]
           done == s.rejected \/ s.topic # C!Empty \/ i = s.skip
<1>1. t = IF done THEN s
          ELSE CASE option = "--help" -> helped
                 [] option \in C!Flags -> Give(option)
                 [] option \in C!ValueOptions /\ taken -> [kept EXCEPT !.skip = next]
                 [] driver -> Give(own)
                 [] OTHER -> [s EXCEPT !.rejected = TRUE]
  BY DEF C!AfterArgument
<1>2. i \in Nat /\ Len(args) \in Nat /\ i <= Len(args) /\ i >= 2
  BY DEF ArgumentLists
<1>3. /\ option \in {"--help", "unknown"} \cup C!Flags => option \notin C!ValueOptions
      /\ option \in {"--help", "unknown"} => option \notin C!Flags
  <2> HIDE DEF option
  <2> QED BY DEF C!Flags, C!ValueOptions
<1>4. /\ next \in Nat /\ next <= i + 1
      /\ next = i + 1 => args[i].value = C!NoValue
  BY <1>2
<1>5. taken /\ args[i].value = C!NoValue =>
        i < Len(args) /\ ~C!LooksLikeOption(args[i + 1])
  BY DEF C!Accepts, C!HasValue
<1>6. ~C!LooksLikeOption(args[i + 1]) => ~C!StartsWith(args[i + 1].text, "--")
  BY DEF C!LooksLikeOption
<1>7. /\ taken => IsServed(args, i, command)
      /\ option \notin C!ValueOptions => IsServed(args, i, command)
  BY <1>5, <1>6 DEF IsServed, TakesNext
<1> HIDE DEF option, taken, next, empty
<1>8. /\ s.rejected \in BOOLEAN /\ s.skip \in Nat
      /\ s = [given |-> s.given, topic |-> s.topic, skip |-> s.skip,
              rejected |-> s.rejected]
  BY DEF States
<1>9. ASSUME NEW name \in Names
      PROVE  \A x \in {Give(name), Take(name)} :
               /\ x \in States(command) /\ x.rejected = s.rejected
               /\ x.topic = s.topic /\ x.skip = s.skip
  <2>1. s.given \cup {name} \in SUBSET Names /\ s.given \ {name} \in SUBSET Names
    BY DEF States
  <2>2. ASSUME NEW v \in SUBSET Names, NEW x, x = [s EXCEPT !.given = v]
        PROVE  /\ x \in States(command) /\ x.rejected = s.rejected
               /\ x.topic = s.topic /\ x.skip = s.skip
    BY <2>2 DEF States
  <2> QED BY <2>1, <2>2
<1>10. kept \in {Give(option), Take(option)}
  OBVIOUS
<1>0. own \in Names
  BY DEF Names, C!ValueOptions
<1> HIDE DEF Give, Take, kept, own
<1>11. CASE done
  <2>1. t = s
    BY <1>1, <1>11
  <2>2. ASSUME IsParsing(s, args, i - 1), ~s.rejected
        PROVE  IsParsing(s, args, i) /\ IsServed(args, i, command)
    <3>1. /\ s.topic # C!Empty => i - 1 = Len(args)
          /\ s.skip = (i - 1) + 1 => ~C!LooksLikeOption(args[(i - 1) + 1])
      BY <2>2 DEF IsParsing
    <3>2. i = s.skip /\ (i - 1) + 1 = i /\ s.topic = C!Empty
      BY <1>2, <1>11, <2>2, <3>1
    <3>3. ~TakesNext(args, i, command)
      BY <3>1, <3>2, ValueTakesNoValue
    <3> QED BY <1>2, <3>2, <3>3 DEF IsParsing, IsServed
  <2> QED BY <2>1, <2>2
<1>12. ASSUME ~done PROVE
         \/ t \in States(command) /\ t.rejected
         \/ /\ t \in States(command) /\ t.skip \in {s.skip, next}
            /\ t.topic # C!Empty => i = Len(args)
            /\ t.skip # s.skip => taken
            /\ IsServed(args, i, command)
  <2>1. ~s.rejected /\ s.topic = C!Empty
    BY <1>12
  <2>2. CASE option = "--help"
    <3>1. t = helped
      <4> HIDE DEF helped, done
      <4> QED BY <1>1, <1>3, <1>12, <2>2
    <3>2. t \in States(command) /\ t.skip = s.skip /\ t.rejected = (i # Len(args))
      BY <3>1 DEF States
    <3> QED BY <1>3, <1>7, <2>2, <3>2
  <2>3. CASE option \in C!Flags
    <3>1. t = Give(option)
      BY <1>1, <1>3, <1>12, <2>3
    <3> QED BY <1>3, <1>7, <1>9, <2>1, <2>3, <3>1 DEF Names
  <2>4. CASE option \in C!ValueOptions /\ taken
    <3>1. t = [kept EXCEPT !.skip = next]
      BY <1>1, <1>3, <1>12, <2>4
    <3>2. kept \in States(command) /\ kept.topic = s.topic
      BY <1>9, <1>10, <2>4 DEF Names
    <3>3. t \in States(command) /\ t.topic = s.topic /\ t.skip = next
      BY <1>4, <3>1, <3>2 DEF States
    <3> QED BY <1>7, <2>1, <2>4, <3>3
  <2>5. CASE /\ option \notin C!Flags \cup {"--help"}
             /\ ~(option \in C!ValueOptions /\ taken)
    <3>1. t = IF driver THEN Give(own) ELSE [s EXCEPT !.rejected = TRUE]
      BY <1>1, <1>12, <2>5
    <3>2. CASE driver
      <4>1. t = Give(own) /\ option \notin C!ValueOptions
        BY <1>3, <3>1, <3>2
      <4>2. t \in States(command) /\ t.topic = s.topic /\ t.skip = s.skip
        BY <1>0, <1>9, <4>1
      <4> QED BY <1>7, <2>1, <4>1, <4>2
    <3>3. CASE ~driver
      <4>1. t = [s EXCEPT !.rejected = TRUE]
        BY <3>1, <3>3
      <4> QED BY <4>1 DEF States
    <3> QED BY <3>2, <3>3
  <2> QED BY <2>2, <2>3, <2>4, <2>5
<1>13. ASSUME ~done, IsParsing(s, args, i - 1), ~t.rejected
       PROVE  IsParsing(t, args, i)
  <2>1. s.skip <= (i - 1) + 1 /\ s.skip # i
    BY <1>13 DEF IsParsing
  <2>2. t.skip \in {s.skip, next} /\ (t.topic # C!Empty => i = Len(args))
        /\ (t.skip # s.skip => taken)
    BY <1>12, <1>13
  <2> QED BY <1>2, <1>4, <1>5, <1>8, <2>1, <2>2 DEF IsParsing
<1> QED BY <1>8, <1>11, <1>12, <1>13

\* The states of the loop.
ParsingStates(args, command) ==
  CHOOSE state : state = [i \in 1..Len(args) |->
    IF i = 1 THEN C!BeforeArguments
    ELSE C!AfterArgument(state[i - 1], args, i, command)]

\* A command line that is not refused has a value for every option.
LEMMA OptionsAreServed ==
  ASSUME NEW args \in ArgumentLists, args # <<>>, NEW command,
         C!ParseOptions(command, args).command # "rejected"
  PROVE  \A i \in 2..Len(args) : IsServed(args, i, command)
<1> DEFINE n == Len(args)
           base == C!BeforeArguments
           Step == [p \in (1..n) \X States(command) |->
                      IF p[1] = 1 THEN base
                      ELSE C!AfterArgument(p[2], args, p[1], command)]
           After(g, i) == IF i = 1 THEN base
                          ELSE C!AfterArgument(g[i - 1], args, i, command)
           Is(g) == g = [i \in 1..n |-> After(g, i)]
           state == ParsingStates(args, command)
<1>1. n \in Nat /\ n > 0 /\ 1 \in 1..n
  BY DEF ArgumentLists
<1>2. state = CHOOSE g : Is(g)
  BY DEF ParsingStates
<1>3. ~state[n].rejected
  <2>1. C!Rejected.command = "rejected"
    BY DEF C!Rejected
  <2>2. C!ParseOptions(command, args) =
          IF state[n].rejected THEN C!Rejected
          ELSE IF state[n].topic # C!Empty
            THEN [command |-> "help", given |-> state[n].given, topic |-> state[n].topic]
          ELSE IF ~C!IsConsistent(command, state[n].given) THEN C!Rejected
          ELSE [command |-> command, given |-> state[n].given, topic |-> C!Empty]
    BY DEF C!ParseOptions, ParsingStates
  <2> HIDE DEF state, n
  <2> QED BY <2>1, <2>2
<1> HIDE DEF state
<1>4. base \in States(command) /\ ~base.rejected /\ base.topic = C!Empty /\ base.skip = 0
  BY DEF C!BeforeArguments, States
<1>5. ASSUME NEW i \in 2..n, NEW s \in States(command)
      PROVE  LET t == C!AfterArgument(s, args, i, command)
             IN /\ t \in States(command)
                /\ IsParsing(s, args, i - 1) /\ ~t.rejected =>
                     IsParsing(t, args, i) /\ ~s.rejected /\ IsServed(args, i, command)
  BY AfterOneArgument
<1> HIDE DEF n, base
<1>6. Step \in [(1..n) \X States(command) -> States(command)]
  <2>1. ASSUME NEW i \in 1..n, NEW s \in States(command), i # 1
        PROVE  C!AfterArgument(s, args, i, command) \in States(command)
    <3>1. i \in 2..n
      BY <1>1, <2>1
    <3> QED BY <1>5, <3>1
  <2> QED BY <1>4, <2>1
<1>7. PICK h : RunOver(h, n, States(command), base, Step)
  <2> HIDE DEF Step
  <2> QED BY <1>1, <1>4, <1>6, RunsOver
<1>8. ASSUME NEW i \in 1..n PROVE h[i] = After(h, i)
  <2> DEFINE before == IF i = 1 THEN base ELSE h[i - 1]
  <2>1. before \in States(command)
    BY <1>1, <1>4, <1>7 DEF RunOver
  <2>2. h[i] = Step[<<i, before>>]
    BY <1>7 DEF RunOver
  <2>3. i # 1 => before = h[i - 1]
    OBVIOUS
  <2> HIDE DEF before
  <2> QED BY <2>1, <2>2, <2>3
<1>9. Is(h)
  <2> HIDE DEF After
  <2> QED BY <1>7, <1>8 DEF RunOver
<1>10. Is(state)
  <2> HIDE DEF Is
  <2> QED BY <1>2, <1>9
<1>11. \A i \in 1..n : state[i] = After(state, i)
  <2> HIDE DEF After
  <2> QED BY <1>10
<1> HIDE DEF Step
<1> DEFINE Sound(i) == /\ state[i] \in States(command)
                       /\ ~state[i].rejected =>
                            /\ IsParsing(state[i], args, i)
                            /\ \A j \in 2..i : IsServed(args, j, command)
           T == {i \in 0..n : i > 0 => Sound(i)}
<1>12. 0 \in T
  BY <1>1
<1>13. ASSUME NEW i \in 1..n, i - 1 \in T PROVE i \in T
  <2>1. CASE i = 1
    <3>1. state[1] = base
      BY <1>1, <1>11
    <3>2. IsParsing(base, args, 1)
      BY <1>4 DEF IsParsing
    <3>3. Sound(1)
      BY <1>4, <3>1, <3>2
    <3> HIDE DEF Sound
    <3> QED BY <1>1, <2>1, <3>3
  <2>2. CASE i # 1
    <3>1. i \in 2..n /\ i - 1 \in 1..n /\ i \in 0..n /\ Sound(i - 1)
      <4> HIDE DEF Sound
      <4> QED BY <1>1, <1>13, <2>2
    <3>2. state[i] = C!AfterArgument(state[i - 1], args, i, command)
      BY <1>11, <2>2
    <3>3. state[i] \in States(command)
      BY <1>5, <3>1, <3>2
    <3>4. ASSUME ~state[i].rejected
          PROVE  IsParsing(state[i], args, i) /\ \A j \in 2..i : IsServed(args, j, command)
      <4>1. ~state[i - 1].rejected => IsParsing(state[i - 1], args, i - 1)
        BY <3>1
      <4>2. IsParsing(state[i - 1], args, i - 1)
        BY <4>1 DEF IsParsing
      <4>3. /\ IsParsing(state[i], args, i) /\ ~state[i - 1].rejected
            /\ IsServed(args, i, command)
        BY <1>5, <3>1, <3>2, <3>4, <4>2
      <4>4. 2..i = (2..(i - 1)) \cup {i}
        BY <3>1
      <4> QED BY <3>1, <4>3, <4>4
    <3>5. Sound(i)
      BY <3>3, <3>4
    <3> HIDE DEF Sound
    <3> QED BY <3>1, <3>5
  <2> QED BY <2>1, <2>2
<1>14. n \in T
  <2> HIDE DEF T
  <2>1. 0..n \subseteq T
    BY <1>1, <1>12, <1>13, SetInduction
  <2> QED BY <1>1, <2>1
<1>15. Sound(n)
  <2> HIDE DEF Sound
  <2> QED BY <1>1, <1>14
<1> QED BY <1>3, <1>15 DEF n

\* An executed command line has a value, and no option, where one is due.
LEMMA ExecutedIsServed ==
  ASSUME NEW args \in ArgumentLists, NEW service \in Services,
         C!RunCli(args, service).code # 2
  PROVE  \A i \in 2..Len(args) : IsServed(args, i, C!CommandName(args[1].text))
<1> DEFINE command == C!CommandName(args[1].text)
           parsed == C!ParseArguments(args)
<1>1. SUFFICES ASSUME NEW i \in 2..Len(args) PROVE IsServed(args, i, command)
  OBVIOUS
<1>2. /\ parsed.command # "rejected"
      /\ parsed.command = "help" => parsed.topic \in C!HelpTopics
  <2>1. \A json : C!Fail(json, <<>>, 2).code = 2
    BY DEF C!Fail, C!Exit
  <2> HIDE DEF parsed
  <2> QED BY <2>1 DEF C!RunCli, parsed
<1>3. Len(args) \in Nat /\ i \in Nat /\ 2 <= i /\ i <= Len(args)
  BY DEF ArgumentLists
<1>4. command \in {"help", "version", "license", "unknown"} \cup C!Commands
  BY DEF C!CommandName
<1>5. C!Rejected.command = "rejected" /\ args # <<>>
  BY <1>3 DEF C!Rejected
<1>6. ~(args[1].value # C!NoValue \/ command = "unknown")
  BY <1>2, <1>5 DEF C!ParseArguments
<1>7. CASE command = "help"
  <2>1. Len(args) > 2 => parsed = C!Rejected
    BY <1>5, <1>6, <1>7 DEF C!ParseArguments
  <2>2. Len(args) = 2 /\ i = 2
    <3>1. ~(Len(args) > 2)
      BY <1>2, <1>5, <2>1
    <3>2. \A n, j \in Nat : 2 <= j /\ j <= n /\ ~(n > 2) => n = 2 /\ j = 2
      OBVIOUS
    <3> QED BY <1>3, <3>1, <3>2
  <2>3. parsed.command = "help" /\ parsed.topic = C!Word(args[2])
    BY <1>5, <1>6, <1>7, <2>2 DEF C!ParseArguments
  <2>4. C!Word(args[2]) \in C!HelpTopics
    <3> HIDE DEF parsed
    <3> QED BY <1>2, <2>3
  <2>5. ~TakesNext(args, 2, command)
    <3>0. C!Empty \notin C!ValueOptions \cup {"-i", "-o"}
      BY Zenon DEF C!Empty, C!ValueOptions
    <3>1. C!Word(args[2]) \notin C!ValueOptions \cup {"-i", "-o"}
      BY <2>4, <3>0 DEF C!HelpTopics, C!Commands, C!ValueOptions
    <3> QED BY <3>1 DEF TakesNext, C!Word, C!OptionOf, C!ValueOptions, C!Flags
  <2> QED BY <2>2, <2>5 DEF IsServed
<1>8. CASE command \in {"version", "license"}
  <2>1. Len(args) > 1 => parsed = C!Rejected
    BY <1>5, <1>6, <1>8 DEF C!ParseArguments
  <2> HIDE DEF parsed
  <2> QED BY <1>2, <1>3, <1>5, <2>1
<1>9. CASE command \notin {"help", "version", "license"}
  <2>1. parsed = C!ParseOptions(command, args)
    BY <1>3, <1>6, <1>9 DEF C!ParseArguments
  <2> HIDE DEF command, parsed
  <2> QED BY <1>2, <1>5, <2>1, OptionsAreServed
<1> QED BY <1>7, <1>8, <1>9

\* What a line of events, or of text, and one more line look like.
LEMMA ClosingLine ==
  ASSUME NEW word, NEW lines \in Seq({word}), NEW last
  PROVE  LET out == Append(lines, last)
         IN /\ out # <<>> /\ out[Len(out)] = last
            /\ \A i \in 1..(Len(out) - 1) : out[i] = word
            /\ lines \o <<last>> = out
            /\ Len(out) \in Nat
<1>1. /\ Len(Append(lines, last)) = Len(lines) + 1
      /\ Append(lines, last)[Len(lines) + 1] = last
      /\ \A i \in 1..Len(lines) : Append(lines, last)[i] = lines[i]
  OBVIOUS
<1>2. \A i \in 1..Len(lines) : lines[i] = word
  OBVIOUS
<1> QED BY <1>1, <1>2

\* The protocol of a worker on stdout, for every command line and service.
LEMMA CliIsStructured ==
  ASSUME NEW args \in ArgumentLists, NEW service \in Services
  PROVE  LET json == \E i \in DOMAIN args :
                       /\ args[i].text = "--json"
                       /\ args[i].value = C!NoValue
             answered == C!RunCli(args, service)
             out == answered.out
             closing == out[Len(out)]
         IN IF json
              THEN /\ ~answered.err
                   /\ out # <<>>
                   /\ closing \notin {"event", "text"}
                   /\ \A i \in 1..(Len(out) - 1) : out[i] = "event"
                   /\ answered.code = 0 => closing # "error"
                   /\ answered.code = 1 => closing \in {"error", "test_result"}
                   /\ answered.code = 2 => out = <<"error">>
              ELSE /\ \A i \in DOMAIN out : out[i] = "text"
                   /\ answered.err <=>
                        \/ answered.code = 2
                        \/ answered.code = 1 /\ service.outcome # "failed"
<1> DEFINE json == \E i \in DOMAIN args :
                     /\ args[i].text = "--json"
                     /\ args[i].value = C!NoValue
           parsed == C!ParseArguments(args)
           command == parsed.command
           answered == C!RunCli(args, service)
           Structured(a) ==
             IF json
               THEN /\ ~a.err
                    /\ a.out # <<>>
                    /\ a.out[Len(a.out)] \notin {"event", "text"}
                    /\ \A i \in 1..(Len(a.out) - 1) : a.out[i] = "event"
                    /\ a.code = 0 => a.out[Len(a.out)] # "error"
                    /\ a.code = 1 => a.out[Len(a.out)] \in {"error", "test_result"}
                    /\ a.code = 2 => a.out = <<"error">>
               ELSE /\ \A i \in DOMAIN a.out : a.out[i] = "text"
                    /\ a.err <=> \/ a.code = 2
                                 \/ a.code = 1 /\ service.outcome # "failed"
<1>1. /\ command \in {"rejected", "help", "version", "license"} \cup C!Commands
      /\ command \in {"version", "license"} => ~json
  BY ParsedCommand
<1>2. Structured(C!Fail(json, <<>>, 2))
  <2>1. CASE json
    <3>1. C!Fail(json, <<>>, 2) = [out |-> <<"error">>, err |-> FALSE, code |-> 2]
      BY <2>1 DEF C!Fail, C!Exit
    <3>2. Len(<<"error">>) = 1 /\ <<"error">>[1] = "error" /\ <<"error">> # <<>>
      OBVIOUS
    <3> HIDE DEF json
    <3> DEFINE one == <<"error">>
    <3>3. one # <<>> /\ one[Len(one)] = "error" /\ 1..(Len(one) - 1) = {}
      BY <3>2
    <3> HIDE DEF one
    <3>4. C!Fail(json, <<>>, 2) = [out |-> one, err |-> FALSE, code |-> 2]
      BY <3>1 DEF one
    <3>5. LET a == [out |-> one, err |-> FALSE, code |-> 2]
          IN /\ ~a.err /\ a.out # <<>> /\ a.out[Len(a.out)] = "error"
             /\ 1..(Len(a.out) - 1) = {} /\ a.code = 2 /\ a.out = one
      BY <3>3
    <3> DEFINE a == C!Fail(json, <<>>, 2)
    <3>6. /\ ~a.err /\ a.out # <<>> /\ a.out[Len(a.out)] = "error"
          /\ 1..(Len(a.out) - 1) = {} /\ a.code = 2 /\ a.out = <<"error">>
      BY <3>4, <3>5 DEF one
    <3> HIDE DEF a
    <3>7. Structured(a)
      BY <2>1, <3>6
    <3> QED BY <3>7 DEF a
  <2>2. CASE ~json
    <3>1. C!Fail(json, <<>>, 2) = [out |-> <<>>, err |-> TRUE, code |-> 2]
      BY <2>2 DEF C!Fail, C!Exit
    <3> HIDE DEF json
    <3> QED BY <2>2, <3>1
  <2> QED BY <2>1, <2>2
<1>3. ~json => Structured(C!Exit(<<"text">>, FALSE, 0))
  <2> HIDE DEF json
  <2> QED BY DEF C!Exit
<1>4. command \in C!Commands => Structured(C!Execute(parsed, json, service))
  <2> SUFFICES ASSUME command \in C!Commands
               PROVE  Structured(C!Execute(parsed, json, service))
    OBVIOUS
  <2> DEFINE events == [i \in 1..service.events |-> "event"]
             Reported(lines) == IF json THEN lines ELSE C!Text(lines)
             result == CASE command = "test" -> "test_result"
                         [] command = "run" -> "capture_result"
                         [] OTHER -> command
             before == CASE command = "run" -> Reported(events)
                         [] command = "test" ->
                              IF json THEN events ELSE <<"text">> \o C!Text(events)
                         [] command = "channels" /\ ~json -> <<"text">>
                         [] OTHER -> <<>>
             code == IF command = "test" /\ service.outcome = "failed" THEN 1 ELSE 0
             word == IF json THEN "event" ELSE "text"
  <2>1. C!Execute(parsed, json, service) =
          IF service.outcome \in {"capture_error", "runtime_error"}
            THEN C!Fail(json, before, 1)
            ELSE C!Exit(before \o Reported(<<result>>), FALSE, code)
    BY DEF C!Execute
  <2>2. service.events \in Nat /\ command \in {"devices", "channels", "test", "run"}
    BY DEF Services, C!Commands
  <2>3. /\ events \in Seq({"event"}) /\ C!Text(events) \in Seq({"text"})
        /\ <<"text">> \o C!Text(events) \in Seq({"text"})
        /\ <<>> \in Seq({"event"}) /\ <<>> \in Seq({"text"}) /\ <<"text">> \in Seq({"text"})
    <3>1. events \in Seq({"event"}) /\ DOMAIN events = 1..service.events
      BY <2>2
    <3>2. C!Text(events) = [i \in 1..service.events |-> "text"]
      BY <3>1 DEF C!Text
    <3>3. C!Text(events) \in Seq({"text"})
      BY <2>2, <3>2
    <3>4. <<"text">> \in Seq({"text"})
      OBVIOUS
    <3> QED BY <3>1, <3>3, <3>4
  <2>4. before \in Seq({word})
    <3> HIDE DEF events, json
    <3>1. CASE json
      BY <2>2, <2>3, <3>1
    <3>2. CASE ~json
      BY <2>2, <2>3, <3>2
    <3> QED BY <3>1, <3>2
  <2>5. /\ result \in {"test_result", "capture_result", "devices", "channels"}
        /\ command = "test" => result = "test_result"
    BY <2>2
  <2>6. Reported(<<result>>) = <<IF json THEN result ELSE "text">>
    <3> HIDE DEF json, result
    <3> QED BY DEF C!Text
  <2> HIDE DEF before, result, json, events, parsed
  <2>7. CASE service.outcome \in {"capture_error", "runtime_error"}
    <3>1. CASE json
      <4>1. C!Execute(parsed, json, service)
              = [out |-> Append(before, "error"), err |-> FALSE, code |-> 1]
        BY <2>1, <2>7, <3>1 DEF C!Fail, C!Exit
      <4> QED BY <4>1, <2>4, <3>1, ClosingLine
    <3>2. CASE ~json
      <4>1. C!Execute(parsed, json, service) = [out |-> before, err |-> TRUE, code |-> 1]
        BY <2>1, <2>7, <3>2 DEF C!Fail, C!Exit
      <4>2. \A i \in DOMAIN before : before[i] = "text"
        BY <2>4, <3>2
      <4> QED BY <4>1, <4>2, <2>7, <3>2
    <3> QED BY <3>1, <3>2
  <2>8. CASE service.outcome \notin {"capture_error", "runtime_error"}
    <3>1. C!Execute(parsed, json, service)
            = [out |-> before \o <<IF json THEN result ELSE "text">>, err |-> FALSE,
               code |-> code]
      BY <2>1, <2>6, <2>8 DEF C!Exit
    <3>2. CASE json
      <4>1. C!Execute(parsed, json, service)
              = [out |-> Append(before, result), err |-> FALSE, code |-> code]
        <5>1. before \in Seq({"event"})
          BY <2>4, <3>2
        <5>2. before \o <<result>> = Append(before, result)
          BY <5>1
        <5> QED BY <3>1, <3>2, <5>2
      <4> QED BY <4>1, <2>4, <2>5, <3>2, ClosingLine
    <3>3. CASE ~json
      <4>1. C!Execute(parsed, json, service)
              = [out |-> Append(before, "text"), err |-> FALSE, code |-> code]
        <5>1. before \in Seq({"text"})
          BY <2>4, <3>3
        <5>2. before \o <<"text">> = Append(before, "text")
          BY <5>1
        <5> QED BY <3>1, <3>3, <5>2
      <4>2. \A i \in DOMAIN Append(before, "text") : Append(before, "text")[i] = "text"
        BY <2>4, <3>3
      <4> QED BY <4>1, <4>2, <3>3
    <3> QED BY <3>2, <3>3
  <2> QED BY <2>7, <2>8
<1>5. answered = IF command = "rejected" THEN C!Fail(json, <<>>, 2)
                 ELSE IF command = "help"
                   THEN IF json \/ parsed.topic \notin C!HelpTopics
                          THEN C!Fail(json, <<>>, 2)
                          ELSE C!Exit(<<"text">>, FALSE, 0)
                 ELSE IF command \in {"version", "license"}
                   THEN C!Exit(<<"text">>, FALSE, 0)
                 ELSE C!Execute(parsed, json, service)
  BY DEF C!RunCli
<1>6. Structured(answered)
  <2> HIDE DEF answered, json, parsed, Structured
  <2> QED BY <1>1, <1>2, <1>3, <1>4, <1>5
<1> QED BY <1>6

------------------------------
(* The sweep check.                                                        *)

Places == [frame : Nat, score : 0..100]

Matches == [score : 0..100, error : Int, strongest : Int, reliability : V!Reliabilities]

\* Where a search for the best place ends: at a place, or nowhere with score 0.
LEMMA BestPlaceType ==
  ASSUME NEW channel \in SUBSET Places, NEW lower \in Int, NEW upper \in Int, NEW step \in Int
  PROVE  V!BestPlace(channel, lower, upper, step) \in [frame : Int, score : 0..100]
<1> DEFINE seen == {p \in channel : /\ lower <= p.frame /\ p.frame < upper
                                    /\ (p.frame - lower) % step = 0 /\ p.score > 0}
           best == {p \in seen : \A q \in seen : q.score <= p.score}
           place == CHOOSE p \in best : \A q \in best : p.frame <= q.frame
<1>1. V!BestPlace(channel, lower, upper, step)
        = IF seen = {} THEN [frame |-> lower, score |-> 0] ELSE place
  BY DEF V!BestPlace
<1>2. CASE seen = {}
  <2> HIDE DEF seen
  <2> QED BY <1>1, <1>2
<1>3. CASE seen # {}
  <2>1. seen \subseteq Places
    OBVIOUS
  <2> HIDE DEF seen
  <2>2. best # {}
    <3> DEFINE Misses == {100 - p.score : p \in seen}
    <3>1. Misses \in SUBSET Nat /\ Misses # {}
      BY <1>3, <2>1 DEF Places
    <3>2. PICK n \in Misses : \A m \in Misses : n <= m
      BY <3>1, LeastElement
    <3>3. PICK p \in seen : n = 100 - p.score
      OBVIOUS
    <3>4. ASSUME NEW q \in seen PROVE q.score <= p.score
      <4>1. 100 - q.score \in Misses /\ q.score \in Int /\ p.score \in Int
        BY <2>1 DEF Places
      <4> HIDE DEF Misses
      <4> QED BY <3>2, <3>3, <4>1
    <3> QED BY <3>3, <3>4
  <2>3. best \subseteq Places
    BY <2>1
  <2> HIDE DEF best
  <2>4. \E p \in best : \A q \in best : p.frame <= q.frame
    <3> DEFINE Onsets == {p.frame : p \in best}
    <3>1. Onsets \in SUBSET Nat /\ Onsets # {}
      BY <2>2, <2>3 DEF Places
    <3>2. PICK n \in Onsets : \A m \in Onsets : n <= m
      BY <3>1, LeastElement
    <3> QED BY <3>2
  <2>5. place \in best
    BY <2>4
  <2>6. place \in Places
    BY <2>3, <2>5
  <2> HIDE DEF place
  <2> QED BY <1>1, <1>3, <2>6 DEF Places
<1> QED BY <1>2, <1>3

\* The signal is longer than nothing and its lengths are numbers.
LEMMA SignalTypes ==
  ASSUME NEW rate \in Nat
  PROVE  LET s == V!VerificationSignal(rate)
         IN /\ s.rate = rate
            /\ s.expected \in Nat /\ s.sweepFrames \in Nat \ {0} /\ s.total \in Nat
            /\ s.total > s.sweepFrames
            /\ V!TimingTolerance(s.rate) \in Nat
<1> DEFINE F(m) == V!Frames(rate, m)
<1>1. F(10) \in Int /\ F(100) \in Int /\ F(300) \in Int /\ F(500) \in Int
  BY DEF V!Frames
<1> HIDE DEF F
<1>2. V!VerificationSignal(rate) =
        [rate |-> rate, expected |-> V!AtLeastOf(1, F(100)),
         sweepFrames |-> V!AtLeastOf(1, F(300)),
         total |-> V!AtLeastOf(1, F(100)) + V!AtLeastOf(1, F(300)) + V!AtLeastOf(1, F(500))]
  BY DEF V!VerificationSignal, F
<1>3. V!TimingTolerance(rate) = V!AtLeastOf(8, F(10))
  BY DEF V!TimingTolerance, F
<1> QED BY <1>1, <1>2, <1>3 DEF V!AtLeastOf

\* A channel is not heard, or it has a match.
LEMMA MatchTypes ==
  ASSUME NEW rate \in Nat, NEW channel \in SUBSET Places, NEW frames \in Nat
  PROVE  LET match == V!MatchChannel(channel, frames, V!VerificationSignal(rate))
         IN match = V!NoMatch \/ match \in Matches
<1> DEFINE signal == V!VerificationSignal(rate)
           end == frames - signal.sweepFrames + 1
           radius == V!AtLeastOf(64, V!Frames(signal.rate, 50))
           lower == V!AtLeastOf(0, signal.expected - radius)
           upper == V!AtMostOf(end, signal.expected + radius + 1)
           direct == V!BestPlace(channel, lower, upper, 1)
           step == V!AtLeastOf(1, V!AtMostOf(32, signal.sweepFrames \div 600))
           coarse == V!BestPlace(channel, 0, end, step)
           refined == V!BestPlace(channel, V!AtLeastOf(0, coarse.frame - step),
                                  V!AtMostOf(end, coarse.frame + step + 1), 1)
           strongest == IF refined.score > direct.score THEN refined ELSE direct
           Result(s, reliability) ==
             [score |-> direct.score, error |-> direct.frame - signal.expected,
              strongest |-> s, reliability |-> reliability]
           match == V!MatchChannel(channel, frames, signal)
<1>1. /\ signal.rate \in Nat /\ signal.expected \in Nat /\ signal.sweepFrames \in Nat
      /\ signal.rate = rate
  BY SignalTypes
<1>2. \/ match = V!NoMatch
      \/ match = Result(0, "unmeasurable")
      \/ match = Result(strongest.score, "ambiguous")
      \/ match = Result(strongest.score, "reliable")
  <2>1. match = IF frames < signal.sweepFrames \/ upper <= lower THEN V!NoMatch
                ELSE IF direct.score < V!MinimumDirectScore THEN Result(0, "unmeasurable")
                ELSE IF /\ V!Magnitude(strongest.frame - direct.frame)
                             > V!AtLeastOf(8, V!Frames(signal.rate, 10))
                        /\ strongest.score >= direct.score
                  THEN Result(strongest.score, "ambiguous")
                ELSE Result(strongest.score, "reliable")
    BY DEF V!MatchChannel
  <2> HIDE DEF match, signal, upper, lower, direct, strongest, Result
  <2> QED BY <2>1
<1> HIDE DEF signal, match
<1>3. end \in Int /\ radius \in Int
  BY <1>1 DEF V!AtLeastOf, V!Frames
<1> HIDE DEF end, radius
<1>4. lower \in Int /\ upper \in Int
  BY <1>1, <1>3 DEF V!AtLeastOf, V!AtMostOf
<1>5. step \in Int
  <2>1. signal.sweepFrames \div 600 \in Int
    BY <1>1
  <2> QED BY <2>1 DEF V!AtLeastOf, V!AtMostOf
<1> HIDE DEF lower, upper, step
<1>6. direct \in [frame : Int, score : 0..100] /\ coarse \in [frame : Int, score : 0..100]
  BY <1>3, <1>4, <1>5, BestPlaceType
<1> HIDE DEF direct, coarse
<1>7. refined \in [frame : Int, score : 0..100]
  <2>1. /\ V!AtLeastOf(0, coarse.frame - step) \in Int
        /\ V!AtMostOf(end, coarse.frame + step + 1) \in Int
    BY <1>3, <1>5, <1>6 DEF V!AtLeastOf, V!AtMostOf
  <2> QED BY <2>1, BestPlaceType
<1> HIDE DEF refined
<1>8. strongest.score \in Int
  BY <1>6, <1>7
<1> HIDE DEF strongest
<1>9. \A s \in Int, r \in V!Reliabilities : Result(s, r) \in Matches
  BY <1>1, <1>6 DEF Matches
<1>10. {"reliable", "ambiguous", "unmeasurable"} = V!Reliabilities
  BY DEF V!Reliabilities
<1>11. Result(0, "unmeasurable") \in Matches
  BY <1>9, <1>10
<1>12. Result(strongest.score, "ambiguous") \in Matches
       /\ Result(strongest.score, "reliable") \in Matches
  BY <1>8, <1>9, <1>10
<1> HIDE DEF Result
<1>13. match = V!NoMatch \/ match \in Matches
  BY <1>2, <1>11, <1>12
<1> QED BY <1>13 DEF match, signal

\* What is known of the best of some channels.  One that is only ambiguous is
\* the strongest of those in time: it takes a reliable one to win although it
\* is weaker, and such a one is at most the minimum score weaker.
IsBestOf(best, heard, tolerance) ==
  LET InTime == {m \in heard : V!HasAcceptableTiming(m, tolerance)}
  IN /\ best = V!NoMatch => heard = {}
     /\ best # V!NoMatch => best \in heard
     /\ InTime # {} => best \in InTime
     /\ \A m \in InTime :
          m.score <= best.score + (IF best.reliability = "reliable" THEN 5 ELSE 0)

\* A channel in time is reliable or ambiguous.
LEMMA TimelyIsSure ==
  ASSUME NEW m \in Matches, NEW tolerance, V!HasAcceptableTiming(m, tolerance)
  PROVE  m.reliability \in {"reliable", "ambiguous"}
BY DEF V!HasAcceptableTiming, V!Reliabilities, Matches

\* One more channel leaves the best of them.
LEMMA BestOfOneMore ==
  ASSUME NEW heard \in SUBSET Matches, NEW before, NEW match \in Matches,
         NEW tolerance \in Nat, IsBestOf(before, heard, tolerance)
  PROVE  IsBestOf(IF before = V!NoMatch \/ V!IsBetterMatch(match, before, tolerance)
                    THEN match ELSE before,
                  heard \cup {match}, tolerance)
<1> DEFINE Timely(m) == V!HasAcceptableTiming(m, tolerance)
           Bound(m) == m.score + (IF m.reliability = "reliable" THEN 5 ELSE 0)
<1>0. match # V!NoMatch
  <2>1. match.reliability \in V!Reliabilities /\ V!NoMatch.reliability = "none"
    BY DEF Matches, V!NoMatch
  <2> QED BY <2>1 DEF V!Reliabilities
<1>1. CASE before = V!NoMatch
  <2>1. heard = {}
    BY <1>1 DEF IsBestOf
  <2>2. match.score \in Int
    BY DEF Matches
  <2> QED BY <1>0, <1>1, <2>1, <2>2 DEF IsBestOf
<1>2. CASE before # V!NoMatch
  <2>1. /\ before \in heard /\ before \in Matches
        /\ (\E m \in heard : Timely(m)) => Timely(before)
        /\ \A m \in heard : Timely(m) => m.score <= Bound(before)
    BY <1>2 DEF IsBestOf
  <2>2. \A m \in Matches : m.score \in Int /\ Bound(m) \in Int
    BY DEF Matches
  <2>3. /\ Timely(match) /\ ~Timely(before) => V!IsBetterMatch(match, before, tolerance)
        /\ ~Timely(match) /\ Timely(before) => ~V!IsBetterMatch(match, before, tolerance)
    BY DEF V!IsBetterMatch
  <2>4. ASSUME Timely(match), Timely(before), V!IsBetterMatch(match, before, tolerance)
        PROVE  Bound(before) <= Bound(match)
    <3>1. /\ match.reliability \in {"reliable", "ambiguous"}
          /\ before.reliability \in {"reliable", "ambiguous"}
      BY <2>1, <2>4, TimelyIsSure
    <3>2. match.score \in Int /\ before.score \in Int
      BY <2>1, <2>2
    <3>3. \/ match.score > before.score + 5
          \/ match.reliability = "reliable" /\ before.reliability = "ambiguous"
             /\ before.score <= match.score + 5
          \/ match.reliability = before.reliability /\ before.score <= match.score
      <4> HIDE DEF Timely
      <4> QED BY <2>4, <3>1, <3>2
          DEF V!IsBetterMatch, V!Magnitude, V!MinimumDirectScore, V!Rank, Timely
    <3> QED BY <3>1, <3>2, <3>3
  <2>5. ASSUME Timely(match), Timely(before), ~V!IsBetterMatch(match, before, tolerance)
        PROVE  match.score <= Bound(before)
    <3>1. /\ match.reliability \in {"reliable", "ambiguous"}
          /\ before.reliability \in {"reliable", "ambiguous"}
      BY <2>1, <2>5, TimelyIsSure
    <3>2. match.score \in Int /\ before.score \in Int
      BY <2>1, <2>2
    <3>3. \/ before.score > match.score + 5
          \/ before.reliability = "reliable" /\ match.score <= before.score + 5
          \/ match.score <= before.score
      <4> HIDE DEF Timely
      <4> QED BY <2>5, <3>1, <3>2
          DEF V!IsBetterMatch, V!Magnitude, V!MinimumDirectScore, V!Rank, Timely
    <3> QED BY <3>1, <3>2, <3>3
  <2> HIDE DEF Timely
  <2>6. CASE V!IsBetterMatch(match, before, tolerance)
    <3>1. \A m \in heard \cup {match} : Timely(m) => m.score <= Bound(match)
      <4>1. ASSUME NEW m \in heard, Timely(m) PROVE m.score <= Bound(match)
        <5>1. Timely(before) /\ m.score <= Bound(before)
          BY <2>1, <4>1
        <5>2. Timely(match)
          BY <2>3, <2>6, <5>1
        <5>3. Bound(before) <= Bound(match)
          BY <2>4, <2>6, <5>1, <5>2
        <5> HIDE DEF Bound
        <5> QED BY <2>1, <2>2, <5>1, <5>3
      <4>2. match.score <= Bound(match)
        BY <2>2
      <4> QED BY <4>1, <4>2
    <3>2. (\E m \in heard \cup {match} : Timely(m)) => Timely(match)
      BY <2>1, <2>3, <2>6
    <3> QED BY <1>0, <1>2, <2>6, <3>1, <3>2 DEF IsBestOf, Timely
  <2>7. CASE ~V!IsBetterMatch(match, before, tolerance)
    <3>1. (\E m \in heard \cup {match} : Timely(m)) => Timely(before)
      BY <2>1, <2>3, <2>7
    <3>2. \A m \in heard \cup {match} : Timely(m) => m.score <= Bound(before)
      BY <2>1, <2>5, <2>7, <3>1
    <3> QED BY <1>2, <2>1, <2>7, <3>1, <3>2 DEF IsBestOf, Timely
  <2> QED BY <2>6, <2>7
<1> QED BY <1>1, <1>2

\* The match of a recorded channel.
MatchOf(check, c) ==
  V!MatchChannel(check.channels[c], V!VerificationSignal(Rate).total,
                 V!VerificationSignal(Rate))

\* The best matches of the loop, by number of channels.
BestMatches(check) ==
  CHOOSE best : best = [i \in 0..Len(check.channels) |->
    IF i = 0 THEN V!NoMatch
    ELSE LET match == V!MatchChannel(check.channels[i], V!VerificationSignal(Rate).total,
                                     V!VerificationSignal(Rate))
             before == best[i - 1]
         IN IF match # V!NoMatch
                /\ \/ before = V!NoMatch
                   \/ V!IsBetterMatch(match, before,
                        V!TimingTolerance(V!VerificationSignal(Rate).rate))
              THEN match ELSE before]

CheckTypes == [channels : Seq(SUBSET Places), inputPeak : Int, peak : Nat, event : Nat,
               leadPeak : Nat, leadRms : Nat]

Tolerance == V!TimingTolerance(V!VerificationSignal(Rate).rate)

\* The matches of the first i channels.
HeardMatches(check, i) == {MatchOf(check, c) : c \in 1..i} \ {V!NoMatch}

\* The loop ends with the best match of all channels.
LEMMA SweepIsBest ==
  ASSUME NEW check \in CheckTypes
  PROVE  IsBestOf(V!MatchSweep(check.channels, V!VerificationSignal(Rate).total,
                               V!VerificationSignal(Rate)),
                  HeardMatches(check, Len(check.channels)), Tolerance)
<1> DEFINE n == Len(check.channels)
           D == Matches \cup {V!NoMatch}
           Next1(i, before) ==
             IF MatchOf(check, i) # V!NoMatch
                /\ (\/ before = V!NoMatch
                    \/ V!IsBetterMatch(MatchOf(check, i), before, Tolerance))
               THEN MatchOf(check, i) ELSE before
           Step == [p \in (1..n) \X D |-> Next1(p[1], p[2])]
           Is(g) == g = [i \in 0..n |-> IF i = 0 THEN V!NoMatch ELSE Next1(i, g[i - 1])]
           best == BestMatches(check)
<1>1. n \in Nat /\ \A i \in 1..n : check.channels[i] \in SUBSET Places
  BY DEF CheckTypes
<1> HIDE DEF n
<1>2. \A i \in 1..n : MatchOf(check, i) \in D
  <2>1. V!VerificationSignal(Rate).total \in Nat /\ Rate \in Nat
    BY SignalTypes, InputsAssumption
  <2> QED BY <1>1, <2>1, MatchTypes DEF MatchOf
<1>3. V!NoMatch \in D
  OBVIOUS
<1>4. Step \in [(1..n) \X D -> D]
  <2> HIDE DEF D
  <2> QED BY <1>2
<1>5. PICK g : Iterated(g, n, D, V!NoMatch, Step)
  <2> HIDE DEF D, Step
  <2> QED BY <1>1, <1>3, <1>4, Iterates
<1>6. ASSUME NEW i \in 1..n PROVE g[i] = Next1(i, g[i - 1])
  <2> HIDE DEF D, Next1
  <2>1. g[i - 1] \in D
    BY <1>1, <1>5 DEF Iterated
  <2>2. <<i, g[i - 1]>> \in (1..n) \X D
    BY <2>1
  <2>3. g[i] = Step[<<i, g[i - 1]>>]
    BY <1>5 DEF Iterated
  <2> QED BY <2>2, <2>3
<1>7. Is(g)
  <2> HIDE DEF Next1
  <2>1. g = [i \in 0..n |-> g[i]] /\ g[0] = V!NoMatch
    BY <1>5 DEF Iterated
  <2>2. ASSUME NEW i \in 0..n
        PROVE  g[i] = IF i = 0 THEN V!NoMatch ELSE Next1(i, g[i - 1])
    <3>1. i # 0 => i \in 1..n
      BY <1>1
    <3> QED BY <1>6, <2>1, <3>1
  <2> QED BY <2>1, <2>2
<1>8. best = CHOOSE h : Is(h)
  BY DEF BestMatches, n, MatchOf, Tolerance
<1>9. Is(best)
  <2> HIDE DEF Is, best
  <2> QED BY <1>7, <1>8
<1>10. best[0] = V!NoMatch /\ \A i \in 1..n : best[i] = Next1(i, best[i - 1])
  <2> HIDE DEF Next1, best
  <2> QED BY <1>1, <1>9
<1> DEFINE T == {i \in 0..n : IsBestOf(best[i], HeardMatches(check, i), Tolerance)}
<1>11. 0 \in T
  <2>1. HeardMatches(check, 0) = {}
    BY DEF HeardMatches
  <2> HIDE DEF best
  <2> QED BY <1>1, <1>10, <2>1 DEF IsBestOf
<1>12. ASSUME NEW i \in 1..n, i - 1 \in T PROVE i \in T
  <2>1. HeardMatches(check, i - 1) \in SUBSET Matches
    BY <1>1, <1>2 DEF HeardMatches
  <2>2. HeardMatches(check, i)
          = HeardMatches(check, i - 1) \cup ({MatchOf(check, i)} \ {V!NoMatch})
    <3>1. 1..i = (1..(i - 1)) \cup {i}
      BY <1>1
    <3> QED BY <3>1 DEF HeardMatches
  <2>3. Tolerance \in Nat
    BY SignalTypes, InputsAssumption DEF Tolerance
  <2>4. IsBestOf(best[i - 1], HeardMatches(check, i - 1), Tolerance)
    BY <1>12
  <2>5. best[i] = Next1(i, best[i - 1])
    BY <1>10
  <2> HIDE DEF best
  <2>6. CASE MatchOf(check, i) = V!NoMatch
    <3>1. best[i] = best[i - 1] /\ HeardMatches(check, i) = HeardMatches(check, i - 1)
      BY <2>2, <2>5, <2>6
    <3> QED BY <2>4, <3>1
  <2>7. CASE MatchOf(check, i) # V!NoMatch
    <3>1. MatchOf(check, i) \in Matches
      BY <1>2, <2>7
    <3>2. best[i] = IF \/ best[i - 1] = V!NoMatch
                       \/ V!IsBetterMatch(MatchOf(check, i), best[i - 1], Tolerance)
                      THEN MatchOf(check, i) ELSE best[i - 1]
      BY <2>5, <2>7
    <3>3. HeardMatches(check, i) = HeardMatches(check, i - 1) \cup {MatchOf(check, i)}
      BY <2>2, <2>7
    <3>4. IsBestOf(IF \/ best[i - 1] = V!NoMatch
                      \/ V!IsBetterMatch(MatchOf(check, i), best[i - 1], Tolerance)
                     THEN MatchOf(check, i) ELSE best[i - 1],
                   HeardMatches(check, i - 1) \cup {MatchOf(check, i)}, Tolerance)
      BY <2>1, <2>3, <2>4, <3>1, BestOfOneMore
    <3>5. IsBestOf(best[i], HeardMatches(check, i), Tolerance)
      BY <3>2, <3>3, <3>4
    <3> QED BY <3>5
  <2> QED BY <2>6, <2>7
<1>13. n \in T
  <2> HIDE DEF T
  <2> QED BY <1>1, <1>11, <1>12, SetInduction
<1>14. V!MatchSweep(check.channels, V!VerificationSignal(Rate).total,
                    V!VerificationSignal(Rate)) = best[n]
  BY DEF V!MatchSweep, BestMatches, n
<1> QED BY <1>13, <1>14 DEF n

\* The verdict of the check agrees with the channels, for every recording.
LEMMA VerdictIsOfTheBest ==
  ASSUME NEW check \in CheckTypes
  PROVE  LET signal == V!VerificationSignal(Rate)
             verdict == V!Evaluate(check, signal.total, signal)
             Heard(c) == V!MatchChannel(check.channels[c], signal.total, signal)
             InTime == {c \in DOMAIN check.channels :
                          Heard(c) # V!NoMatch
                            /\ V!HasAcceptableTiming(Heard(c), Tolerance)}
         IN /\ verdict.failures = {} <=>
                 /\ check.inputPeak < V!ClippingThreshold
                 /\ check.peak > 1
                 /\ InTime # {}
            /\ verdict.sweep # V!NoMatch =>
                 \A c \in InTime :
                   Heard(c).score - verdict.sweep.score <= V!MinimumDirectScore
<1> DEFINE signal == V!VerificationSignal(Rate)
           verdict == V!Evaluate(check, signal.total, signal)
           sweep == V!MatchSweep(check.channels, signal.total, signal)
           n == Len(check.channels)
           heard == HeardMatches(check, n)
           InTime == {c \in 1..n : MatchOf(check, c) # V!NoMatch
                                     /\ V!HasAcceptableTiming(MatchOf(check, c), Tolerance)}
<1>1. /\ n \in Nat /\ DOMAIN check.channels = 1..n
      /\ \A i \in 1..n : check.channels[i] \in SUBSET Places
      /\ check.inputPeak \in Int /\ check.peak \in Int
  BY DEF CheckTypes
<1>2. signal.total \in Nat /\ signal.total > 0 /\ Tolerance \in Nat /\ Rate \in Nat
  <2>1. Rate \in Nat
    BY InputsAssumption
  <2>2. /\ signal.sweepFrames \in Nat \ {0} /\ signal.total \in Nat
        /\ signal.total > signal.sweepFrames /\ Tolerance \in Nat
    BY <2>1, SignalTypes DEF Tolerance
  <2> QED BY <2>1, <2>2
<1>3. heard \in SUBSET Matches
  <2> HIDE DEF n
  <2> QED BY <1>1, <1>2, MatchTypes DEF HeardMatches, MatchOf
<1>4. IsBestOf(sweep, heard, Tolerance)
  BY SweepIsBest
<1>5. \A c \in InTime : MatchOf(check, c) \in heard
  BY DEF HeardMatches
<1>6. \A m \in heard : \E c \in 1..n : m = MatchOf(check, c) /\ m # V!NoMatch
  BY DEF HeardMatches
<1> HIDE DEF heard, n
<1>7. sweep # V!NoMatch => sweep \in Matches
  BY <1>3, <1>4 DEF IsBestOf
<1>8. (sweep # V!NoMatch /\ V!HasAcceptableTiming(sweep, Tolerance)) <=> InTime # {}
  <2>1. ASSUME sweep # V!NoMatch, V!HasAcceptableTiming(sweep, Tolerance) PROVE InTime # {}
    <3>1. sweep \in heard
      BY <1>4, <2>1 DEF IsBestOf
    <3> HIDE DEF sweep
    <3> QED BY <1>6, <2>1, <3>1
  <2>2. ASSUME InTime # {} PROVE sweep # V!NoMatch /\ V!HasAcceptableTiming(sweep, Tolerance)
    <3>1. PICK c \in InTime : TRUE
      BY <2>2
    <3>2. MatchOf(check, c) \in {m \in heard : V!HasAcceptableTiming(m, Tolerance)}
      BY <1>5
    <3> HIDE DEF sweep
    <3>3. sweep \in {m \in heard : V!HasAcceptableTiming(m, Tolerance)}
      BY <1>4, <3>2 DEF IsBestOf
    <3>4. sweep # V!NoMatch
      BY <1>4, <3>2 DEF IsBestOf
    <3> QED BY <3>3, <3>4
  <2> QED BY <2>1, <2>2
<1>9. ASSUME sweep # V!NoMatch, NEW c \in InTime
      PROVE  MatchOf(check, c).score - sweep.score <= V!MinimumDirectScore
  <2>1. MatchOf(check, c) \in {m \in heard : V!HasAcceptableTiming(m, Tolerance)}
    BY <1>5
  <2>2. MatchOf(check, c).score
          <= sweep.score + (IF sweep.reliability = "reliable" THEN 5 ELSE 0)
    <3> HIDE DEF sweep
    <3> QED BY <1>4, <2>1 DEF IsBestOf
  <2>3. MatchOf(check, c).score \in Int /\ sweep.score \in Int
    BY <1>3, <1>7, <1>9, <2>1 DEF Matches
  <2> HIDE DEF sweep
  <2> QED BY <2>2, <2>3 DEF V!MinimumDirectScore
<1> DEFINE clipped == IF check.inputPeak >= V!ClippingThreshold
                        THEN {"digital_clipping"} ELSE {}
           late == V!Magnitude(sweep.error) > Tolerance
<1>10. CASE check.peak <= 1 \/ sweep = V!NoMatch
  <2>1. /\ verdict.sweep = V!NoMatch
        /\ verdict.failures = clipped \cup {"verification_signal_missing"}
    BY <1>2, <1>10 DEF V!Evaluate
  <2>2. ~(check.peak > 1 /\ InTime # {})
    BY <1>1, <1>8, <1>10
  <2> HIDE DEF verdict, InTime
  <2>3. verdict.failures # {}
    BY <2>1
  <2>4. /\ verdict.failures = {} <=> /\ check.inputPeak < V!ClippingThreshold
                                     /\ check.peak > 1
                                     /\ InTime # {}
        /\ verdict.sweep # V!NoMatch =>
             \A c \in InTime :
               MatchOf(check, c).score - verdict.sweep.score <= V!MinimumDirectScore
    BY <2>1, <2>2, <2>3
  <2> QED BY <1>1, <2>4 DEF verdict, InTime, MatchOf
<1>11. CASE ~(check.peak <= 1 \/ sweep = V!NoMatch)
  <2>1. /\ verdict.sweep = sweep
        /\ verdict.failures =
             clipped
               \cup (IF late THEN {"verification_timing_mismatch"} ELSE {})
               \cup (IF sweep.reliability = "unmeasurable"
                       THEN {"verification_signal_missing"} ELSE {})
    BY <1>2, <1>11 DEF V!Evaluate, Tolerance
  <2>2. V!HasAcceptableTiming(sweep, Tolerance)
          <=> ~late /\ sweep.reliability # "unmeasurable"
    <3>1. sweep.error \in Int
      BY <1>7, <1>11 DEF Matches
    <3> HIDE DEF sweep
    <3> QED BY <1>2, <3>1 DEF V!HasAcceptableTiming, V!Magnitude
  <2>3. check.peak > 1 /\ (check.inputPeak >= V!ClippingThreshold
                             <=> ~(check.inputPeak < V!ClippingThreshold))
    BY <1>1, <1>11 DEF V!ClippingThreshold
  <2> HIDE DEF verdict, InTime, sweep, late
  <2>4. verdict.failures = {} <=> /\ check.inputPeak < V!ClippingThreshold
                                  /\ check.peak > 1
                                  /\ InTime # {}
    <3>1. verdict.failures = {} <=> /\ clipped = {}
                                    /\ ~late /\ sweep.reliability # "unmeasurable"
      BY <2>1
    <3> QED BY <1>8, <1>11, <2>2, <2>3, <3>1
  <2>5. verdict.sweep # V!NoMatch =>
          \A c \in InTime :
            MatchOf(check, c).score - verdict.sweep.score <= V!MinimumDirectScore
    BY <1>9, <2>1
  <2> QED BY <1>1, <2>4, <2>5 DEF verdict, InTime, MatchOf
<1> QED BY <1>10, <1>11

------------------------------
(* The reader of an aligned payload.                                       *)

Readers == [position : Nat, remaining : Nat, ended : BOOLEAN]

\* A reader stands inside the asset, and has ended only behind its last frame.
IsInside(r, assetFrames) ==
  r \in Readers /\ r.position <= assetFrames /\ (r.ended => r.position = assetFrames)

\* The states of a read that wants n frames: how many it has so far.
IsFilling(s, r, n, assetFrames) ==
  /\ s \in [position : Nat, filled : Nat, ended : BOOLEAN]
  /\ s.position = r.position + s.filled
  /\ s.filled <= n
  /\ s.position <= assetFrames
  /\ s.ended => s.position = assetFrames

\* One read of the asset.
Filled(before, n, assetFrames, short) ==
  LET read == P!AssetRead(before.position, assetFrames, n - before.filled, short)
  IN IF before.filled = n \/ before.ended THEN before
     ELSE [position |-> before.position + read, filled |-> before.filled + read,
           ended |-> read = 0]

\* A read of the asset gets a frame, or has everything, or is at the end.
LEMMA FilledGrows ==
  ASSUME NEW s, NEW r \in Readers, NEW n \in Nat, NEW assetFrames \in Nat,
         NEW short \in Nat \ {0}, IsFilling(s, r, n, assetFrames)
  PROVE  LET t == Filled(s, n, assetFrames, short)
         IN /\ IsFilling(t, r, n, assetFrames)
            /\ t.filled = n \/ t.ended \/ t.filled > s.filled
<1> DEFINE read == P!AssetRead(s.position, assetFrames, n - s.filled, short)
           t == Filled(s, n, assetFrames, short)
<1>1. /\ s.position \in Nat /\ s.filled \in Nat /\ s.ended \in BOOLEAN
      /\ r.position \in Nat
      /\ s.position = r.position + s.filled /\ s.filled <= n
      /\ s.position <= assetFrames
  BY DEF IsFilling, Readers
<1>2. CASE s.filled = n \/ s.ended
  <2>1. t = s
    BY <1>2 DEF Filled
  <2> QED BY <1>2, <2>1
<1>3. CASE ~(s.filled = n \/ s.ended)
  <2>1. t = [position |-> s.position + read, filled |-> s.filled + read, ended |-> read = 0]
    BY <1>3 DEF Filled
  <2>2. /\ read \in Nat /\ read <= assetFrames - s.position /\ read <= n - s.filled
        /\ read = 0 <=> assetFrames = s.position
    BY <1>1, <1>3 DEF P!AssetRead, P!AtMost
  <2> HIDE DEF read, t
  <2>3. /\ t \in [position : Nat, filled : Nat, ended : BOOLEAN]
        /\ t.position = s.position + read /\ t.filled = s.filled + read
        /\ t.ended <=> read = 0
    <3> DEFINE none == read = 0
    <3>1. none \in BOOLEAN /\ (none <=> read = 0)
      OBVIOUS
    <3>2. t = [position |-> s.position + read, filled |-> s.filled + read, ended |-> none]
      BY <2>1
    <3> HIDE DEF none
    <3> QED BY <1>1, <2>2, <3>1, <3>2
  <2>4. IsFilling(t, r, n, assetFrames)
    BY <1>1, <2>2, <2>3 DEF IsFilling
  <2>5. t.ended \/ t.filled > s.filled
    BY <1>1, <2>2, <2>3
  <2> QED BY <2>4, <2>5 DEF t
<1> QED BY <1>2, <1>3

\* The states of the loop, by number of reads.
FillStates(r, size, assetFrames, short) ==
  CHOOSE state : state = [i \in 0..(P!AtMost(r.remaining, size) + 1) |->
    IF i = 0 THEN [position |-> r.position, filled |-> 0, ended |-> r.ended]
    ELSE LET before == state[i - 1]
             read == P!AssetRead(before.position, assetFrames,
                                 P!AtMost(r.remaining, size) - before.filled, short)
         IN IF before.filled = P!AtMost(r.remaining, size) \/ before.ended THEN before
            ELSE [position |-> before.position + read,
                  filled |-> before.filled + read, ended |-> read = 0]]

\* The loop ends with all the frames, or with all that the asset has.
LEMMA FillsUp ==
  ASSUME NEW assetFrames \in Nat, NEW r, IsInside(r, assetFrames), NEW size \in Nat,
         NEW short \in Nat \ {0}
  PROVE  LET n == P!AtMost(r.remaining, size)
             last == FillStates(r, size, assetFrames, short)[n + 1]
         IN /\ IsFilling(last, r, n, assetFrames)
            /\ last.filled = n \/ last.ended
<1> DEFINE n == P!AtMost(r.remaining, size)
           D == {s \in [position : Nat, filled : Nat, ended : BOOLEAN] :
                   IsFilling(s, r, n, assetFrames)}
           base == [position |-> r.position, filled |-> 0, ended |-> r.ended]
           Step == [p \in (1..(n + 1)) \X D |-> Filled(p[2], n, assetFrames, short)]
           Is(g) == g = [i \in 0..(n + 1) |->
                           IF i = 0 THEN base ELSE Filled(g[i - 1], n, assetFrames, short)]
           state == FillStates(r, size, assetFrames, short)
<1>1. n \in Nat /\ r \in Readers
  BY DEF IsInside, Readers, P!AtMost
<1>2. state = CHOOSE h : Is(h)
  BY DEF FillStates, Filled
<1> HIDE DEF n
<1>3. base \in D
  BY <1>1 DEF IsFilling, IsInside, Readers
<1>4. ASSUME NEW s \in D PROVE Filled(s, n, assetFrames, short) \in D
  <2>1. IsFilling(Filled(s, n, assetFrames, short), r, n, assetFrames)
    BY <1>1, FilledGrows
  <2> QED BY <2>1 DEF IsFilling
<1>5. Step \in [(1..(n + 1)) \X D -> D]
  <2> HIDE DEF D
  <2> QED BY <1>4
<1>6. PICK g : Iterated(g, n + 1, D, base, Step)
  <2>1. n + 1 \in Nat
    BY <1>1
  <2> HIDE DEF D, base, Step
  <2> QED BY <2>1, <1>3, <1>5, Iterates
<1>7. ASSUME NEW i \in 1..(n + 1) PROVE g[i] = Filled(g[i - 1], n, assetFrames, short)
  <2> HIDE DEF D
  <2>1. g[i - 1] \in D
    BY <1>1, <1>6 DEF Iterated
  <2>2. <<i, g[i - 1]>> \in (1..(n + 1)) \X D
    BY <2>1
  <2>3. g[i] = Step[<<i, g[i - 1]>>]
    BY <1>6 DEF Iterated
  <2> QED BY <2>2, <2>3
<1>8. Is(g)
  <2>1. g = [i \in 0..(n + 1) |-> g[i]] /\ g[0] = base
    BY <1>6 DEF Iterated
  <2> HIDE DEF base
  <2>2. ASSUME NEW i \in 0..(n + 1)
        PROVE  g[i] = IF i = 0 THEN base ELSE Filled(g[i - 1], n, assetFrames, short)
    <3>1. i # 0 => i \in 1..(n + 1)
      BY <1>1
    <3> QED BY <1>7, <2>1, <3>1
  <2> QED BY <2>1, <2>2
<1>9. Is(state)
  <2> HIDE DEF Is, state
  <2> QED BY <1>2, <1>8
<1>10. /\ state[0] = base
       /\ \A i \in 1..(n + 1) : state[i] = Filled(state[i - 1], n, assetFrames, short)
  <2> HIDE DEF state, base
  <2> QED BY <1>1, <1>9
<1> DEFINE T == {i \in 0..(n + 1) : /\ IsFilling(state[i], r, n, assetFrames)
                                    /\ \/ state[i].filled = n
                                       \/ state[i].ended
                                       \/ state[i].filled >= i}
<1> HIDE DEF state
<1>11. 0 \in T
  BY <1>1, <1>3, <1>10
<1>12. ASSUME NEW i \in 1..(n + 1), i - 1 \in T PROVE i \in T
  <2> DEFINE s == state[i - 1]
             t == state[i]
  <2>1. /\ IsFilling(s, r, n, assetFrames)
        /\ s.filled = n \/ s.ended \/ s.filled >= i - 1
    BY <1>12
  <2>2. t = Filled(s, n, assetFrames, short)
    BY <1>10
  <2>3. /\ IsFilling(t, r, n, assetFrames)
        /\ t.filled = n \/ t.ended \/ t.filled > s.filled
    BY <1>1, <2>1, <2>2, FilledGrows
  <2>4. (s.filled = n \/ s.ended) => t = s
    BY <2>2 DEF Filled
  <2> HIDE DEF s, t
  <2>5. t.filled = n \/ t.ended \/ t.filled >= i
    <3>1. t.filled \in Nat /\ s.filled \in Nat
      BY <2>1, <2>3 DEF IsFilling
    <3> QED BY <2>1, <2>3, <2>4, <3>1
  <2> QED BY <2>3, <2>5 DEF t
<1>13. n + 1 \in T
  <2> HIDE DEF T
  <2> QED BY <1>1, <1>11, <1>12, SetInduction
<1>14. IsFilling(state[n + 1], r, n, assetFrames)
       /\ (state[n + 1].filled = n \/ state[n + 1].ended)
  BY <1>1, <1>13 DEF IsFilling
<1> QED BY <1>14 DEF n, state

\* n frames of the asset from "start" on, silence behind its end.
Expected(start, declared, n) ==
  [k \in 1..n |-> IF start + k - 1 < declared THEN start + k - 1 ELSE P!Silence]

\* A read returns as many frames as it is asked for and the payload still has:
\* those of the asset from where the reader stands, then silence.
LEMMA ReadsInOrder ==
  ASSUME NEW assetFrames \in Nat, NEW r, IsInside(r, assetFrames), NEW size \in Nat,
         NEW short \in Nat \ {0}
  PROVE  LET n == P!AtMost(r.remaining, size)
             read == P!ReadFrames(r, size, assetFrames, short)
         IN /\ n \in Nat
            /\ read.frames = Expected(r.position, assetFrames, n)
            /\ IsInside(read.reader, assetFrames)
            /\ read.reader.remaining = r.remaining - n
            /\ read.reader.position = P!AtMost(assetFrames, r.position + n)
<1> DEFINE n == P!AtMost(r.remaining, size)
           read == P!ReadFrames(r, size, assetFrames, short)
           last == FillStates(r, size, assetFrames, short)[n + 1]
<1>1. /\ n \in Nat /\ n <= r.remaining /\ r.remaining \in Nat /\ r.position \in Nat
      /\ r.position <= assetFrames
  BY DEF IsInside, Readers, P!AtMost
<1>2. IsFilling(last, r, n, assetFrames) /\ (last.filled = n \/ last.ended)
  BY FillsUp
<1>3. read = [frames |-> [i \in 1..n |-> IF i <= last.filled THEN r.position + i - 1
                                         ELSE P!Silence],
              reader |-> [position |-> last.position, remaining |-> r.remaining - n,
                          ended |-> last.ended]]
  BY DEF P!ReadFrames, FillStates
<1> HIDE DEF last, n, read
<1>4. /\ last.position \in Nat /\ last.filled \in Nat /\ last.ended \in BOOLEAN
      /\ last.position = r.position + last.filled /\ last.filled <= n
      /\ last.position <= assetFrames
      /\ last.filled = n \/ last.position = assetFrames
      /\ last.ended => last.position = assetFrames
  BY <1>2 DEF IsFilling
<1>5. \A i \in 1..n : i <= last.filled <=> r.position + i - 1 < assetFrames
  BY <1>1, <1>4
<1>6. read.frames = Expected(r.position, assetFrames, n)
  BY <1>3, <1>5 DEF Expected
<1>7. /\ read.reader \in Readers /\ read.reader.remaining = r.remaining - n
      /\ read.reader.position = last.position /\ (read.reader.ended <=> last.ended)
  <2>1. read.reader = [position |-> last.position, remaining |-> r.remaining - n,
                       ended |-> last.ended]
    BY <1>3
  <2> QED BY <1>1, <1>4, <2>1 DEF Readers
<1>8. IsInside(read.reader, assetFrames)
  BY <1>4, <1>7 DEF IsInside
<1>9. read.reader.position = P!AtMost(assetFrames, r.position + n)
  BY <1>1, <1>4, <1>7 DEF P!AtMost
<1> QED BY <1>1, <1>6, <1>7, <1>8, <1>9 DEF n, read

------------------------------
(* Sums.                                                                   *)

\* The sums of the beginnings of a sequence.
Sums(s) ==
  CHOOSE sum : sum = [i \in 0..Len(s) |-> IF i = 0 THEN 0 ELSE sum[i - 1] + s[i]]

\* A sequence of integers has them.
LEMMA SumsOf ==
  ASSUME NEW s \in Seq(Int)
  PROVE  /\ Sums(s)[0] = 0
         /\ \A i \in 1..Len(s) : Sums(s)[i] = Sums(s)[i - 1] + s[i]
         /\ \A i \in 0..Len(s) : Sums(s)[i] \in Int
<1> DEFINE n == Len(s)
           Step == [p \in (1..n) \X Int |-> p[2] + s[p[1]]]
           Is(g) == g = [i \in 0..n |-> IF i = 0 THEN 0 ELSE g[i - 1] + s[i]]
           sum == Sums(s)
<1>1. n \in Nat /\ \A i \in 1..n : s[i] \in Int
  OBVIOUS
<1>2. sum = CHOOSE h : Is(h)
  BY DEF Sums
<1> HIDE DEF n
<1>3. Step \in [(1..n) \X Int -> Int]
  BY <1>1
<1>4. PICK g : Iterated(g, n, Int, 0, Step)
  <2> DEFINE D == Int
             base == 0
  <2>1. n \in Nat /\ base \in D /\ Step \in [(1..n) \X D -> D]
    BY <1>1, <1>3
  <2> HIDE DEF Step, D, base
  <2>2. \E g : Iterated(g, n, D, base, Step)
    BY <2>1, Iterates
  <2> QED BY <2>2 DEF D, base
<1>5. ASSUME NEW i \in 1..n PROVE g[i] = g[i - 1] + s[i]
  <2>1. g[i - 1] \in Int
    BY <1>1, <1>4 DEF Iterated
  <2>2. <<i, g[i - 1]>> \in (1..n) \X Int
    BY <2>1
  <2>3. g[i] = Step[<<i, g[i - 1]>>]
    BY <1>4 DEF Iterated
  <2> QED BY <2>2, <2>3
<1>6. Is(g)
  <2>1. g = [i \in 0..n |-> g[i]] /\ g[0] = 0
    BY <1>4 DEF Iterated
  <2>2. ASSUME NEW i \in 0..n PROVE g[i] = IF i = 0 THEN 0 ELSE g[i - 1] + s[i]
    <3>1. i # 0 => i \in 1..n
      BY <1>1
    <3> QED BY <1>5, <2>1, <3>1
  <2> QED BY <2>1, <2>2
<1>7. Is(sum)
  <2> HIDE DEF Is, sum
  <2> QED BY <1>2, <1>6
<1>8. sum[0] = 0 /\ \A i \in 1..n : sum[i] = sum[i - 1] + s[i]
  <2> HIDE DEF sum
  <2> QED BY <1>1, <1>7
<1> HIDE DEF sum
<1> DEFINE T == {i \in 0..n : sum[i] \in Int}
<1>9. 0 \in T
  BY <1>1, <1>8
<1>10. ASSUME NEW i \in 1..n, i - 1 \in T PROVE i \in T
  BY <1>1, <1>8, <1>10
<1>11. 0..n \subseteq T
  <2> HIDE DEF T
  <2> QED BY <1>1, <1>9, <1>10, SetInduction
<1> QED BY <1>8, <1>11 DEF n, sum

\* The total of a sequence is its last sum.
LEMMA TotalIsSum ==
  ASSUME NEW s \in Seq(Int)
  PROVE  A!Total(s) = Sums(s)[Len(s)] /\ A!Total(s) \in Int
<1>1. A!Total(s) = Sums(s)[Len(s)]
  BY DEF A!Total, Sums
<1> QED BY <1>1, SumsOf

\* s without its last element, which is x.
Extends(long, s, x) == long = Append(s, x)

\* A total grows by what is appended.
LEMMA TotalGrows ==
  ASSUME NEW s \in Seq(Int), NEW x \in Int, NEW long, Extends(long, s, x)
  PROVE  A!Total(long) = A!Total(s) + x
<1> DEFINE n == Len(s)
           T == {i \in 0..n : Sums(long)[i] = Sums(s)[i]}
<1>1. /\ n \in Nat /\ long \in Seq(Int) /\ Len(long) = n + 1
      /\ long[n + 1] = x /\ \A i \in 1..n : long[i] = s[i]
  BY DEF Extends
<1>2. /\ Sums(long)[0] = 0
      /\ \A i \in 1..(n + 1) : Sums(long)[i] = Sums(long)[i - 1] + long[i]
  BY <1>1, SumsOf
<1>3. Sums(s)[0] = 0 /\ \A i \in 1..n : Sums(s)[i] = Sums(s)[i - 1] + s[i]
  BY SumsOf
<1>4. A!Total(long) = Sums(long)[n + 1] /\ A!Total(s) = Sums(s)[n]
  BY <1>1, TotalIsSum
<1>0. n \in Nat
  OBVIOUS
<1> HIDE DEF n
<1>5. 0 \in T
  BY <1>1, <1>2, <1>3
<1>6. ASSUME NEW i \in 1..n, i - 1 \in T PROVE i \in T
  BY <1>1, <1>2, <1>3, <1>6
<1>7. n \in T
  <2> HIDE DEF T
  <2>1. 0..n \subseteq T
    BY <1>0, <1>5, <1>6, SetInduction
  <2> QED BY <1>0, <2>1
<1>8. Sums(long)[n + 1] = Sums(long)[n] + x
  BY <1>1, <1>2
<1> QED BY <1>4, <1>7, <1>8

\* Nothing adds up to 0.
LEMMA TotalOfNothing ==
  ASSUME NEW s \in Seq(Int), Len(s) = 0
  PROVE  A!Total(s) = 0
BY TotalIsSum, SumsOf
------------------------------
(* The pairing of markers and candidates.                                  *)

Tasks == [candidates : Seq([frame : Int, peak : Int]), expected : Seq(Int),
          latency : Int, tolerance : Int]

SquareOf(t, e, c) == A!Residual(t, e, c) * A!Residual(t, e, c)

PeakOf(t, e, c) == t.candidates[c].peak

Fitting(t, e, c) == AtMostApart(A!Residual(t, e, c), 0, t.tolerance)

Cells == [pairs : Seq(Nat \X Nat), residual : Int, peaks : Int]

\* A way to pair some of the first e markers with the first c candidates.
IsChoice(t, f, e, c) ==
  /\ DOMAIN f \in SUBSET (1..e) /\ f \in [DOMAIN f -> 1..c]
  /\ \A k \in DOMAIN f : Fitting(t, k, f[k])
  /\ \A j, k \in DOMAIN f : j < k => f[j] < f[k]

SquaresOf(t, f, e) == [k \in 1..e |-> IF k \in DOMAIN f THEN SquareOf(t, k, f[k]) ELSE 0]

PeaksOf(t, f, e) == [k \in 1..e |-> IF k \in DOMAIN f THEN PeakOf(t, k, f[k]) ELSE 0]

\* What such a choice is worth, and what a cell is worth.
Worths == [count : Nat, residual : Int, peaks : Int]

Worth(t, f, e) ==
  [count |-> Cardinality(DOMAIN f), residual |-> A!Total(SquaresOf(t, f, e)),
   peaks |-> A!Total(PeaksOf(t, f, e))]

Scored(cell) ==
  [count |-> Len(cell.pairs), residual |-> cell.residual, peaks |-> cell.peaks]

IsNoBetter(w, v) ==
  /\ w.count <= v.count
  /\ w.count = v.count => \/ w.residual > v.residual
                          \/ w.residual = v.residual /\ w.peaks <= v.peaks

CostsOf(t, pairs) == [k \in DOMAIN pairs |-> SquareOf(t, pairs[k][1], pairs[k][2])]

EnergiesOf(t, pairs) == [k \in DOMAIN pairs |-> PeakOf(t, pairs[k][1], pairs[k][2])]

\* The cell is one of those ways, ...
IsPossible(t, cell, e, c) ==
  /\ cell \in Cells
  /\ \A k \in DOMAIN cell.pairs :
       /\ cell.pairs[k][1] \in 1..e /\ cell.pairs[k][2] \in 1..c
       /\ Fitting(t, cell.pairs[k][1], cell.pairs[k][2])
       /\ k > 1 => /\ cell.pairs[k - 1][1] < cell.pairs[k][1]
                   /\ cell.pairs[k - 1][2] < cell.pairs[k][2]
  /\ cell.residual = A!Total(CostsOf(t, cell.pairs))
  /\ cell.peaks = A!Total(EnergiesOf(t, cell.pairs))

\* ... and no other is better.
IsUnbeaten(t, cell, e, c) ==
  \A f : IsChoice(t, f, e, c) => IsNoBetter(Worth(t, f, e), Scored(cell))

IsBestCell(t, cell, e, c) == IsPossible(t, cell, e, c) /\ IsUnbeaten(t, cell, e, c)

\* Residuals and peaks are numbers.
LEMMA CostTypes ==
  ASSUME NEW t \in Tasks, NEW e \in 1..Len(t.expected), NEW c \in 1..Len(t.candidates)
  PROVE  /\ A!Residual(t, e, c) \in Int /\ SquareOf(t, e, c) \in Int
         /\ PeakOf(t, e, c) \in Int
<1>1. /\ t.candidates[c].frame \in Int /\ t.candidates[c].peak \in Int
      /\ t.expected[e] \in Int /\ t.latency \in Int
  <2>1. /\ t.candidates \in Seq([frame : Int, peak : Int]) /\ t.expected \in Seq(Int)
        /\ t.latency \in Int
    BY DEF Tasks
  <2>2. t.candidates[c] \in [frame : Int, peak : Int]
    <3> DEFINE R == [frame : Int, peak : Int]
               s == t.candidates
    <3>1. s \in Seq(R) /\ c \in 1..Len(s)
      BY <2>1
    <3> HIDE DEF R, s
    <3>2. s[c] \in R
      BY <3>1
    <3> QED BY <3>2 DEF R, s
  <2>3. t.expected[e] \in Int
    BY <2>1
  <2> QED BY <2>1, <2>2, <2>3
<1>2. A!Residual(t, e, c) \in Int
  BY <1>1 DEF A!Residual
<1>3. \A r \in Int : r * r \in Int
  OBVIOUS
<1>4. SquareOf(t, e, c) \in Int
  BY <1>2, <1>3 DEF SquareOf
<1> QED BY <1>1, <1>2, <1>4 DEF PeakOf

\* Worths are ordered.
LEMMA Transitive ==
  ASSUME NEW u \in Worths, NEW v \in Worths, NEW w \in Worths,
         IsNoBetter(u, v), IsNoBetter(v, w)
  PROVE  IsNoBetter(u, w)
BY DEF Worths, IsNoBetter

\* A cell has a worth.
LEMMA ScoresAreWorths ==
  ASSUME NEW cell \in Cells
  PROVE  Scored(cell) \in Worths
BY DEF Scored, Worths, Cells

\* update_alignment_cell keeps one of two cells, and neither is better.
LEMMA BetterIsKept ==
  ASSUME NEW a \in Cells, NEW b \in Cells
  PROVE  LET kept == A!KeepBetter(a, b)
         IN /\ kept \in {a, b}
            /\ IsNoBetter(Scored(a), Scored(kept))
            /\ IsNoBetter(Scored(b), Scored(kept))
<1>1. /\ Len(a.pairs) \in Nat /\ a.residual \in Int /\ a.peaks \in Int
      /\ Len(b.pairs) \in Nat /\ b.residual \in Int /\ b.peaks \in Int
  BY DEF Cells
<1>2. /\ Scored(a).count = Len(a.pairs) /\ Scored(a).residual = a.residual
      /\ Scored(a).peaks = a.peaks
      /\ Scored(b).count = Len(b.pairs) /\ Scored(b).residual = b.residual
      /\ Scored(b).peaks = b.peaks
  BY DEF Scored
<1>3. CASE A!IsBetterPairing(b, a)
  <2>1. A!KeepBetter(a, b) = b
    BY <1>3 DEF A!KeepBetter
  <2>2. IsNoBetter(Scored(a), Scored(b)) /\ IsNoBetter(Scored(b), Scored(b))
    BY <1>1, <1>2, <1>3 DEF IsNoBetter, A!IsBetterPairing
  <2> QED BY <2>1, <2>2
<1>4. CASE ~A!IsBetterPairing(b, a)
  <2>1. A!KeepBetter(a, b) = a
    BY <1>4 DEF A!KeepBetter
  <2>2. IsNoBetter(Scored(b), Scored(a)) /\ IsNoBetter(Scored(a), Scored(a))
    BY <1>1, <1>2, <1>4 DEF IsNoBetter, A!IsBetterPairing
  <2> QED BY <2>1, <2>2
<1> QED BY <1>3, <1>4

\* A cell stays possible when there are more markers and candidates.
LEMMA PossibleGrows ==
  ASSUME NEW t \in Tasks, NEW d \in Nat, NEW e \in Nat, d <= e,
         NEW b \in Nat, NEW c \in Nat, b <= c, NEW cell, IsPossible(t, cell, d, b)
  PROVE  IsPossible(t, cell, e, c)
<1>1. \A k \in DOMAIN cell.pairs : cell.pairs[k][1] \in 1..e /\ cell.pairs[k][2] \in 1..c
  BY DEF IsPossible
<1> QED BY <1>1 DEF IsPossible

\* A sequence with one more element at its end.
LEMMA OneMore ==
  ASSUME NEW E, NEW s \in Seq(E), NEW x \in E
  PROVE  /\ Append(s, x) \in Seq(E) /\ Len(Append(s, x)) = Len(s) + 1
         /\ DOMAIN Append(s, x) = 1..(Len(s) + 1)
         /\ Append(s, x)[Len(s) + 1] = x
         /\ \A k \in 1..Len(s) : Append(s, x)[k] = s[k]
<1>1. Append(s, x) \in Seq(E)
  OBVIOUS
<1>2. Len(Append(s, x)) = Len(s) + 1
  OBVIOUS
<1>3. DOMAIN Append(s, x) = 1..(Len(s) + 1)
  BY <1>1, <1>2
<1>4. Append(s, x)[Len(s) + 1] = x
  OBVIOUS
<1>5. \A k \in 1..Len(s) : Append(s, x)[k] = s[k]
  OBVIOUS
<1> QED BY <1>1, <1>2, <1>3, <1>4, <1>5

\* A match of the next marker and the next candidate makes a possible cell of
\* a possible one.
LEMMA MatchIsPossible ==
  ASSUME NEW t \in Tasks, NEW e \in 1..Len(t.expected), NEW c \in 1..Len(t.candidates),
         NEW cell, IsPossible(t, cell, e - 1, c - 1), Fitting(t, e, c)
  PROVE  IsPossible(t, A!Matched(t, cell, e, c), e, c)
<1> DEFINE old == cell.pairs
           n == Len(old)
           new == A!Matched(t, cell, e, c)
           pairs == Append(old, <<e, c>>)
<1>1. /\ old \in Seq(Nat \X Nat) /\ n \in Nat /\ cell.residual \in Int /\ cell.peaks \in Int
      /\ e \in Nat /\ c \in Nat /\ DOMAIN old = 1..n
  <2>1. cell \in [pairs : Seq(Nat \X Nat), residual : Int, peaks : Int]
    BY DEF IsPossible, Cells
  <2>2. old \in Seq(Nat \X Nat) /\ cell.residual \in Int /\ cell.peaks \in Int
    BY <2>1
  <2>3. n \in Nat /\ DOMAIN old = 1..n
    BY <2>2
  <2>4. e \in Nat /\ c \in Nat
    BY DEF Tasks
  <2> QED BY <2>2, <2>3, <2>4
<1>2. /\ new.pairs = pairs
      /\ new.residual = cell.residual + SquareOf(t, e, c)
      /\ new.peaks = cell.peaks + PeakOf(t, e, c)
      /\ new = [pairs |-> pairs, residual |-> cell.residual + SquareOf(t, e, c),
                peaks |-> cell.peaks + PeakOf(t, e, c)]
  BY DEF A!Matched, SquareOf, PeakOf
<1>3. /\ pairs \in Seq(Nat \X Nat) /\ Len(pairs) = n + 1 /\ DOMAIN pairs = 1..(n + 1)
      /\ pairs[n + 1] = <<e, c>> /\ \A k \in 1..n : pairs[k] = old[k]
  <2>1. old \in Seq(Nat \X Nat) /\ <<e, c>> \in Nat \X Nat
    BY <1>1
  <2> QED BY <2>1, OneMore
<1>4. SquareOf(t, e, c) \in Int /\ PeakOf(t, e, c) \in Int
  BY CostTypes
<1>5. \A k \in 1..n : /\ old[k][1] \in 1..(e - 1) /\ old[k][2] \in 1..(c - 1)
                      /\ Fitting(t, old[k][1], old[k][2])
                      /\ k > 1 => /\ old[k - 1][1] < old[k][1]
                                  /\ old[k - 1][2] < old[k][2]
  BY <1>1 DEF IsPossible
<1>6. /\ cell.residual = A!Total(CostsOf(t, old))
      /\ cell.peaks = A!Total(EnergiesOf(t, old))
  BY DEF IsPossible
<1> HIDE DEF old, n, pairs, new
<1>7. new \in Cells
  <2> DEFINE S1 == Seq(Nat \X Nat)
             r == cell.residual + SquareOf(t, e, c)
             p == cell.peaks + PeakOf(t, e, c)
  <2>0. Cells = [pairs : S1, residual : Int, peaks : Int]
    BY DEF Cells
  <2>1. pairs \in S1
    BY <1>3
  <2>3. r \in Int /\ p \in Int
    <3>1. cell.residual \in Int /\ cell.peaks \in Int
      BY <1>1
    <3> QED BY <1>4, <3>1
  <2>2. new = [pairs |-> pairs, residual |-> r, peaks |-> p]
    BY <1>2
  <2> HIDE DEF S1, r, p
  <2> QED BY <2>0, <2>1, <2>2, <2>3
<1>8. ASSUME NEW k \in 1..(n + 1)
      PROVE  /\ pairs[k][1] \in 1..e /\ pairs[k][2] \in 1..c
             /\ Fitting(t, pairs[k][1], pairs[k][2])
             /\ k > 1 => /\ pairs[k - 1][1] < pairs[k][1]
                         /\ pairs[k - 1][2] < pairs[k][2]
  <2>1. CASE k = n + 1
    <3>1. pairs[k][1] = e /\ pairs[k][2] = c
      BY <1>3, <2>1
    <3>2. k > 1 => /\ pairs[k - 1] = old[k - 1]
                   /\ old[k - 1][1] \in 1..(e - 1) /\ old[k - 1][2] \in 1..(c - 1)
      <4>1. n \in Nat
        BY <1>1
      <4>2. k > 1 => k - 1 \in 1..n
        BY <2>1, <4>1
      <4> QED BY <1>3, <1>5, <4>2
    <3>3. e \in 1..e /\ c \in 1..c
      BY <1>1
    <3>4. Fitting(t, pairs[k][1], pairs[k][2])
      BY <3>1
    <3>5. \A x \in 1..(e - 1), y \in 1..(c - 1) : x < e /\ y < c
      BY <1>1
    <3>6. k > 1 => /\ pairs[k - 1][1] < pairs[k][1]
                   /\ pairs[k - 1][2] < pairs[k][2]
      BY <3>1, <3>2, <3>5
    <3>7. pairs[k][1] \in 1..e /\ pairs[k][2] \in 1..c
      BY <3>1, <3>3
    <3> QED BY <3>4, <3>6, <3>7
  <2>2. CASE k # n + 1
    <3>1. k \in 1..n /\ (k > 1 => k - 1 \in 1..n)
      BY <1>1, <2>2
    <3>2. pairs[k] = old[k] /\ (k > 1 => pairs[k - 1] = old[k - 1])
      BY <1>3, <3>1
    <3>3. /\ old[k][1] \in 1..(e - 1) /\ old[k][2] \in 1..(c - 1)
          /\ Fitting(t, old[k][1], old[k][2])
          /\ k > 1 => /\ old[k - 1][1] < old[k][1]
                      /\ old[k - 1][2] < old[k][2]
      BY <1>5, <3>1
    <3>4. old[k][1] \in 1..e /\ old[k][2] \in 1..c
      <4>1. /\ \A x \in 1..(e - 1) : x \in 1..e
            /\ \A x \in 1..(c - 1) : x \in 1..c
        BY <1>1
      <4> QED BY <3>3, <4>1
    <3> QED BY <3>2, <3>3, <3>4
  <2> QED BY <2>1, <2>2
<1>9. ASSUME NEW k \in 1..n
      PROVE  SquareOf(t, old[k][1], old[k][2]) \in Int /\ PeakOf(t, old[k][1], old[k][2]) \in Int
  <2>1. old[k][1] \in 1..Len(t.expected) /\ old[k][2] \in 1..Len(t.candidates)
    <3>1. Len(t.expected) \in Nat /\ Len(t.candidates) \in Nat
      BY DEF Tasks
    <3> QED BY <1>5, <3>1
  <2> QED BY <2>1, CostTypes
<1>10. /\ CostsOf(t, old) \in Seq(Int) /\ EnergiesOf(t, old) \in Seq(Int)
       /\ Extends(CostsOf(t, pairs), CostsOf(t, old), SquareOf(t, e, c))
       /\ Extends(EnergiesOf(t, pairs), EnergiesOf(t, old), PeakOf(t, e, c))
  <2> DEFINE X(k) == SquareOf(t, old[k][1], old[k][2])
             Y(k) == PeakOf(t, old[k][1], old[k][2])
             X1(k) == SquareOf(t, pairs[k][1], pairs[k][2])
             Y1(k) == PeakOf(t, pairs[k][1], pairs[k][2])
  <2>1. /\ \A k \in 1..n : X(k) \in Int /\ Y(k) \in Int /\ X1(k) = X(k) /\ Y1(k) = Y(k)
        /\ X1(n + 1) = SquareOf(t, e, c) /\ Y1(n + 1) = PeakOf(t, e, c)
    <3>1. \A k \in 1..n : X(k) \in Int /\ Y(k) \in Int
      BY <1>9
    <3>2. \A k \in 1..n : X1(k) = X(k) /\ Y1(k) = Y(k)
      BY <1>3
    <3>3. X1(n + 1) = SquareOf(t, e, c) /\ Y1(n + 1) = PeakOf(t, e, c)
      <4>1. pairs[n + 1][1] = e /\ pairs[n + 1][2] = c
        BY <1>3
      <4> QED BY <4>1
    <3> QED BY <3>1, <3>2, <3>3
  <2>2. /\ CostsOf(t, old) = [k \in 1..n |-> X(k)]
        /\ EnergiesOf(t, old) = [k \in 1..n |-> Y(k)]
        /\ CostsOf(t, pairs) = [k \in 1..(n + 1) |-> X1(k)]
        /\ EnergiesOf(t, pairs) = [k \in 1..(n + 1) |-> Y1(k)]
    BY <1>1, <1>3 DEF CostsOf, EnergiesOf
  <2> HIDE DEF X, Y, X1, Y1
  <2>3. [k \in 1..(n + 1) |-> X1(k)] = Append([k \in 1..n |-> X(k)], SquareOf(t, e, c))
    BY <1>1, <1>4, <2>1
  <2>4. [k \in 1..(n + 1) |-> Y1(k)] = Append([k \in 1..n |-> Y(k)], PeakOf(t, e, c))
    BY <1>1, <1>4, <2>1
  <2>5. [k \in 1..n |-> X(k)] \in Seq(Int) /\ [k \in 1..n |-> Y(k)] \in Seq(Int)
    BY <1>1, <2>1
  <2> QED BY <2>2, <2>3, <2>4, <2>5 DEF Extends
<1>11. /\ new.residual = A!Total(CostsOf(t, pairs))
       /\ new.peaks = A!Total(EnergiesOf(t, pairs))
  BY <1>2, <1>4, <1>6, <1>10, TotalGrows
<1> QED BY <1>2, <1>3, <1>7, <1>8, <1>11 DEF IsPossible, new
------------------------------
(* The best cell.                                                          *)

\* A choice among e markers and c candidates takes the last marker or not.
LEMMA ChoiceTypes ==
  ASSUME NEW t \in Tasks, NEW e \in 0..Len(t.expected), NEW c \in 0..Len(t.candidates),
         NEW f, IsChoice(t, f, e, c)
  PROVE  /\ SquaresOf(t, f, e) \in Seq(Int) /\ PeaksOf(t, f, e) \in Seq(Int)
         /\ IsFiniteSet(DOMAIN f) /\ Cardinality(DOMAIN f) \in Nat
         /\ Worth(t, f, e) \in Worths
<1>1. /\ Len(t.expected) \in Nat /\ Len(t.candidates) \in Nat /\ e \in Nat
  BY DEF Tasks
<1>2. DOMAIN f \in SUBSET (1..e) /\ \A k \in DOMAIN f : f[k] \in 1..c
  BY DEF IsChoice
<1>3. \A k \in DOMAIN f : SquareOf(t, k, f[k]) \in Int /\ PeakOf(t, k, f[k]) \in Int
  <2>1. ASSUME NEW k \in DOMAIN f
        PROVE  k \in 1..Len(t.expected) /\ f[k] \in 1..Len(t.candidates)
    BY <1>1, <1>2
  <2> QED BY <2>1, CostTypes
<1>4. SquaresOf(t, f, e) \in Seq(Int)
  <2>1. SquaresOf(t, f, e) \in [1..e -> Int]
    BY <1>3 DEF SquaresOf
  <2> QED BY <1>1, <2>1
<1>5. PeaksOf(t, f, e) \in Seq(Int)
  <2>1. PeaksOf(t, f, e) \in [1..e -> Int]
    BY <1>3 DEF PeaksOf
  <2> QED BY <1>1, <2>1
<1>6. IsFiniteSet(DOMAIN f) /\ Cardinality(DOMAIN f) \in Nat
  <2>1. IsFiniteSet(1..e)
    BY <1>1, FS_Interval
  <2>2. IsFiniteSet(DOMAIN f)
    BY <1>2, <2>1, FS_Subset
  <2> QED BY <2>2, FS_CardinalityType
<1>7. Worth(t, f, e) \in Worths
  <2>1. A!Total(SquaresOf(t, f, e)) \in Int /\ A!Total(PeaksOf(t, f, e)) \in Int
    BY <1>4, <1>5, TotalIsSum
  <2> QED BY <1>6, <2>1 DEF Worth, Worths
<1> QED BY <1>4, <1>5, <1>6, <1>7

\* Without the last marker a choice is one among the markers before it, and
\* worth as much.
LEMMA ChoiceWithoutLast ==
  ASSUME NEW t \in Tasks, NEW e \in 1..Len(t.expected), NEW c \in 0..Len(t.candidates),
         NEW f, IsChoice(t, f, e, c), e \notin DOMAIN f
  PROVE  IsChoice(t, f, e - 1, c) /\ Worth(t, f, e) = Worth(t, f, e - 1)
<1>1. e \in Nat /\ e - 1 \in 0..Len(t.expected)
  BY DEF Tasks
<1>2. IsChoice(t, f, e - 1, c)
  <2>1. DOMAIN f \in SUBSET (1..(e - 1))
    BY <1>1 DEF IsChoice
  <2> QED BY <2>1 DEF IsChoice
<1>3. /\ SquaresOf(t, f, e - 1) \in Seq(Int) /\ PeaksOf(t, f, e - 1) \in Seq(Int)
  BY <1>1, <1>2, ChoiceTypes
<1>4. /\ Extends(SquaresOf(t, f, e), SquaresOf(t, f, e - 1), 0)
      /\ Extends(PeaksOf(t, f, e), PeaksOf(t, f, e - 1), 0)
  <2> DEFINE X(k) == IF k \in DOMAIN f THEN SquareOf(t, k, f[k]) ELSE 0
             Y(k) == IF k \in DOMAIN f THEN PeakOf(t, k, f[k]) ELSE 0
  <2>1. X(e) = 0 /\ Y(e) = 0
    OBVIOUS
  <2> HIDE DEF X, Y
  <2>2. /\ [k \in 1..e |-> X(k)] = Append([k \in 1..(e - 1) |-> X(k)], 0)
        /\ [k \in 1..e |-> Y(k)] = Append([k \in 1..(e - 1) |-> Y(k)], 0)
    BY <1>1, <2>1
  <2> QED BY <2>2 DEF Extends, SquaresOf, PeaksOf, X, Y
<1>5. /\ A!Total(SquaresOf(t, f, e)) = A!Total(SquaresOf(t, f, e - 1)) + 0
      /\ A!Total(PeaksOf(t, f, e)) = A!Total(PeaksOf(t, f, e - 1)) + 0
  BY <1>3, <1>4, TotalGrows
<1>6. /\ A!Total(SquaresOf(t, f, e - 1)) \in Int /\ A!Total(PeaksOf(t, f, e - 1)) \in Int
  BY <1>3, TotalIsSum
<1> QED BY <1>2, <1>5, <1>6 DEF Worth

\* The choice without its last marker.
Shortened(f, e) == [k \in DOMAIN f \ {e} |-> f[k]]

\* A choice that pairs the last marker with the last candidate is a choice
\* among those before them and this pair.
LEMMA ChoiceWithLast ==
  ASSUME NEW t \in Tasks, NEW e \in 1..Len(t.expected), NEW c \in 1..Len(t.candidates),
         NEW f, IsChoice(t, f, e, c), e \in DOMAIN f, f[e] = c
  PROVE  LET g == Shortened(f, e)
         IN /\ Fitting(t, e, c)
            /\ IsChoice(t, g, e - 1, c - 1)
            /\ Worth(t, f, e).count = Worth(t, g, e - 1).count + 1
            /\ Worth(t, f, e).residual = Worth(t, g, e - 1).residual + SquareOf(t, e, c)
            /\ Worth(t, f, e).peaks = Worth(t, g, e - 1).peaks + PeakOf(t, e, c)
<1> DEFINE g == Shortened(f, e)
<1>1. /\ e \in Nat /\ e - 1 \in 0..Len(t.expected)
      /\ c \in Nat /\ c - 1 \in 0..Len(t.candidates) /\ c \in 0..Len(t.candidates)
      /\ e \in 0..Len(t.expected)
  <2>1. t.expected \in Seq(Int) /\ t.candidates \in Seq([frame : Int, peak : Int])
    BY DEF Tasks
  <2>2. Len(t.expected) \in Nat /\ Len(t.candidates) \in Nat
    BY <2>1
  <2> HIDE DEF Tasks
  <2> QED BY <2>2
<1>2. /\ DOMAIN f \in SUBSET (1..e) /\ \A k \in DOMAIN f : f[k] \in 1..c
      /\ \A k \in DOMAIN f : Fitting(t, k, f[k])
      /\ \A j, k \in DOMAIN f : j < k => f[j] < f[k]
  <2>1. /\ DOMAIN f \in SUBSET (1..e) /\ f \in [DOMAIN f -> 1..c]
        /\ \A k \in DOMAIN f : Fitting(t, k, f[k])
        /\ \A j, k \in DOMAIN f : j < k => f[j] < f[k]
    BY DEF IsChoice
  <2>2. \A k \in DOMAIN f : f[k] \in 1..c
    BY <2>1
  <2> QED BY <2>1, <2>2
<1>3. DOMAIN g = DOMAIN f \ {e} /\ \A k \in DOMAIN g : g[k] = f[k]
  BY DEF Shortened
<1>4. \A k \in DOMAIN g : k \in 1..(e - 1) /\ g[k] \in 1..(c - 1)
  <2> SUFFICES ASSUME NEW k \in DOMAIN g PROVE k \in 1..(e - 1) /\ g[k] \in 1..(c - 1)
    OBVIOUS
  <2>1. k \in DOMAIN f /\ k # e /\ g[k] = f[k]
    BY <1>3
  <2>2. k \in 1..(e - 1)
    BY <1>1, <1>2, <2>1
  <2>3. f[k] < f[e]
    BY <1>1, <1>2, <2>1, <2>2
  <2>4. f[k] \in 1..c
    BY <1>2, <2>1
  <2> HIDE DEF g
  <2> QED BY <1>1, <2>1, <2>2, <2>3, <2>4
<1>5. g \in [DOMAIN g -> 1..(c - 1)]
  <2>1. g = [k \in DOMAIN g |-> g[k]]
    BY DEF Shortened
  <2> HIDE DEF g
  <2> QED BY <1>4, <2>1
<1> HIDE DEF g
<1>6. IsChoice(t, g, e - 1, c - 1)
  BY <1>2, <1>3, <1>4, <1>5 DEF IsChoice
<1>7. /\ SquaresOf(t, g, e - 1) \in Seq(Int) /\ PeaksOf(t, g, e - 1) \in Seq(Int)
      /\ IsFiniteSet(DOMAIN f) /\ Cardinality(DOMAIN f) \in Nat
  BY <1>1, <1>6, ChoiceTypes
<1>8. SquareOf(t, e, c) \in Int /\ PeakOf(t, e, c) \in Int
  BY CostTypes
<1>9. /\ Extends(SquaresOf(t, f, e), SquaresOf(t, g, e - 1), SquareOf(t, e, c))
      /\ Extends(PeaksOf(t, f, e), PeaksOf(t, g, e - 1), PeakOf(t, e, c))
  <2> DEFINE X(k) == IF k \in DOMAIN f THEN SquareOf(t, k, f[k]) ELSE 0
             Y(k) == IF k \in DOMAIN f THEN PeakOf(t, k, f[k]) ELSE 0
             X1(k) == IF k \in DOMAIN g THEN SquareOf(t, k, g[k]) ELSE 0
             Y1(k) == IF k \in DOMAIN g THEN PeakOf(t, k, g[k]) ELSE 0
  <2>1. X(e) = SquareOf(t, e, c) /\ Y(e) = PeakOf(t, e, c)
    OBVIOUS
  <2>2. \A k \in 1..(e - 1) : X(k) = X1(k) /\ Y(k) = Y1(k)
    BY <1>1, <1>3
  <2>3. /\ SquaresOf(t, f, e) = [k \in 1..e |-> X(k)]
        /\ PeaksOf(t, f, e) = [k \in 1..e |-> Y(k)]
        /\ SquaresOf(t, g, e - 1) = [k \in 1..(e - 1) |-> X1(k)]
        /\ PeaksOf(t, g, e - 1) = [k \in 1..(e - 1) |-> Y1(k)]
    BY DEF SquaresOf, PeaksOf
  <2> HIDE DEF X, Y, X1, Y1
  <2>4. [k \in 1..e |-> X(k)] = Append([k \in 1..(e - 1) |-> X1(k)], SquareOf(t, e, c))
    BY <1>1, <2>1, <2>2
  <2>5. [k \in 1..e |-> Y(k)] = Append([k \in 1..(e - 1) |-> Y1(k)], PeakOf(t, e, c))
    BY <1>1, <2>1, <2>2
  <2> QED BY <2>3, <2>4, <2>5 DEF Extends
<1>10. /\ A!Total(SquaresOf(t, f, e)) = A!Total(SquaresOf(t, g, e - 1)) + SquareOf(t, e, c)
       /\ A!Total(PeaksOf(t, f, e)) = A!Total(PeaksOf(t, g, e - 1)) + PeakOf(t, e, c)
  BY <1>7, <1>8, <1>9, TotalGrows
<1>11. Cardinality(DOMAIN f) = Cardinality(DOMAIN g) + 1
  <2>1. IsFiniteSet(DOMAIN f) /\ Cardinality(DOMAIN f) \in Nat
    BY <1>1, ChoiceTypes
  <2>2. Cardinality(DOMAIN f \ {e}) = Cardinality(DOMAIN f) - 1
    BY <2>1, FS_RemoveElement
  <2> QED BY <1>3, <2>1, <2>2
<1> QED BY <1>2, <1>6, <1>10, <1>11 DEF Worth, g

\* Every other choice does without the last candidate.
LEMMA ChoiceBeforeLast ==
  ASSUME NEW t \in Tasks, NEW e \in 1..Len(t.expected), NEW c \in 1..Len(t.candidates),
         NEW f, IsChoice(t, f, e, c), e \in DOMAIN f, f[e] # c
  PROVE  IsChoice(t, f, e, c - 1)
<1>1. /\ DOMAIN f \in SUBSET (1..e) /\ \A k \in DOMAIN f : f[k] \in 1..c
      /\ \A j, k \in DOMAIN f : j < k => f[j] < f[k]
      /\ c \in Nat /\ e \in Nat
  <2>1. /\ DOMAIN f \in SUBSET (1..e) /\ f \in [DOMAIN f -> 1..c]
        /\ \A j, k \in DOMAIN f : j < k => f[j] < f[k]
    BY DEF IsChoice
  <2>2. \A k \in DOMAIN f : f[k] \in 1..c
    BY <2>1
  <2>3. c \in Nat /\ e \in Nat
    BY DEF Tasks
  <2> QED BY <2>1, <2>2, <2>3
<1>2. ASSUME NEW k \in DOMAIN f PROVE f[k] \in 1..(c - 1)
  <2>1. CASE k = e
    BY <1>1, <2>1
  <2>2. CASE k # e
    <3>1. k < e /\ f[k] \in Int /\ f[e] \in Int /\ f[e] <= c /\ f[k] >= 1
      BY <1>1, <2>2
    <3>2. f[k] < f[e]
      BY <1>1, <3>1
    <3> QED BY <1>1, <3>1, <3>2
  <2> QED BY <2>1, <2>2
<1>3. f \in [DOMAIN f -> 1..(c - 1)]
  <2>1. f = [k \in DOMAIN f |-> f[k]]
    BY DEF IsChoice
  <2> QED BY <1>2, <2>1
<1> QED BY <1>3 DEF IsChoice
\* The cell that the code computes from three best ones is the best.
LEMMA BestCellIsBest ==
  ASSUME NEW t \in Tasks, NEW e \in 1..Len(t.expected), NEW c \in 1..Len(t.candidates),
         NEW diagonal, IsBestCell(t, diagonal, e - 1, c - 1),
         NEW above, IsBestCell(t, above, e - 1, c),
         NEW left, IsBestCell(t, left, e, c - 1)
  PROVE  IsBestCell(t, A!BestCell(t, diagonal, above, left, e, c), e, c)
<1> DEFINE cell == A!BestCell(t, diagonal, above, left, e, c)
           matched == A!Matched(t, diagonal, e, c)
           far == A!Absolute(A!Residual(t, e, c)) > t.tolerance
           first == A!KeepBetter(matched, above)
<1>1. /\ e \in Nat /\ e - 1 \in Nat /\ c \in Nat /\ c - 1 \in Nat
      /\ e \in 0..Len(t.expected) /\ e - 1 \in 0..Len(t.expected)
      /\ c \in 0..Len(t.candidates) /\ c - 1 \in 0..Len(t.candidates)
  BY DEF Tasks
<1>2. A!Residual(t, e, c) \in Int /\ t.tolerance \in Int
      /\ SquareOf(t, e, c) \in Int /\ PeakOf(t, e, c) \in Int
  BY CostTypes DEF Tasks
<1>3. ~far <=> Fitting(t, e, c)
  BY <1>2 DEF Fitting, AtMostApart, A!Absolute
<1>4. cell = IF far THEN A!KeepBetter(above, left) ELSE A!KeepBetter(first, left)
  BY DEF A!BestCell
<1> HIDE DEF cell, far
<1>5. IsPossible(t, above, e, c) /\ IsPossible(t, left, e, c)
  <2>1. IsPossible(t, above, e - 1, c) /\ IsPossible(t, left, e, c - 1)
    BY DEF IsBestCell
  <2>2. e - 1 <= e /\ c - 1 <= c /\ e <= e /\ c <= c
    BY <1>1
  <2> QED BY <1>1, <2>1, <2>2, PossibleGrows
<1>6. ~far => IsPossible(t, matched, e, c)
  <2>1. IsPossible(t, diagonal, e - 1, c - 1)
    BY DEF IsBestCell
  <2> HIDE DEF matched
  <2> QED BY <1>3, <2>1, MatchIsPossible DEF matched
<1> HIDE DEF matched, first
<1>7. /\ above \in Cells /\ left \in Cells /\ (~far => matched \in Cells)
      /\ diagonal \in Cells
  BY <1>5, <1>6 DEF IsPossible, IsBestCell
\* The updated cell is one of the three, and none of them is better.
<1>8. /\ cell \in {above, left} \cup (IF far THEN {} ELSE {matched})
      /\ IsNoBetter(Scored(above), Scored(cell)) /\ IsNoBetter(Scored(left), Scored(cell))
      /\ ~far => IsNoBetter(Scored(matched), Scored(cell))
  <2>1. CASE far
    <3>1. cell = A!KeepBetter(above, left)
      BY <1>4, <2>1
    <3>2. /\ cell \in {above, left} /\ IsNoBetter(Scored(above), Scored(cell))
          /\ IsNoBetter(Scored(left), Scored(cell))
      BY <1>7, <3>1, BetterIsKept
    <3> QED BY <2>1, <3>2
  <2>2. CASE ~far
    <3>1. cell = A!KeepBetter(first, left)
      BY <1>4, <2>2
    <3>2. /\ first \in {matched, above} /\ IsNoBetter(Scored(matched), Scored(first))
          /\ IsNoBetter(Scored(above), Scored(first))
      BY <1>7, <2>2, BetterIsKept DEF first
    <3>3. first \in Cells
      BY <1>7, <2>2, <3>2
    <3>4. /\ cell \in {first, left} /\ IsNoBetter(Scored(first), Scored(cell))
          /\ IsNoBetter(Scored(left), Scored(cell))
      BY <1>7, <3>1, <3>3, BetterIsKept
    <3>5. cell \in Cells
      BY <1>7, <3>3, <3>4
    <3>6. /\ Scored(matched) \in Worths /\ Scored(above) \in Worths
          /\ Scored(first) \in Worths /\ Scored(cell) \in Worths
      BY <1>7, <2>2, <3>3, <3>5, ScoresAreWorths
    <3>7. IsNoBetter(Scored(matched), Scored(cell)) /\ IsNoBetter(Scored(above), Scored(cell))
      BY <3>2, <3>4, <3>6, Transitive
    <3> QED BY <2>2, <3>2, <3>4, <3>7
  <2> QED BY <2>1, <2>2
<1>9. IsPossible(t, cell, e, c)
  BY <1>5, <1>6, <1>8
<1>10. cell \in Cells /\ Scored(cell) \in Worths /\ Scored(above) \in Worths
       /\ Scored(left) \in Worths
  BY <1>7, <1>9, ScoresAreWorths DEF IsPossible
\* Nor is any choice.
<1>11. ASSUME NEW f, IsChoice(t, f, e, c)
       PROVE  IsNoBetter(Worth(t, f, e), Scored(cell))
  <2>1. Worth(t, f, e) \in Worths
    BY <1>1, <1>11, ChoiceTypes
  <2>2. CASE e \notin DOMAIN f
    <3>1. IsChoice(t, f, e - 1, c) /\ Worth(t, f, e) = Worth(t, f, e - 1)
      BY <1>1, <1>11, <2>2, ChoiceWithoutLast
    <3>2. IsNoBetter(Worth(t, f, e), Scored(above))
      BY <3>1 DEF IsBestCell, IsUnbeaten
    <3> QED BY <1>8, <1>10, <2>1, <3>2, Transitive
  <2>3. CASE e \in DOMAIN f /\ f[e] # c
    <3>1. IsChoice(t, f, e, c - 1)
      BY <1>11, <2>3, ChoiceBeforeLast
    <3>2. IsNoBetter(Worth(t, f, e), Scored(left))
      BY <3>1 DEF IsBestCell, IsUnbeaten
    <3> QED BY <1>8, <1>10, <2>1, <3>2, Transitive
  <2>4. CASE e \in DOMAIN f /\ f[e] = c
    <3> DEFINE g == Shortened(f, e)
               w == Worth(t, f, e)
               v == Worth(t, g, e - 1)
    <3>1. /\ Fitting(t, e, c) /\ IsChoice(t, g, e - 1, c - 1)
          /\ w.count = v.count + 1
          /\ w.residual = v.residual + SquareOf(t, e, c)
          /\ w.peaks = v.peaks + PeakOf(t, e, c)
      BY <1>11, <2>4, ChoiceWithLast
    <3> HIDE DEF g
    <3>2. IsNoBetter(v, Scored(diagonal)) /\ v \in Worths
      BY <1>1, <3>1, ChoiceTypes DEF IsBestCell, IsUnbeaten
    <3>3. ~far /\ matched \in Cells
      BY <1>3, <1>7, <3>1
    <3>4. /\ Scored(matched).count = Scored(diagonal).count + 1
          /\ Scored(matched).residual = Scored(diagonal).residual + SquareOf(t, e, c)
          /\ Scored(matched).peaks = Scored(diagonal).peaks + PeakOf(t, e, c)
      <4>1. diagonal.pairs \in Seq(Nat \X Nat)
        BY <1>7 DEF Cells
      <4>2. Len(Append(diagonal.pairs, <<e, c>>)) = Len(diagonal.pairs) + 1
        BY <4>1
      <4> QED BY <4>2 DEF Scored, matched, A!Matched, SquareOf, PeakOf
    <3>5. Scored(diagonal) \in Worths /\ Scored(matched) \in Worths
      BY <1>7, <3>3, ScoresAreWorths
    <3>6. IsNoBetter(w, Scored(matched))
      <4> DEFINE a == Scored(diagonal)
                 b == Scored(matched)
      <4>1. /\ v.count \in Nat /\ v.residual \in Int /\ v.peaks \in Int
            /\ a.count \in Nat /\ a.residual \in Int /\ a.peaks \in Int
            /\ w.count \in Nat /\ w.residual \in Int /\ w.peaks \in Int
        BY <2>1, <3>2, <3>5 DEF Worths
      <4>2. /\ b.count = a.count + 1 /\ b.residual = a.residual + SquareOf(t, e, c)
            /\ b.peaks = a.peaks + PeakOf(t, e, c)
        BY <3>4
      <4>3. /\ v.count <= a.count
            /\ v.count = a.count => \/ v.residual > a.residual
                                    \/ v.residual = a.residual /\ v.peaks <= a.peaks
        BY <3>2 DEF IsNoBetter
      <4> HIDE DEF a, b, v, w
      <4>4. /\ w.count <= b.count
            /\ w.count = b.count => \/ w.residual > b.residual
                                    \/ w.residual = b.residual /\ w.peaks <= b.peaks
        <5>1. w.count <= b.count /\ (w.count = b.count <=> v.count = a.count)
          <6>1. w.count = v.count + 1 /\ b.count = a.count + 1 /\ v.count <= a.count
            BY <3>1, <4>2, <4>3
          <6>2. v.count \in Nat /\ a.count \in Nat
            BY <4>1
          <6> QED BY <6>1, <6>2
        <5>2. \A x, y, d \in Int : /\ x + d > y + d <=> x > y
                                   /\ x + d = y + d <=> x = y
                                   /\ x + d <= y + d <=> x <= y
          OBVIOUS
        <5>3. /\ w.residual > b.residual <=> v.residual > a.residual
              /\ w.residual = b.residual <=> v.residual = a.residual
          <6>1. /\ w.residual = v.residual + SquareOf(t, e, c)
                /\ b.residual = a.residual + SquareOf(t, e, c)
            BY <3>1, <4>2
          <6>2. v.residual \in Int /\ a.residual \in Int /\ SquareOf(t, e, c) \in Int
            BY <1>2, <4>1
          <6> QED BY <5>2, <6>1, <6>2
        <5>4. w.peaks <= b.peaks <=> v.peaks <= a.peaks
          <6>1. /\ w.peaks = v.peaks + PeakOf(t, e, c)
                /\ b.peaks = a.peaks + PeakOf(t, e, c)
            BY <3>1, <4>2
          <6>2. v.peaks \in Int /\ a.peaks \in Int /\ PeakOf(t, e, c) \in Int
            BY <1>2, <4>1
          <6> QED BY <5>2, <6>1, <6>2
        <5> QED BY <4>3, <5>1, <5>3, <5>4
      <4> QED BY <4>4 DEF IsNoBetter, b
    <3> QED BY <1>8, <1>10, <2>1, <3>3, <3>5, <3>6, Transitive
  <2> QED BY <2>2, <2>3, <2>4
<1>12. IsUnbeaten(t, cell, e, c)
  BY <1>11 DEF IsUnbeaten
<1> QED BY <1>9, <1>12 DEF IsBestCell, cell

\* Where there is no marker or no candidate, the empty cell is the best.
LEMMA EmptyCellIsBest ==
  ASSUME NEW t \in Tasks, NEW c \in 0..Len(t.candidates)
  PROVE  IsBestCell(t, A!EmptyCell, 0, c)
<1> DEFINE cell == A!EmptyCell
<1>1. /\ cell.pairs = <<>> /\ cell.residual = 0 /\ cell.peaks = 0 /\ cell \in Cells
  BY DEF A!EmptyCell, Cells
<1> HIDE DEF cell
<1>2. CostsOf(t, cell.pairs) = <<>> /\ EnergiesOf(t, cell.pairs) = <<>>
  BY <1>1 DEF CostsOf, EnergiesOf
<1>3. A!Total(<<>>) = 0
  <2>1. <<>> \in Seq(Int) /\ Len(<<>>) = 0
    OBVIOUS
  <2> QED BY <2>1, TotalOfNothing
<1>4. IsPossible(t, cell, 0, c)
  BY <1>1, <1>2, <1>3 DEF IsPossible
<1>5. ASSUME NEW f, IsChoice(t, f, 0, c) PROVE IsNoBetter(Worth(t, f, 0), Scored(cell))
  <2>1. DOMAIN f = {}
    <3>1. 1..0 = {}
      OBVIOUS
    <3> QED BY <1>5, <3>1 DEF IsChoice
  <2>2. Cardinality(DOMAIN f) = 0
    BY <2>1, FS_EmptySet
  <2>3. SquaresOf(t, f, 0) \in Seq(Int) /\ PeaksOf(t, f, 0) \in Seq(Int)
    <3>1. 0 \in 0..Len(t.expected)
      BY DEF Tasks
    <3> QED BY <1>5, <3>1, ChoiceTypes
  <2>4. Len(SquaresOf(t, f, 0)) = 0 /\ Len(PeaksOf(t, f, 0)) = 0
    BY DEF SquaresOf, PeaksOf
  <2>5. A!Total(SquaresOf(t, f, 0)) = 0 /\ A!Total(PeaksOf(t, f, 0)) = 0
    BY <2>3, <2>4, TotalOfNothing
  <2>6. Scored(cell) = [count |-> 0, residual |-> 0, peaks |-> 0]
    BY <1>1 DEF Scored
  <2> QED BY <2>2, <2>5, <2>6 DEF IsNoBetter, Worth
<1> QED BY <1>4, <1>5 DEF IsBestCell, IsUnbeaten, cell
------------------------------
(* The table of cells.                                                     *)

\* The cells of a marker, for no candidate, for one, and so on.
IsRow(t, row, e) ==
  /\ row \in Seq(Cells)
  /\ Len(row) = Len(t.candidates) + 1
  /\ \A c \in 0..Len(t.candidates) : IsBestCell(t, row[c + 1], e, c)

\* The row when the first c candidates are done.
IsBegun(t, row, e, c) ==
  /\ row \in Seq(Cells)
  /\ Len(row) = c + 1
  /\ \A b \in 0..c : IsBestCell(t, row[b + 1], e, b)

\* The cells of a row, by how many candidates are done.
RowStates(t, above, e) ==
  CHOOSE row : row = [c \in 0..Len(t.candidates) |->
    IF c = 0 THEN <<above[1]>>
    ELSE Append(row[c - 1], A!BestCell(t, above[c], above[c + 1], row[c - 1][c], e, c))]

\* One more candidate.
LEMMA RowGrows ==
  ASSUME NEW t \in Tasks, NEW e \in 1..Len(t.expected), NEW c \in 1..Len(t.candidates),
         NEW above, IsRow(t, above, e - 1), NEW before, IsBegun(t, before, e, c - 1)
  PROVE  IsBegun(t, Append(before, A!BestCell(t, above[c], above[c + 1], before[c], e, c)),
                 e, c)
<1> DEFINE cell == A!BestCell(t, above[c], above[c + 1], before[c], e, c)
           row == Append(before, cell)
<1>1. /\ c \in Nat /\ c - 1 \in 0..Len(t.candidates) /\ c \in 0..Len(t.candidates)
      /\ c - 1 + 1 = c /\ c - 1 \in 0..(c - 1)
  BY DEF Tasks
<1>2. IsBestCell(t, above[c], e - 1, c - 1) /\ IsBestCell(t, above[c + 1], e - 1, c)
  <2>1. \A b \in 0..Len(t.candidates) : IsBestCell(t, above[b + 1], e - 1, b)
    BY DEF IsRow
  <2>2. IsBestCell(t, above[c - 1 + 1], e - 1, c - 1)
    BY <1>1, <2>1
  <2> QED BY <1>1, <2>1, <2>2
<1>3. IsBestCell(t, before[c], e, c - 1)
  <2>1. IsBestCell(t, before[c - 1 + 1], e, c - 1)
    BY <1>1 DEF IsBegun
  <2> QED BY <1>1, <2>1
<1>4. IsBestCell(t, cell, e, c)
  BY <1>2, <1>3, BestCellIsBest
<1>5. cell \in Cells
  BY <1>4 DEF IsBestCell, IsPossible
<1> HIDE DEF cell
<1>6. before \in Seq(Cells) /\ Len(before) = c
  BY <1>1 DEF IsBegun
<1>7. /\ row \in Seq(Cells) /\ Len(row) = c + 1 /\ row[c + 1] = cell
      /\ \A b \in 1..c : row[b] = before[b]
  <2> DEFINE K == Cells
  <2>1. before \in Seq(K) /\ cell \in K
    BY <1>5, <1>6
  <2> HIDE DEF K
  <2> QED BY <1>1, <1>6, <2>1 DEF K
<1> HIDE DEF row
<1>8. ASSUME NEW b \in 0..c PROVE IsBestCell(t, row[b + 1], e, b)
  <2>1. CASE b = c
    BY <1>4, <1>7, <2>1
  <2>2. CASE b # c
    <3>1. b \in 0..(c - 1) /\ b + 1 \in 1..c
      BY <1>1, <2>2
    <3>2. IsBestCell(t, before[b + 1], e, b)
      BY <3>1 DEF IsBegun
    <3> QED BY <1>7, <3>1, <3>2
  <2> QED BY <2>1, <2>2
<1> QED BY <1>7, <1>8 DEF IsBegun, row, cell

\* The first cell of a row is that of the row above.
LEMMA RowBegins ==
  ASSUME NEW t \in Tasks, NEW e \in 1..Len(t.expected), NEW above, IsRow(t, above, e - 1)
  PROVE  IsBegun(t, <<above[1]>>, e, 0)
<1> DEFINE cell == above[1]
<1>1. /\ 0 \in 0..Len(t.candidates) /\ e - 1 \in 0..Len(t.expected) /\ e \in Nat
      /\ e \in 0..Len(t.expected) /\ e - 1 \in Nat /\ 0 \in Nat /\ 0 <= 0 /\ e - 1 <= e
  BY DEF Tasks
<1>2. IsBestCell(t, cell, e - 1, 0)
  <2>1. IsBestCell(t, above[0 + 1], e - 1, 0)
    BY <1>1 DEF IsRow
  <2> QED BY <2>1
<1> HIDE DEF cell
<1>3. IsPossible(t, cell, e, 0)
  BY <1>1, <1>2, PossibleGrows DEF IsBestCell
<1>4. ASSUME NEW f, IsChoice(t, f, e, 0)
      PROVE  IsNoBetter(Worth(t, f, e), Scored(cell))
  <2>1. e \notin DOMAIN f
    <3>1. 1..0 = {}
      OBVIOUS
    <3> QED BY <1>4, <3>1 DEF IsChoice
  <2>2. IsChoice(t, f, e - 1, 0) /\ Worth(t, f, e) = Worth(t, f, e - 1)
    BY <1>1, <1>4, <2>1, ChoiceWithoutLast
  <2> QED BY <1>2, <2>2 DEF IsBestCell, IsUnbeaten
<1>5. IsBestCell(t, cell, e, 0)
  BY <1>3, <1>4 DEF IsBestCell, IsUnbeaten
<1>6. cell \in Cells
  BY <1>3 DEF IsPossible
<1>7. <<cell>> \in Seq(Cells) /\ Len(<<cell>>) = 0 + 1 /\ <<cell>>[0 + 1] = cell
  <2> DEFINE K == Cells
  <2>1. cell \in K
    BY <1>6
  <2> HIDE DEF K
  <2> QED BY <2>1 DEF K
<1>8. \A b \in 0..0 : b = 0
  OBVIOUS
<1> QED BY <1>5, <1>7, <1>8 DEF IsBegun, cell

\* The cells of the next marker are the best when those of the marker before are.
LEMMA NextRowIsBest ==
  ASSUME NEW t \in Tasks, NEW e \in 1..Len(t.expected), NEW above, IsRow(t, above, e - 1)
  PROVE  IsRow(t, A!NextRow(t, above, e), e)
<1> DEFINE n == Len(t.candidates)
           D == Seq(Cells)
           base == <<above[1]>>
           Longer(c, row) ==
             Append(row, A!BestCell(t, above[c], above[c + 1], row[c], e, c))
           \* What is begun is lengthened; of anything else nothing is asked.
           Step == [p \in (1..n) \X D |->
                      IF IsBegun(t, p[2], e, p[1] - 1) THEN Longer(p[1], p[2]) ELSE p[2]]
           Is(g) == g = [c \in 0..n |-> IF c = 0 THEN base ELSE Longer(c, g[c - 1])]
           row == RowStates(t, above, e)
<1>1. n \in Nat
  BY DEF Tasks
<1>2. row = CHOOSE h : Is(h)
  BY DEF RowStates
<1>3. base \in D /\ IsBegun(t, base, e, 0)
  <2>1. IsBegun(t, base, e, 0)
    BY RowBegins
  <2> HIDE DEF base
  <2> QED BY <2>1 DEF IsBegun
<1>4. ASSUME NEW c \in 1..n, NEW r, IsBegun(t, r, e, c - 1)
      PROVE  IsBegun(t, Longer(c, r), e, c)
  BY <1>4, RowGrows
<1> HIDE DEF n, base, Longer
<1>5. Step \in [(1..n) \X D -> D]
  <2>1. ASSUME NEW c \in 1..n, NEW r \in D, IsBegun(t, r, e, c - 1) PROVE Longer(c, r) \in D
    BY <1>4, <2>1 DEF IsBegun
  <2> HIDE DEF D
  <2> QED BY <2>1
<1>6. PICK g : Iterated(g, n, D, base, Step)
  <2> HIDE DEF D, Step
  <2> QED BY <1>1, <1>3, <1>5, Iterates
<1> DEFINE T == {c \in 0..n : IsBegun(t, g[c], e, c)
                               /\ (c > 0 => g[c] = Longer(c, g[c - 1]))}
<1>7. 0 \in T
  BY <1>1, <1>3, <1>6 DEF Iterated
<1>8. ASSUME NEW c \in 1..n, c - 1 \in T PROVE c \in T
  <2>1. g[c - 1] \in D /\ c \in Nat
    BY <1>1, <1>6 DEF Iterated
  <2>2. IsBegun(t, g[c - 1], e, c - 1)
    BY <1>8
  <2>3. g[c] = Step[<<c, g[c - 1]>>]
    BY <1>6 DEF Iterated
  <2> HIDE DEF D
  <2>4. <<c, g[c - 1]>> \in (1..n) \X D
    BY <2>1
  <2>5. g[c] = Longer(c, g[c - 1])
    BY <2>2, <2>3, <2>4
  <2>6. IsBegun(t, g[c], e, c)
    BY <1>4, <2>2, <2>5
  <2> QED BY <2>5, <2>6
<1>9. 0..n \subseteq T
  <2> HIDE DEF T
  <2> QED BY <1>1, <1>7, <1>8, SetInduction
<1>10. \A c \in 0..n : IsBegun(t, g[c], e, c) /\ (c > 0 => g[c] = Longer(c, g[c - 1]))
  BY <1>9
<1>11. Is(g)
  <2>1. g = [c \in 0..n |-> g[c]] /\ g[0] = base
    BY <1>6 DEF Iterated
  <2>2. ASSUME NEW c \in 0..n PROVE g[c] = IF c = 0 THEN base ELSE Longer(c, g[c - 1])
    <3>1. CASE c = 0
      BY <2>1, <3>1
    <3>2. CASE c # 0
      <4>1. c > 0
        BY <1>1, <3>2
      <4> QED BY <1>10, <3>2, <4>1
    <3> QED BY <3>1, <3>2
  <2> QED BY <2>1, <2>2
<1> HIDE DEF Step, T, row
<1>12. Is(row)
  <2> HIDE DEF Is
  <2> QED BY <1>2, <1>11
<1>13. row[0] = base /\ \A c \in 1..n : row[c] = Longer(c, row[c - 1])
  BY <1>1, <1>12
<1> DEFINE U == {c \in 0..n : IsBegun(t, row[c], e, c)}
<1>14. 0 \in U
  BY <1>1, <1>3, <1>13
<1>15. ASSUME NEW c \in 1..n, c - 1 \in U PROVE c \in U
  BY <1>4, <1>13, <1>15
<1>16. n \in U
  <2> HIDE DEF U
  <2>1. 0..n \subseteq U
    BY <1>1, <1>14, <1>15, SetInduction
  <2> QED BY <1>1, <2>1
<1>17. A!NextRow(t, above, e) = row[n]
  BY DEF A!NextRow, RowStates, n, row
<1>18. IsBegun(t, row[n], e, n)
  BY <1>16
<1> QED BY <1>17, <1>18 DEF IsBegun, IsRow, n

\* The rows of the table.
TableRows(t) ==
  CHOOSE rows : rows = [e \in 0..Len(t.expected) |->
    IF e = 0 THEN [c \in 1..(Len(t.candidates) + 1) |-> A!EmptyCell]
    ELSE A!NextRow(t, rows[e - 1], e)]

\* The last cell of the table is the best of all.
LEMMA PairingIsBest ==
  ASSUME NEW t \in Tasks
  PROVE  IsBestCell(t, A!BestPairing(t), Len(t.expected), Len(t.candidates))
<1> DEFINE n == Len(t.expected)
           m == Len(t.candidates)
           base == [c \in 1..(m + 1) |-> A!EmptyCell]
           Is(g) == g = [e \in 0..n |-> IF e = 0 THEN base ELSE A!NextRow(t, g[e - 1], e)]
           rows == TableRows(t)
<1>1. n \in Nat /\ m \in Nat
  BY DEF Tasks
<1>2. rows = CHOOSE h : Is(h)
  BY DEF TableRows
<1>3. IsRow(t, base, 0)
  <2>1. Len(base) = m + 1 /\ \A c \in 0..m : base[c + 1] = A!EmptyCell
    BY <1>1
  <2>2. A!EmptyCell \in Cells
    BY DEF A!EmptyCell, Cells
  <2>3. base \in Seq(Cells)
    <3> DEFINE K == Cells
    <3>1. base \in [1..(m + 1) -> K] /\ m + 1 \in Nat
      BY <1>1, <2>2
    <3> HIDE DEF K, base
    <3>2. base \in Seq(K)
      BY <3>1
    <3> QED BY <3>2 DEF K
  <2> HIDE DEF base
  <2> QED BY <2>1, <2>3, EmptyCellIsBest DEF IsRow
<1> HIDE DEF n, base
<1>4. ASSUME NEW e \in 1..n, NEW r, IsRow(t, r, e - 1) PROVE IsRow(t, A!NextRow(t, r, e), e)
  BY <1>4, NextRowIsBest DEF n
<1> DEFINE D == Seq(Cells)
           Step == [p \in (1..n) \X D |->
                      IF IsRow(t, p[2], p[1] - 1) THEN A!NextRow(t, p[2], p[1]) ELSE p[2]]
<1>5. Step \in [(1..n) \X D -> D]
  <2>1. ASSUME NEW e \in 1..n, NEW r \in D, IsRow(t, r, e - 1)
        PROVE  A!NextRow(t, r, e) \in D
    BY <1>4, <2>1 DEF IsRow
  <2> HIDE DEF D
  <2> QED BY <2>1
<1>6. PICK g : Iterated(g, n, D, base, Step)
  <2>1. base \in D
    BY <1>3 DEF IsRow
  <2> HIDE DEF D, Step
  <2> QED BY <1>1, <1>5, <2>1, Iterates
<1> DEFINE T == {e \in 0..n : IsRow(t, g[e], e)
                               /\ (e > 0 => g[e] = A!NextRow(t, g[e - 1], e))}
<1>7. 0 \in T
  BY <1>1, <1>3, <1>6 DEF Iterated
<1>8. ASSUME NEW e \in 1..n, e - 1 \in T PROVE e \in T
  <2>1. g[e - 1] \in D /\ e \in Nat
    BY <1>1, <1>6 DEF Iterated
  <2>2. IsRow(t, g[e - 1], e - 1)
    BY <1>8
  <2>3. g[e] = Step[<<e, g[e - 1]>>]
    BY <1>6 DEF Iterated
  <2> HIDE DEF D
  <2>4. <<e, g[e - 1]>> \in (1..n) \X D
    BY <2>1
  <2>5. g[e] = A!NextRow(t, g[e - 1], e)
    BY <2>2, <2>3, <2>4
  <2>6. IsRow(t, g[e], e)
    BY <1>4, <2>2, <2>5
  <2> QED BY <2>5, <2>6
<1>9. 0..n \subseteq T
  <2> HIDE DEF T
  <2> QED BY <1>1, <1>7, <1>8, SetInduction
<1>10. Is(g)
  <2>1. g = [e \in 0..n |-> g[e]] /\ g[0] = base
    BY <1>6 DEF Iterated
  <2>2. ASSUME NEW e \in 0..n PROVE g[e] = IF e = 0 THEN base ELSE A!NextRow(t, g[e - 1], e)
    BY <1>9, <2>1
  <2> QED BY <2>1, <2>2
<1> HIDE DEF Step, T, rows
<1>11. Is(rows)
  <2> HIDE DEF Is
  <2> QED BY <1>2, <1>10 DEF rows
<1>12. rows[0] = base /\ \A e \in 1..n : rows[e] = A!NextRow(t, rows[e - 1], e)
  BY <1>1, <1>11
<1> DEFINE U == {e \in 0..n : IsRow(t, rows[e], e)}
<1>13. 0 \in U
  BY <1>1, <1>3, <1>12
<1>14. ASSUME NEW e \in 1..n, e - 1 \in U PROVE e \in U
  BY <1>4, <1>12, <1>14
<1>15. n \in U
  <2> HIDE DEF U
  <2>1. 0..n \subseteq U
    BY <1>1, <1>13, <1>14, SetInduction
  <2> QED BY <1>1, <2>1
<1>16. IsRow(t, rows[n], n)
  BY <1>15
<1>17. A!BestPairing(t) = rows[n][m + 1]
  BY DEF A!BestPairing, TableRows, n, rows
<1>18. m \in 0..m
  BY <1>1
<1> QED BY <1>16, <1>17, <1>18 DEF IsRow, n
------------------------------
(* The samples of a driver.                                                *)

\* What the sample types are: so many bytes, and a scale for each depth.
IntegerForms == {<<2, 128>>, <<3, 2048>>, <<4, 32768>>, <<4, 128>>, <<4, 256>>,
                 <<4, 512>>, <<4, 2048>>}

\* A supported type has one of these forms.
LEMMA SampleForms ==
  ASSUME NEW type, S!IsSupported(type)
  PROVE  /\ S!ByteCount(type) \in {2, 3, 4, 8}
         /\ S!IsInteger(type) =>
              <<S!ByteCount(type), S!Scale(S!ValidBits(type))>> \in IntegerForms
<1>1. type.name \in {"int16", "int24", "int32", "int32in16", "int32in18", "int32in20",
                     "int32in24", "float32", "float64"}
  BY DEF S!IsSupported, S!Layouts
<1> USE DEF S!ByteCount, S!ValidBits, S!IsInteger, S!Scale, S!Layouts, IntegerForms
<1>2. CASE type.name = "int16"
  BY <1>2
<1>3. CASE type.name = "int24"
  BY <1>3
<1>4. CASE type.name = "int32"
  BY <1>4
<1>5. CASE type.name = "int32in16"
  BY <1>5
<1>6. CASE type.name = "int32in18"
  BY <1>6
<1>7. CASE type.name = "int32in20"
  BY <1>7
<1>8. CASE type.name = "int32in24"
  BY <1>8
<1>9. CASE type.name = "float32"
  BY <1>9
<1>10. CASE type.name = "float64"
  BY <1>10
<1> HIDE DEF S!ByteCount, S!ValidBits, S!IsInteger, S!Scale, S!Layouts, IntegerForms
<1> QED BY <1>1, <1>2, <1>3, <1>4, <1>5, <1>6, <1>7, <1>8, <1>9, <1>10

\* Bytes that were put into an order and back again are the same.
LEMMA OrderedTwice ==
  ASSUME NEW D, NEW bytes \in Seq(D), NEW order
  PROVE  /\ S!InOrder(bytes, order) \in Seq(D)
         /\ Len(S!InOrder(bytes, order)) = Len(bytes)
         /\ S!InOrder(S!InOrder(bytes, order), order) = bytes
<1> DEFINE n == Len(bytes)
           once == [i \in 1..n |-> bytes[(n - i) + 1]]
           twice == [i \in 1..n |-> once[(n - i) + 1]]
<1>1. n \in Nat /\ bytes = [i \in 1..n |-> bytes[i]] /\ \A i \in 1..n : bytes[i] \in D
  OBVIOUS
<1> HIDE DEF n
<1>2. ASSUME NEW i \in 1..n PROVE (n - i) + 1 \in 1..n /\ (n - ((n - i) + 1)) + 1 = i
  BY <1>1
<1>3. once \in Seq(D) /\ Len(once) = n
  <2>1. \A i \in 1..n : bytes[(n - i) + 1] \in D
    BY <1>1, <1>2
  <2>2. once \in [1..n -> D]
    BY <2>1
  <2> HIDE DEF once
  <2> QED BY <1>1, <2>2
<1>4. twice = bytes
  <2>1. ASSUME NEW i \in 1..n PROVE once[(n - i) + 1] = bytes[i]
    BY <1>2
  <2> HIDE DEF once
  <2> QED BY <1>1, <2>1
<1>5. S!Reverse(bytes) = once
  BY DEF S!Reverse, n
<1> HIDE DEF once
<1>6. S!Reverse(once) = twice
  BY <1>3 DEF S!Reverse
<1> QED BY <1>3, <1>4, <1>5, <1>6 DEF S!InOrder, n

\* What n bytes say of an integer.
IsRemainder(raw, q, n) ==
  /\ n = 2 => raw = q % 256
  /\ n = 3 => raw = q % 4096
  /\ n = 4 => raw = q % 65536

\* The bytes of an integer are read as its remainder for their number.
LEMMA DigitsAreRead ==
  ASSUME NEW q \in Int, NEW n \in {2, 3, 4}
  PROVE  /\ S!Digits(q, n) \in Seq(Nat)
         /\ Len(S!Digits(q, n)) = n
         /\ IsRemainder(S!ReadUnsigned(S!Digits(q, n)), q, n)
<1> DEFINE bytes == S!Digits(q, n)
           part == [i \in 1..Len(bytes) |-> bytes[i] * S!Weight[i]]
           sum == Sums(part)
<1>1. /\ S!Weight[1] = 1 /\ S!Weight[2] = 16 /\ S!Weight[3] = 256 /\ S!Weight[4] = 4096
  BY DEF S!Weight
<1>2. \A i \in 1..n : S!Weight[i] \in Nat \ {0}
  BY <1>1
<1>3. bytes = [i \in 1..n |-> (q \div S!Weight[i]) % 16]
  BY DEF S!Digits, S!ByteValues
<1>4. \A i \in 1..n : (q \div S!Weight[i]) % 16 \in Nat
  BY <1>2
<1>5. bytes \in Seq(Nat) /\ Len(bytes) = n
  BY <1>3, <1>4
<1>6. S!ReadUnsigned(bytes) = sum[Len(part)]
  BY DEF S!ReadUnsigned, Sums
<1>7. part = [i \in 1..n |-> ((q \div S!Weight[i]) % 16) * S!Weight[i]]
  BY <1>3, <1>5
<1> HIDE DEF bytes, part
<1>8. \A i \in 1..n : ((q \div S!Weight[i]) % 16) * S!Weight[i] \in Int
  BY <1>2, <1>4
<1>9. part \in Seq(Int) /\ Len(part) = n
  BY <1>7, <1>8
<1>10. /\ sum[0] = 0 /\ \A i \in 1..n : sum[i] = sum[i - 1] + part[i]
  BY <1>9, SumsOf
<1> HIDE DEF sum
<1>11. /\ part[1] = (q \div 1) % 16
       /\ part[2] = ((q \div 16) % 16) * 16
       /\ n > 2 => part[3] = ((q \div 256) % 16) * 256
       /\ n > 3 => part[4] = ((q \div 4096) % 16) * 4096
  <2>1. \A i \in 1..n : part[i] = ((q \div S!Weight[i]) % 16) * S!Weight[i]
    BY <1>7
  <2>2. 1 \in 1..n /\ 2 \in 1..n /\ (n > 2 => 3 \in 1..n) /\ (n > 3 => 4 \in 1..n)
    OBVIOUS
  <2>3. part[1] = ((q \div 1) % 16) * 1
    BY <1>1, <2>1, <2>2
  <2>4. part[2] = ((q \div 16) % 16) * 16
    BY <1>1, <2>1, <2>2
  <2>5. n > 2 => part[3] = ((q \div 256) % 16) * 256
    BY <1>1, <2>1, <2>2
  <2>6. n > 3 => part[4] = ((q \div 4096) % 16) * 4096
    BY <1>1, <2>1, <2>2
  <2> QED BY <2>3, <2>4, <2>5, <2>6
<1>12. /\ sum[2] = part[1] + part[2]
       /\ n > 2 => sum[3] = sum[2] + part[3]
       /\ n > 3 => sum[4] = sum[3] + part[4]
  <2>1. sum[1] = 0 + part[1] /\ sum[2] = sum[1] + part[2]
    BY <1>10
  <2>2. part[1] \in Int
    BY <1>9
  <2> QED BY <1>10, <2>1, <2>2
<1>13. \A k \in Int : ((k \div 1) % 16) + ((k \div 16) % 16) * 16 = k % 256
  OBVIOUS
<1>14. \A k \in Int : (k % 256) + ((k \div 256) % 16) * 256 = k % 4096
  OBVIOUS
<1>15. \A k \in Int : (k % 4096) + ((k \div 4096) % 16) * 4096 = k % 65536
  OBVIOUS
<1>16. sum[2] = q % 256
  BY <1>11, <1>12, <1>13
<1>17. n > 2 => sum[3] = q % 4096
  BY <1>11, <1>12, <1>14, <1>16
<1>18. n > 3 => sum[4] = q % 65536
  BY <1>11, <1>12, <1>15, <1>17
<1> QED BY <1>5, <1>6, <1>9, <1>16, <1>17, <1>18 DEF IsRemainder, bytes

IsScale(scale) == scale \in {128, 256, 512, 2048, 32768}

InScale(q, scale) == q \in Int /\ -scale <= q /\ q < scale

\* Extending the sign undoes what the width of the container did to the value.
LEMMA SignIsExtended ==
  ASSUME NEW valid, NEW n \in {2, 3, 4}, <<n, S!Scale(valid)>> \in IntegerForms,
         NEW q, InScale(q, S!Scale(valid))
  PROVE  S!SignExtend(S!ReadUnsigned(S!Digits(q, n)), valid) = q
<1> DEFINE scale == S!Scale(valid)
           raw == S!ReadUnsigned(S!Digits(q, n))
           value == raw % (2 * scale)
<1>1. scale \in {128, 256, 512, 2048, 32768}
  BY DEF IntegerForms
<1>2. q \in Int /\ q >= -scale /\ q < scale
  BY <1>1 DEF InScale
<1> HIDE DEF scale, raw
<1>3. /\ n = 2 => raw = q % 256 /\ scale = 128
      /\ n = 3 => raw = q % 4096 /\ scale = 2048
      /\ n = 4 => raw = q % 65536
  <2>0. IsRemainder(raw, q, n)
    BY <1>2, DigitsAreRead DEF raw
  <2>1. /\ n = 2 => raw = q % 256
        /\ n = 3 => raw = q % 4096
        /\ n = 4 => raw = q % 65536
    BY <2>0 DEF IsRemainder
  <2>2. (n = 2 => scale = 128) /\ (n = 3 => scale = 2048)
    <3>1. <<n, scale>> \in IntegerForms
      BY DEF scale
    <3> QED BY <3>1 DEF IntegerForms
  <2> QED BY <2>1, <2>2
<1>4. value = q % (2 * scale)
  <2>1. CASE scale = 128
    BY <1>2, <1>3, <2>1
  <2>2. CASE scale = 256
    BY <1>2, <1>3, <2>2
  <2>3. CASE scale = 512
    BY <1>2, <1>3, <2>3
  <2>4. CASE scale = 2048
    BY <1>2, <1>3, <2>4
  <2>5. CASE scale = 32768
    BY <1>2, <1>3, <2>5
  <2> QED BY <1>1, <2>1, <2>2, <2>3, <2>4, <2>5
<1> HIDE DEF value
<1>5. value = IF q < 0 THEN q + 2 * scale ELSE q
  BY <1>1, <1>2, <1>4
<1>6. S!SignExtend(raw, valid) = IF value >= scale THEN value - 2 * scale ELSE value
  BY DEF S!SignExtend, value, scale
<1> QED BY <1>1, <1>2, <1>5, <1>6 DEF raw

\* What is heard is the level that was sent, to within half a step of the depth,
\* or a whole one at positive full scale.
CameBack(type, heard, level) ==
  IF S!IsInteger(type)
    THEN /\ AtMostApart(heard, level, S!Step(S!ValidBits(type)))
         /\ AtMostApart(2 * heard, 2 * level, S!Step(S!ValidBits(type)))
              \/ heard + S!Step(S!ValidBits(type)) = S!FullScale
    ELSE heard = level

\* A level is quantized to a step of the scale that is that near.
LEMMA LevelIsQuantized ==
  ASSUME NEW k \in Int, NEW valid, IsScale(S!Scale(valid))
  PROVE  LET q == S!QuantizeSample(k, valid)
             step == S!Step(valid)
             level == S!Normalized(k)
         IN /\ InScale(q, S!Scale(valid))
            /\ AtMostApart(q * step, level, step)
            /\ AtMostApart(2 * (q * step), 2 * level, step) \/ q * step + step = S!FullScale
<1> DEFINE q == S!QuantizeSample(k, valid)
           step == S!Step(valid)
           scale == S!Scale(valid)
           level == S!Normalized(k)
           rounded == IF level >= 0 THEN (2 * level + step) \div (2 * step)
                      ELSE -((step - 2 * level) \div (2 * step))
<1>1. level \in Int /\ level >= -32768 /\ level <= 32768
  BY DEF S!Normalized, S!FullScale
<1>2. step = 32768 \div scale
  BY DEF S!Step, S!FullScale
<1>3. q = IF level <= -32768 THEN -scale
          ELSE IF level >= 32768 \/ rounded > scale - 1 THEN scale - 1
          ELSE rounded
  BY DEF S!QuantizeSample, S!FullScale
<1>4. <<scale, step>> \in {<<128, 256>>, <<256, 128>>, <<512, 64>>, <<2048, 16>>, <<32768, 1>>}
  <2>1. scale \in {128, 256, 512, 2048, 32768}
    BY DEF IsScale
  <2> HIDE DEF scale, step
  <2> QED BY <1>2, <2>1
<1> DEFINE Near(x, s, t, l) == /\ InScale(x, s)
                               /\ x * t - l <= t /\ l - x * t <= t
                               /\ \/ 2 * (x * t) - 2 * l <= t /\ 2 * l - 2 * (x * t) <= t
                                  \/ x * t + t = 32768
<1>5. Near(q, scale, step, level)
  <2> HIDE DEF scale, step, level, q
  <2>1. CASE scale = 128 /\ step = 256
    BY <1>1, <1>3, <2>1 DEF InScale
  <2>2. CASE scale = 256 /\ step = 128
    BY <1>1, <1>3, <2>2 DEF InScale
  <2>3. CASE scale = 512 /\ step = 64
    BY <1>1, <1>3, <2>3 DEF InScale
  <2>4. CASE scale = 2048 /\ step = 16
    BY <1>1, <1>3, <2>4 DEF InScale
  <2>5. CASE scale = 32768 /\ step = 1
    <3>1. \A x \in Int : (2 * x + 1) \div (2 * 1) = x /\ (1 - 2 * x) \div (2 * 1) = -x
      OBVIOUS
    <3>2. rounded = level
      BY <1>1, <2>5, <3>1
    <3>3. \/ q = level /\ level >= -32768 /\ level < 32768
          \/ q = 32767 /\ level = 32768
      BY <1>1, <1>3, <2>5, <3>2
    <3> HIDE DEF rounded
    <3>4. CASE q = level /\ level >= -32768 /\ level < 32768
      <4>1. q * step = q
        BY <1>1, <2>5, <3>4
      <4>2. InScale(q, scale)
        BY <1>1, <2>5, <3>4 DEF InScale
      <4>3. q * step - level = 0 /\ level - q * step = 0
            /\ 2 * (q * step) - 2 * level = 0 /\ 2 * level - 2 * (q * step) = 0
        BY <1>1, <3>4, <4>1
      <4> HIDE DEF rounded
      <4> QED BY <2>5, <4>2, <4>3
    <3>5. CASE q = 32767 /\ level = 32768
      <4>1. q * step = 32767
        BY <2>5, <3>5
      <4>2. InScale(q, scale)
        BY <2>5, <3>5 DEF InScale
      <4> QED BY <2>5, <3>5, <4>1, <4>2
    <3> QED BY <3>3, <3>4, <3>5
  <2> HIDE DEF Near
  <2> QED BY <1>4, <2>1, <2>2, <2>3, <2>4, <2>5
<1> QED BY <1>5 DEF AtMostApart, S!FullScale

\* A sample goes through the bytes of every type and comes back.
LEMMA SampleIsKept ==
  ASSUME NEW type, S!IsSupported(type), NEW k \in Int
  PROVE  /\ \E D : S!EncodeSample(k, type) \in Seq(D)
         /\ Len(S!EncodeSample(k, type)) = S!ByteCount(type)
         /\ CameBack(type, S!DecodeSample(S!EncodeSample(k, type), type), S!Normalized(k))
<1> DEFINE count == S!ByteCount(type)
           valid == S!ValidBits(type)
           bytes == S!EncodeSample(k, type)
<1>1. count \in {2, 3, 4, 8}
  BY SampleForms
<1>2. CASE S!IsInteger(type)
  <2> DEFINE q == S!QuantizeSample(k, valid)
             digits == S!Digits(q, count)
  <2>1. <<count, S!Scale(valid)>> \in IntegerForms
    BY <1>2, SampleForms
  <2> HIDE DEF count, valid
  <2>2. count \in {2, 3, 4}
    BY <2>1 DEF IntegerForms
  <2>0. IsScale(S!Scale(valid))
    BY <2>1 DEF IntegerForms, IsScale
  <2>3. InScale(q, S!Scale(valid))
    BY <2>0, LevelIsQuantized
  <2>4. q \in Int
    BY <2>0, <2>3 DEF InScale, IsScale
  <2> HIDE DEF q
  <2>5. digits \in Seq(Nat) /\ Len(digits) = count
    BY <2>2, <2>4, DigitsAreRead
  <2>6. S!SignExtend(S!ReadUnsigned(digits), valid) = q
    BY <2>1, <2>2, <2>3, SignIsExtended
  <2>7. bytes = S!InOrder(digits, type.order)
    BY <1>2 DEF S!EncodeSample, q, count, valid
  <2> HIDE DEF digits, bytes
  <2>8. bytes \in Seq(Nat) /\ Len(bytes) = count /\ S!InOrder(bytes, type.order) = digits
    BY <2>5, <2>7, OrderedTwice
  <2>9. S!DecodeSample(bytes, type) = q * S!Step(valid)
    BY <1>2, <2>6, <2>8 DEF S!DecodeSample, valid
  <2>10. CameBack(type, q * S!Step(valid), S!Normalized(k))
    <3>1. /\ AtMostApart(q * S!Step(valid), S!Normalized(k), S!Step(valid))
          /\ AtMostApart(2 * (q * S!Step(valid)), 2 * S!Normalized(k), S!Step(valid))
               \/ q * S!Step(valid) + S!Step(valid) = S!FullScale
      BY <2>0, LevelIsQuantized DEF q
    <3> QED BY <1>2, <3>1 DEF CameBack, valid
  <2> QED BY <2>8, <2>9, <2>10 DEF bytes, count
<1>3. CASE ~S!IsInteger(type)
  <2> DEFINE level == S!Normalized(k)
             plain == [i \in 1..count |-> <<level, i>>]
  <2>1. level \in Int /\ S!Normalized(level) = level
    BY DEF S!Normalized, S!FullScale, S!NotANumber
  <2>2. bytes = S!InOrder(plain, type.order)
    BY <1>3 DEF S!EncodeSample
  <2> HIDE DEF level, count, bytes
  <2>3. plain \in Seq(Int \X Int) /\ Len(plain) = count
    BY <1>1, <2>1
  <2>4. /\ \A i \in DOMAIN plain : plain[i] = <<level, i>>
        /\ plain[1] = <<level, 1>>
    BY <1>1
  <2> HIDE DEF plain
  <2>5. /\ bytes \in Seq(Int \X Int) /\ Len(bytes) = count
        /\ S!InOrder(bytes, type.order) = plain
    BY <2>2, <2>3, OrderedTwice
  <2>6. S!DecodeSample(bytes, type) = level
    <3>1. plain[1][1] = level /\ \A i \in DOMAIN plain : plain[i] = <<plain[1][1], i>>
      BY <2>4
    <3> QED BY <1>3, <2>1, <2>5, <3>1 DEF S!DecodeSample
  <2> QED BY <1>3, <2>5, <2>6 DEF CameBack, level, count, bytes
<1> QED BY <1>2, <1>3

\* The buffers of a route.
Buffers == Seq([type : [name : STRING, order : STRING], bytes : Seq(Nat)])

\* Buffers of the same types and lengths are as good for a call.
LEMMA SameShape ==
  ASSUME NEW channels, DOMAIN channels \subseteq Nat,
         NEW other, Len(other) = Len(channels),
         channels = <<>> <=> other = <<>>, DOMAIN other = DOMAIN channels,
         \A c \in DOMAIN channels : /\ other[c].type = channels[c].type
                                     /\ Len(other[c].bytes) = Len(channels[c].bytes),
         NEW count, NEW frames
  PROVE  S!Validation(count, frames, other) = S!Validation(count, frames, channels)
<1> DEFINE Bad(which) == {c \in DOMAIN which :
                            \/ ~S!IsSupported(which[c].type)
                            \/ Len(which[c].bytes) < frames * S!ByteCount(which[c].type)}
           first == CHOOSE c \in Bad(channels) : \A d \in Bad(channels) : c <= d
<1>1. Bad(other) = Bad(channels)
  OBVIOUS
<1>2. \A c \in Bad(channels) : c \in DOMAIN channels
  OBVIOUS
<1>3. S!Validation(count, frames, channels) =
        IF count # frames * Len(channels) \/ (channels = <<>> /\ frames # 0)
          THEN "invalid_shape"
        ELSE IF Bad(channels) = {} THEN "success"
        ELSE IF ~S!IsSupported(channels[first].type) THEN "unsupported_sample_type"
        ELSE "buffer_too_small"
  BY DEF S!Validation
<1>4. S!Validation(count, frames, other) =
        IF count # frames * Len(other) \/ (other = <<>> /\ frames # 0)
          THEN "invalid_shape"
        ELSE IF Bad(channels) = {} THEN "success"
        ELSE IF ~S!IsSupported(other[first].type) THEN "unsupported_sample_type"
        ELSE "buffer_too_small"
  <2> DEFINE bad == Bad(other)
             last == CHOOSE c \in bad : \A d \in bad : c <= d
  <2>1. S!Validation(count, frames, other) =
          IF count # frames * Len(other) \/ (other = <<>> /\ frames # 0)
            THEN "invalid_shape"
          ELSE IF bad = {} THEN "success"
          ELSE IF ~S!IsSupported(other[last].type) THEN "unsupported_sample_type"
          ELSE "buffer_too_small"
    BY DEF S!Validation
  <2>2. bad = Bad(channels)
    BY <1>1
  <2> HIDE DEF bad, Bad
  <2> QED BY <2>1, <2>2
<1>5. CASE Bad(channels) = {}
  <2> HIDE DEF Bad
  <2> QED BY <1>3, <1>4, <1>5
<1>6. CASE Bad(channels) # {}
  <2>1. Bad(channels) \in SUBSET Nat
    BY <1>2
  <2> HIDE DEF Bad
  <2>2. \E c \in Bad(channels) : \A d \in Bad(channels) : c <= d
    BY <1>6, <2>1, LeastElement
  <2>3. first \in DOMAIN channels
    BY <1>2, <2>2
  <2> HIDE DEF first
  <2>4. other[first].type = channels[first].type
    BY <2>3
  <2> QED BY <1>3, <1>4, <2>4
<1> QED BY <1>5, <1>6

\* What a call that is not refused may rely on.
LEMMA AcceptedShape ==
  ASSUME NEW count, NEW frames, NEW channels,
         S!Validation(count, frames, channels) = "success"
  PROVE  /\ count = frames * Len(channels)
         /\ \A c \in DOMAIN channels :
              /\ S!IsSupported(channels[c].type)
              /\ ~(Len(channels[c].bytes) < frames * S!ByteCount(channels[c].type))
BY DEF S!Validation

\* The number of a sample gives a frame and a channel, and back.
HasPlace(k, frames, n) ==
  /\ (k - 1) \div n \in 0..(frames - 1)
  /\ 1 + ((k - 1) % n) \in 1..n
  /\ ((k - 1) \div n) * n + (1 + ((k - 1) % n)) = k

\* The frame and the channel of a sample are a place in the samples.
LEMMA PlaceOfSample ==
  ASSUME NEW frames \in Nat, NEW n \in Nat \ {0}, NEW k \in 1..(frames * n)
  PROVE  HasPlace(k, frames, n)
<1> DEFINE f == (k - 1) \div n
           r == (k - 1) % n
<1>1. frames * n \in Nat /\ k \in Nat /\ k >= 1 /\ k <= frames * n
  OBVIOUS
<1>2. f \in Int /\ r \in 0..(n - 1) /\ k - 1 = n * f + r
  BY <1>1
<1> HIDE DEF f, r
<1>3. n * f = f * n
  BY <1>2
<1>4. f >= 0
  <2> SUFFICES ASSUME f <= -1 PROVE FALSE
    BY <1>2
  <2>1. n * f <= n * (-1)
    BY <1>2
  <2> QED BY <1>1, <1>2, <2>1
<1>5. f < frames
  <2> SUFFICES ASSUME frames <= f PROVE FALSE
    BY <1>2
  <2>1. frames * n <= f * n
    BY <1>2
  <2> QED BY <1>1, <1>2, <1>3, <2>1
<1> QED BY <1>1, <1>2, <1>3, <1>4, <1>5 DEF f, r, HasPlace

\* So are the frame of a byte and its number in the sample.
LEMMA PlaceOfByte ==
  ASSUME NEW size \in {2, 3, 4, 8}, NEW f \in Nat, NEW j \in 1..size
  PROVE  ((f * size + j) - 1) \div size = f /\ 1 + (((f * size + j) - 1) % size) = j
<1>1. CASE size = 2
  BY <1>1
<1>2. CASE size = 3
  BY <1>2
<1>3. CASE size = 4
  BY <1>3
<1>4. CASE size = 8
  BY <1>4
<1> QED BY <1>1, <1>2, <1>3, <1>4

\* What is sent to the buffers, and what is heard from them.
Sent(i) == S!InterleavedFloatToAsio(i.interleaved, i.frames, i.channels)

HeardBack(i) == S!AsioToInterleavedFloat(Sent(i).channels, i.frames, i.interleaved)

Routes == [interleaved : Seq(Int), frames : Nat, channels : Buffers]

\* The bytes of the channel c after the first call.
WrittenBytes(i, c) ==
  LET type == i.channels[c].type
      size == S!ByteCount(type)
      Code(f) == S!EncodeSample(i.interleaved[f * Len(i.channels) + c], type)
  IN [b \in DOMAIN i.channels[c].bytes |->
        IF b <= i.frames * size THEN Code((b - 1) \div size)[1 + ((b - 1) % size)]
        ELSE i.channels[c].bytes[b]]

\* The buffers of a route are sequences of bytes.
LEMMA RouteTypes ==
  ASSUME NEW i \in Routes
  PROVE  /\ i.interleaved \in Seq(Int) /\ i.frames \in Nat
         /\ DOMAIN i.channels = 1..Len(i.channels) /\ Len(i.channels) \in Nat
         /\ \A c \in DOMAIN i.channels :
              /\ i.channels[c] \in [type : [name : STRING, order : STRING], bytes : Seq(Nat)]
              /\ DOMAIN i.channels[c].bytes = 1..Len(i.channels[c].bytes)
              /\ Len(i.channels[c].bytes) \in Nat
<1> DEFINE R == [type : [name : STRING, order : STRING], bytes : Seq(Nat)]
<1>1. i.channels \in Seq(R)
  BY DEF Routes, Buffers
<1>2. \A r \in R : DOMAIN r.bytes = 1..Len(r.bytes) /\ Len(r.bytes) \in Nat
  OBVIOUS
<1> HIDE DEF R
<1>3. /\ DOMAIN i.channels = 1..Len(i.channels) /\ Len(i.channels) \in Nat
      /\ \A c \in DOMAIN i.channels : i.channels[c] \in R
  BY <1>1
<1>4. i.interleaved \in Seq(Int) /\ i.frames \in Nat
  BY DEF Routes
<1> QED BY <1>2, <1>3, <1>4 DEF R

\* A call that is accepted replaces bytes only, and one that is refused nothing.
LEMMA BuffersAfter ==
  ASSUME NEW i \in Routes
  PROVE  LET outcome == S!Validation(Len(i.interleaved), i.frames, i.channels)
             sent == Sent(i).channels
         IN /\ Sent(i).outcome = outcome
            /\ outcome # "success" => sent = i.channels
            /\ outcome = "success" =>
                 /\ DOMAIN sent = DOMAIN i.channels /\ Len(sent) = Len(i.channels)
                 /\ \A c \in DOMAIN i.channels :
                      /\ sent[c].type = i.channels[c].type
                      /\ sent[c].bytes = WrittenBytes(i, c)
                      /\ DOMAIN sent[c].bytes = 1..Len(i.channels[c].bytes)
                      /\ Len(sent[c].bytes) = Len(i.channels[c].bytes)
<1> DEFINE outcome == S!Validation(Len(i.interleaved), i.frames, i.channels)
           after == [c \in DOMAIN i.channels |->
                       [i.channels[c] EXCEPT !.bytes = WrittenBytes(i, c)]]
<1>1. Sent(i) = [outcome |-> outcome,
                 channels |-> IF outcome # "success" THEN i.channels ELSE after]
  BY DEF Sent, S!InterleavedFloatToAsio, WrittenBytes
<1>2. /\ DOMAIN i.channels = 1..Len(i.channels) /\ Len(i.channels) \in Nat
      /\ \A c \in DOMAIN i.channels :
           /\ i.channels[c] \in [type : [name : STRING, order : STRING], bytes : Seq(Nat)]
           /\ DOMAIN i.channels[c].bytes = 1..Len(i.channels[c].bytes)
           /\ Len(i.channels[c].bytes) \in Nat
  BY RouteTypes
<1>3. DOMAIN after = DOMAIN i.channels /\ Len(after) = Len(i.channels)
  BY <1>2
<1>4. ASSUME NEW c \in DOMAIN i.channels
      PROVE  /\ after[c].type = i.channels[c].type
             /\ after[c].bytes = WrittenBytes(i, c)
             /\ DOMAIN WrittenBytes(i, c) = 1..Len(i.channels[c].bytes)
             /\ Len(WrittenBytes(i, c)) = Len(i.channels[c].bytes)
  <2>1. after[c] = [i.channels[c] EXCEPT !.bytes = WrittenBytes(i, c)]
    OBVIOUS
  <2>2. DOMAIN WrittenBytes(i, c) = 1..Len(i.channels[c].bytes)
    BY <1>2 DEF WrittenBytes
  <2>3. Len(WrittenBytes(i, c)) = Len(i.channels[c].bytes)
    BY <1>2 DEF WrittenBytes
  <2> HIDE DEF after
  <2> QED BY <1>2, <2>1, <2>2, <2>3
<1> HIDE DEF outcome, after
<1>5. Sent(i).outcome = outcome /\ (outcome # "success" => Sent(i).channels = i.channels)
      /\ (outcome = "success" => Sent(i).channels = after)
  BY <1>1
<1> QED BY <1>3, <1>4, <1>5 DEF outcome

\* The call that reads is refused exactly when the one that writes is.
LEMMA RefusedAlike ==
  ASSUME NEW i \in Routes
  PROVE  /\ HeardBack(i).outcome = Sent(i).outcome
         /\ HeardBack(i).outcome # "success" => HeardBack(i).interleaved = i.interleaved
<1> DEFINE outcome == S!Validation(Len(i.interleaved), i.frames, i.channels)
           sent == Sent(i).channels
<1>1. S!Validation(Len(i.interleaved), i.frames, sent) = outcome
  <2>1. DOMAIN i.channels \subseteq Nat /\ (i.channels = <<>> <=> Len(i.channels) = 0)
    BY DEF Routes, Buffers
  <2>2. CASE outcome = "success"
    <3>1. /\ DOMAIN sent = DOMAIN i.channels /\ Len(sent) = Len(i.channels)
          /\ \A c \in DOMAIN i.channels :
               /\ sent[c].type = i.channels[c].type
               /\ Len(sent[c].bytes) = Len(i.channels[c].bytes)
      BY <2>2, BuffersAfter
    <3>2. i.channels = <<>> <=> sent = <<>>
      BY <2>1, <3>1
    <3> HIDE DEF sent, outcome
    <3>3. S!Validation(Len(i.interleaved), i.frames, sent)
            = S!Validation(Len(i.interleaved), i.frames, i.channels)
      BY <2>1, <3>1, <3>2, SameShape
    <3> QED BY <3>3 DEF outcome
  <2>3. CASE outcome # "success"
    BY <2>3, BuffersAfter
  <2> QED BY <2>2, <2>3
<1>2. Sent(i).outcome = outcome
  BY BuffersAfter
<1> HIDE DEF outcome, sent
<1>3. /\ HeardBack(i).outcome = S!Validation(Len(i.interleaved), i.frames, sent)
      /\ HeardBack(i).outcome # "success" => HeardBack(i).interleaved = i.interleaved
  BY DEF HeardBack, S!AsioToInterleavedFloat, sent
<1> QED BY <1>1, <1>2, <1>3

\* A part of a sequence.
LEMMA PartOf ==
  ASSUME NEW D, NEW s \in Seq(D), NEW a \in Nat, NEW m \in Nat, a + m <= Len(s)
  PROVE  LET part == SubSeq(s, a + 1, a + m)
         IN /\ Len(part) = m /\ DOMAIN part = 1..m
            /\ \A j \in 1..m : part[j] = s[a + j]
            /\ part = [j \in 1..m |-> part[j]]
<1> DEFINE part == SubSeq(s, a + 1, a + m)
<1>1. part \in Seq(D) /\ Len(part) = m
  <2>1. a + 1 \in Nat /\ a + m \in Nat /\ Len(s) \in Nat
    OBVIOUS
  <2>2. \A j \in (a + 1)..(a + m) : s[j] \in D
    BY <2>1
  <2> QED BY <2>1, <2>2
<1>2. \A j \in 1..m : part[j] = s[a + j]
  OBVIOUS
<1> HIDE DEF part
<1>3. DOMAIN part = 1..m /\ part = [j \in 1..m |-> part[j]]
  BY <1>1
<1> QED BY <1>1, <1>2, <1>3 DEF part

\* A sample is heard from where it was sent to.
LEMMA SampleArrives ==
  ASSUME NEW i \in Routes, Sent(i).outcome = "success", NEW k \in DOMAIN i.interleaved
  PROVE  LET type == i.channels[1 + ((k - 1) % Len(i.channels))].type
         IN CameBack(type, HeardBack(i).interleaved[k], S!Normalized(i.interleaved[k]))
<1> DEFINE n == Len(i.channels)
           c == 1 + ((k - 1) % n)
           f == (k - 1) \div n
           type == i.channels[c].type
           size == S!ByteCount(type)
           bytes == Sent(i).channels[c].bytes
           part == SubSeq(bytes, f * size + 1, f * size + size)
           code == S!EncodeSample(i.interleaved[k], type)
<1>1. /\ i.interleaved \in Seq(Int) /\ i.frames \in Nat /\ n \in Nat
      /\ DOMAIN i.channels = 1..n /\ \A d \in 1..n : Len(i.channels[d].bytes) \in Nat
  BY RouteTypes
<1>2. S!Validation(Len(i.interleaved), i.frames, i.channels) = "success"
  BY BuffersAfter
<1>3. /\ Len(i.interleaved) = i.frames * n
      /\ \A d \in 1..n : /\ S!IsSupported(i.channels[d].type)
                          /\ ~(Len(i.channels[d].bytes)
                                  < i.frames * S!ByteCount(i.channels[d].type))
  BY <1>1, <1>2, AcceptedShape
<1>4. k \in 1..(i.frames * n) /\ i.interleaved[k] \in Int
  BY <1>1, <1>3
<1>5. n \in Nat \ {0}
  <2> SUFFICES ASSUME n = 0 PROVE FALSE
    BY <1>1
  <2> QED BY <1>1, <1>4
<1>6. f \in 0..(i.frames - 1) /\ c \in 1..n /\ f * n + c = k
  <2> DEFINE frames == i.frames
  <2>1. frames \in Nat /\ k \in 1..(frames * n)
    BY <1>1, <1>4
  <2> HIDE DEF frames, n
  <2>2. HasPlace(k, frames, n)
    BY <1>5, <2>1, PlaceOfSample
  <2>3. f \in 0..(frames - 1) /\ c \in 1..n /\ f * n + c = k
    BY <2>2 DEF HasPlace
  <2> QED BY <2>3 DEF frames
<1>7. /\ Sent(i).channels[c].type = type /\ Len(Sent(i).channels) = n
      /\ bytes = WrittenBytes(i, c)
      /\ DOMAIN bytes = 1..Len(i.channels[c].bytes)
      /\ Len(bytes) = Len(i.channels[c].bytes)
  BY <1>1, <1>2, <1>6, BuffersAfter
<1>8. HeardBack(i).interleaved[k] = S!DecodeSample(part, type)
  <2>1. HeardBack(i).outcome = "success"
    BY RefusedAlike
  <2>2. HeardBack(i).interleaved =
          [j \in DOMAIN i.interleaved |->
             LET channel == Sent(i).channels[1 + ((j - 1) % Len(Sent(i).channels))]
                 width == S!ByteCount(channel.type)
                 offset == ((j - 1) \div Len(Sent(i).channels)) * width
             IN S!DecodeSample(SubSeq(channel.bytes, offset + 1, offset + width),
                               channel.type)]
    BY <2>1 DEF HeardBack, S!AsioToInterleavedFloat
  <2> DEFINE channel == Sent(i).channels[1 + ((k - 1) % Len(Sent(i).channels))]
             width == S!ByteCount(channel.type)
             offset == ((k - 1) \div Len(Sent(i).channels)) * width
  <2>3. HeardBack(i).interleaved[k] =
          S!DecodeSample(SubSeq(channel.bytes, offset + 1, offset + width), channel.type)
    BY <2>2
  <2>4. channel = Sent(i).channels[c] /\ width = size /\ offset = f * size
    <3>1. Len(Sent(i).channels) = n
      BY <1>7
    <3>2. channel = Sent(i).channels[c]
      BY <3>1
    <3>3. width = size
      BY <1>7, <3>2
    <3> HIDE DEF width, size
    <3> QED BY <3>1, <3>2, <3>3
  <2> HIDE DEF channel, width, offset
  <2> QED BY <1>7, <2>3, <2>4
<1>9. CameBack(type, S!DecodeSample(code, type), S!Normalized(i.interleaved[k]))
      /\ Len(code) = size /\ \E D : code \in Seq(D)
  BY <1>3, <1>4, <1>6, SampleIsKept
<1>10. S!IsSupported(type) /\ size \in {2, 3, 4, 8} /\ ~(Len(bytes) < i.frames * size)
  BY <1>3, <1>6, <1>7, SampleForms
<1>11. part = code
  <2>1. f * size + size <= Len(bytes) /\ f * size \in Nat /\ Len(bytes) \in Nat
        /\ f * size + size <= i.frames * size
    <3> HIDE DEF f, c, n, size, bytes
    <3>1. f + 1 <= i.frames /\ f \in Nat
      BY <1>1, <1>6
    <3>2. f * size + size = (f + 1) * size /\ f * size \in Nat
      BY <1>10, <3>1
    <3>3. (f + 1) * size <= i.frames * size
      BY <1>1, <1>10, <3>1
    <3>4. i.frames * size \in Nat /\ (f + 1) * size \in Nat
      BY <1>1, <1>10, <3>1
    <3>5. Len(bytes) \in Nat
      BY <1>1, <1>6, <1>7
    <3> QED BY <1>10, <3>2, <3>3, <3>4, <3>5
  <2>2. ASSUME NEW j \in 1..size PROVE bytes[f * size + j] = code[j]
    <3> DEFINE b == f * size + j
    <3>1. (b - 1) \div size = f /\ 1 + ((b - 1) % size) = j
      <4>1. f \in Nat
        BY <1>1, <1>6
      <4> HIDE DEF f, c, n, size, bytes
      <4> QED BY <1>10, <4>1, PlaceOfByte
    <3>2. b \in 1..Len(i.channels[c].bytes) /\ b <= i.frames * size
      <4> HIDE DEF f, c, n, size, bytes
      <4>0. size \in Nat /\ i.frames \in Nat
        BY <1>1, <1>10
      <4>1. size \in Nat /\ Len(i.channels[c].bytes) = Len(bytes) /\ i.frames * size \in Nat
        BY <1>7, <4>0
      <4> DEFINE p == f * size
                 l == Len(i.channels[c].bytes)
                 m == i.frames * size
      <4>2. /\ p \in Nat /\ l \in Nat /\ m \in Nat /\ b = p + j
            /\ p + size <= l /\ p + size <= m
        BY <2>1, <4>1
      <4> HIDE DEF p, l, m, b
      <4>3. b \in 1..l /\ b <= m
        BY <4>0, <4>2
      <4> QED BY <4>3 DEF l, m
    <3>3. bytes[b] = S!EncodeSample(i.interleaved[((b - 1) \div size) * n + c], type)
                       [1 + ((b - 1) % size)]
      <4>1. DOMAIN WrittenBytes(i, c) = DOMAIN i.channels[c].bytes
        BY DEF WrittenBytes
      <4>2. b \in DOMAIN i.channels[c].bytes /\ b <= i.frames * size
        <5> HIDE DEF b, c, size, bytes
        <5>1. bytes = WrittenBytes(i, c) /\ DOMAIN bytes = 1..Len(i.channels[c].bytes)
          BY <1>7
        <5>2. DOMAIN i.channels[c].bytes = 1..Len(i.channels[c].bytes)
          BY <4>1, <5>1
        <5> QED BY <3>2, <5>2
      <4>3. WrittenBytes(i, c)[b] = S!EncodeSample(i.interleaved[((b - 1) \div size) * n + c], type)
                                      [1 + ((b - 1) % size)]
        <5> HIDE DEF b, c
        <5> QED BY <4>2 DEF WrittenBytes
      <4> HIDE DEF b, c, n, size, bytes
      <4> QED BY <1>7, <4>3
    <3> HIDE DEF b, f, n, c, size, bytes, type
    <3> DEFINE z == f * n + c
    <3>4. bytes[b] = S!EncodeSample(i.interleaved[z], type)[j]
      BY <3>1, <3>3
    <3>5. z = k
      BY <1>6
    <3> HIDE DEF z
    <3>6. bytes[b] = code[j]
      BY <3>4, <3>5 DEF code
    <3> HIDE DEF code
    <3> QED BY <3>6 DEF b
  <2>3. bytes \in [1..Len(bytes) -> {bytes[b] : b \in 1..Len(bytes)}]
    <3>1. bytes = [b \in DOMAIN bytes |-> bytes[b]]
      BY <1>7 DEF WrittenBytes
    <3> HIDE DEF bytes
    <3>2. DOMAIN bytes = 1..Len(bytes)
      BY <1>7
    <3> DEFINE D == 1..Len(bytes)
    <3>3. bytes = [b \in D |-> bytes[b]]
      BY <3>1, <3>2
    <3> HIDE DEF D
    <3>4. bytes \in [D -> {bytes[b] : b \in D}]
      BY <3>3
    <3> QED BY <3>4 DEF D
  <2> HIDE DEF f, c, n, size, bytes, code
  <2>4. bytes \in Seq({bytes[b] : b \in 1..Len(bytes)})
    BY <2>1, <2>3
  <2>5. /\ \A j \in 1..size : part[j] = bytes[f * size + j]
        /\ part = [j \in 1..size |-> part[j]]
    <3> DEFINE B == {bytes[b] : b \in 1..Len(bytes)}
               a == f * size
    <3>1. bytes \in Seq(B) /\ a \in Nat /\ size \in Nat /\ a + size <= Len(bytes)
      BY <1>10, <2>1, <2>4
    <3> HIDE DEF B, a, size, bytes
    <3>2. /\ \A j \in 1..size : SubSeq(bytes, a + 1, a + size)[j] = bytes[a + j]
          /\ SubSeq(bytes, a + 1, a + size)
               = [j \in 1..size |-> SubSeq(bytes, a + 1, a + size)[j]]
      BY <3>1, PartOf
    <3> QED BY <3>2 DEF a
  <2>6. PICK D : code \in Seq(D)
    BY <1>9
  <2>7. code = [j \in 1..size |-> code[j]]
    BY <1>9, <2>6
  <2> HIDE DEF part
  <2> QED BY <2>2, <2>5, <2>7
<1> QED BY <1>8, <1>9, <1>11

\* Whatever a route converts keeps its place and its level.
LEMMA RouteIsKept ==
  ASSUME NEW i \in Routes, Sent(i).outcome = "success"
  PROVE  \A c \in 1..Len(i.channels) : \A b \in DOMAIN i.channels[c].bytes :
           b > i.frames * S!ByteCount(i.channels[c].type) =>
             Sent(i).channels[c].bytes[b] = i.channels[c].bytes[b]
<1> SUFFICES ASSUME NEW c \in 1..Len(i.channels), NEW b \in DOMAIN i.channels[c].bytes,
                    b > i.frames * S!ByteCount(i.channels[c].type)
             PROVE  Sent(i).channels[c].bytes[b] = i.channels[c].bytes[b]
  OBVIOUS
<1>1. /\ c \in DOMAIN i.channels /\ DOMAIN i.channels[c].bytes \subseteq Nat
      /\ i.frames \in Nat
  BY RouteTypes
<1>2. S!Validation(Len(i.interleaved), i.frames, i.channels) = "success"
      /\ Sent(i).channels[c].bytes = WrittenBytes(i, c)
  BY <1>1, BuffersAfter
<1>3. S!ByteCount(i.channels[c].type) \in Nat
  <2>1. S!IsSupported(i.channels[c].type)
    BY <1>1, <1>2, AcceptedShape
  <2>2. S!ByteCount(i.channels[c].type) \in {2, 3, 4, 8}
    BY <2>1, SampleForms
  <2> QED BY <2>2
<1> DEFINE last == i.frames * S!ByteCount(i.channels[c].type)
<1>4. last \in Nat /\ b \in Nat /\ b > last
  BY <1>1, <1>3
<1>5. ~(b <= last)
  BY <1>4
<1>6. WrittenBytes(i, c)[b] = i.channels[c].bytes[b]
  BY <1>5 DEF WrittenBytes
<1> QED BY <1>2, <1>6

------------------------------
(* The jobs of a worker.                                                   *)

\* Every job is one of the given ones, and a recording that the fake device
\* made has the numbers a given one has.
InputsInv ==
  /\ job.kind = "loopback" => job.input \in Loopbacks
  /\ job.kind = "capture" =>
       /\ job.input.declared \in Nat
       /\ job.input.sourceFrames \in Nat
       /\ job.input.short \in Nat \ {0}
  /\ job.kind = "pair" => job.input \in Pairings
  /\ job.kind = "verify" => job.input \in Checks
  /\ job.kind = "convert" => job.input \in Conversions
  /\ job.kind = "write" => job.input \in Requests
  /\ job.kind = "inspect" => job.input \in Files
  /\ job.kind = "command" => job.input \in CommandLines

Verdict(check) ==
  V!Evaluate(check, V!VerificationSignal(Rate).total, V!VerificationSignal(Rate))

Stored(w, k) ==
  Decode(Encoded(Quantize(w.levels[k], Scale(w.bits)), Scale(w.bits)), Scale(w.bits), 1)

\* What a call has answered when it is done.
AnswersInv ==
  /\ Answered("pair") => answer = A!BestPairing(job.input)
  /\ Answered("verify") => answer = Verdict(job.input)
  /\ Answered("convert") =>
       answer = [sent |-> Sent(job.input), heard |-> HeardBack(job.input)]
  /\ Answered("write") =>
       answer = [accepted |-> ValidateCapacity(job.input), file |-> WriteWav(job.input),
                 worker |-> IF ValidateCapacity(job.input) THEN ReadWav(WriteWav(job.input))
                            ELSE Unreadable,
                 levels |-> [k \in DOMAIN job.input.levels |-> Stored(job.input, k)]]
  /\ Answered("inspect") =>
       answer = [worker |-> ReadWav(job.input), panel |-> PanelReads(job.input),
                 picked |-> PanelPicks(job.input)]
  /\ Answered("command") => answer = C!RunCli(job.input.args, job.input.service)

\* The frames of the fake recording are counted.
LEMMA TapeIsCounted ==
  ASSUME NEW i \in Loopbacks
  PROVE  L!Capture(PlaybackPlan(i), PaddingFrames, i.latency,
                   [declared |-> i.sourceFrames, delivered |-> i.delivered],
                   i.chunk).total \in Nat
<1>1. Rate \in Nat /\ i.sourceFrames \in Nat
  BY InputsAssumption
<1>2. PaddingFrames \in Nat
  BY <1>1 DEF PaddingFrames
<1> DEFINE interval == A!AtLeast(1, A!Rounded(Rate, 100))
           gap == A!AtLeast(1, A!Rounded(Rate, 2000))
           plan == PlaybackPlan(i)
<1>3. interval \in Nat /\ gap \in Nat
  BY <1>1 DEF A!AtLeast, A!Rounded
<1>4. plan = [markers |-> [k \in 1..5 |-> (k - 1) * interval],
              sourceStart |-> [k \in 1..5 |-> (k - 1) * interval][5] + gap,
              sourceFrames |-> i.sourceFrames]
  BY DEF PlaybackPlan, A!PlaybackPlan, A!MarkerCount
<1> HIDE DEF interval, gap
<1>5. [k \in 1..5 |-> (k - 1) * interval][5] = 4 * interval
  BY <1>3
<1>6. plan.sourceStart \in Nat /\ plan.sourceFrames \in Nat
  BY <1>1, <1>3, <1>4, <1>5
<1> HIDE DEF plan
<1>7. L!Capture(plan, PaddingFrames, i.latency,
                [declared |-> i.sourceFrames, delivered |-> i.delivered], i.chunk).total
        = 2 * PaddingFrames + plan.sourceStart + plan.sourceFrames
  BY DEF L!Capture
<1> QED BY <1>2, <1>6, <1>7 DEF plan

\* The steps of a worker leave the job alone, but for the recording that the
\* fake device makes.
LEMMA JobIsKept ==
  ASSUME Next
  PROVE  RecordLoopback \/ job' = job
BY DEF Next, ValidateRecording, DetectMarkers, TryLatencies, SelectTrain, CutPayload,
       MakeReader, WriteChunk, PairMarkers, VerifySweep, ConvertSamples, WriteFile,
       InspectFile, RunCommand, Finished, Answer, vars

\* The inputs of the jobs are what the constants say.
LEMMA InputsAreGiven == Spec => []InputsInv
<1>1. Init => InputsInv
  <2> SUFFICES ASSUME Init PROVE InputsInv
    OBVIOUS
  <2>1. \/ job.kind = "capture" /\ job.input \in Recordings
        \/ job.kind = "loopback" /\ job.input \in Loopbacks
        \/ job.kind = "pair" /\ job.input \in Pairings
        \/ job.kind = "verify" /\ job.input \in Checks
        \/ job.kind = "convert" /\ job.input \in Conversions
        \/ job.kind = "write" /\ job.input \in Requests
        \/ job.kind = "inspect" /\ job.input \in Files
        \/ job.kind = "command" /\ job.input \in CommandLines
    BY DEF Init, Jobs
  <2> QED BY <2>1, InputsAssumption DEF InputsInv
<1>2. InputsInv /\ [Next]_vars => InputsInv'
  <2> SUFFICES ASSUME InputsInv, [Next]_vars PROVE InputsInv'
    OBVIOUS
  <2>1. CASE job' = job
    BY <2>1 DEF InputsInv
  <2>2. CASE RecordLoopback
    <3> DEFINE i == job.input
               tape == L!Capture(PlaybackPlan(i), PaddingFrames, i.latency,
                                 [declared |-> i.sourceFrames, delivered |-> i.delivered],
                                 i.chunk)
    <3>1. i \in Loopbacks
      BY <2>2 DEF RecordLoopback, InputsInv
    <3>2. job' = job \/ job' = [kind |-> "capture", input |-> Recorded(i, tape)]
      BY <2>2 DEF RecordLoopback
    <3>3. tape.total \in Nat
      BY <3>1, TapeIsCounted
    <3>4. i.sourceFrames \in Nat /\ i.short \in Nat \ {0}
      BY <3>1, InputsAssumption
    <3>5. /\ Recorded(i, tape).declared = tape.total
          /\ Recorded(i, tape).sourceFrames = i.sourceFrames
          /\ Recorded(i, tape).short = i.short
      BY DEF Recorded
    <3> HIDE DEF i, tape
    <3>6. CASE job' = [kind |-> "capture", input |-> Recorded(i, tape)]
      <4>1. job'.kind = "capture" /\ job'.input = Recorded(i, tape)
        BY <3>6
      <4> QED BY <3>3, <3>4, <3>5, <4>1 DEF InputsInv
    <3> QED BY <2>1, <3>2, <3>6
  <2> QED BY <2>1, <2>2, JobIsKept DEF vars
<1> QED BY <1>1, <1>2, PTL DEF Spec

\* A call that is done has answered with the value of its function.
LEMMA AnswersAreComputed == Spec => []AnswersInv
<1>1. Init => AnswersInv
  BY DEF Init, AnswersInv, Answered
<1>2. AnswersInv /\ [Next]_vars => AnswersInv'
  <2> SUFFICES ASSUME AnswersInv, [Next]_vars PROVE AnswersInv'
    OBVIOUS
  <2>1. CASE VerifySweep
    BY <2>1 DEF VerifySweep, Answer, AnswersInv, Answered, Verdict
  <2>2. CASE WriteFile
    BY <2>2 DEF WriteFile, Answer, AnswersInv, Answered, Stored
  <2>3. CASE InspectFile
    BY <2>3 DEF InspectFile, Answer, AnswersInv, Answered
  <2>4. CASE RunCommand
    BY <2>4 DEF RunCommand, Answer, AnswersInv, Answered
  <2>5. CASE ConvertSamples
    <3>1. job'.kind = "convert" /\ job' = job
          /\ answer' = [sent |-> Sent(job.input), heard |-> HeardBack(job.input)]
      BY <2>5 DEF ConvertSamples, Answer, Sent, HeardBack
    <3> QED BY <3>1 DEF AnswersInv, Answered
  <2>6. CASE ValidateRecording \/ DetectMarkers \/ TryLatencies \/ SelectTrain
               \/ CutPayload \/ MakeReader \/ WriteChunk
    <3>1. job'.kind = "capture"
      BY <2>6 DEF ValidateRecording, DetectMarkers, TryLatencies, SelectTrain, CutPayload,
                  MakeReader, WriteChunk
    <3> QED BY <3>1 DEF AnswersInv, Answered
  <2>7. CASE RecordLoopback
    <3>1. stage' # "done"
      BY <2>7 DEF RecordLoopback
    <3> QED BY <3>1 DEF AnswersInv, Answered
  <2>8. CASE PairMarkers
    BY <2>8 DEF PairMarkers, Answer, AnswersInv, Answered
  <2>9. CASE UNCHANGED vars
    BY <2>9 DEF vars, AnswersInv, Answered
  <2> QED BY <2>1, <2>2, <2>3, <2>4, <2>5, <2>6, <2>7, <2>8, <2>9 DEF Next, Finished
<1> QED BY <1>1, <1>2, PTL DEF Spec

\* Whatever a request asks for, what the writer accepts the reader returns.
THEOREM WrittenFilesAreReadable == Spec => []WrittenIsReadable
<1>1. InputsInv /\ AnswersInv => WrittenIsReadable
  <2> SUFFICES ASSUME InputsInv, AnswersInv, Answered("write"), answer.accepted
               PROVE  LET w == job.input
                          scale == Scale(w.bits)
                      IN /\ answer.worker.frames = w.frames
                         /\ answer.worker.channels = w.channels
                         /\ answer.worker.bits = w.bits
                         /\ answer.worker.rate = w.rate
                         /\ answer.file.riff + 8 = answer.file.length
                         /\ \A k \in DOMAIN w.levels :
                              \/ AtMostApart(2 * answer.levels[k], w.levels[k], 1)
                              \/ w.levels[k] < -2 * scale /\ answer.levels[k] = -scale
                              \/ w.levels[k] >= 2 * scale - 1 /\ answer.levels[k] = scale - 1
    BY DEF WrittenIsReadable
  <2> DEFINE w == job.input
             scale == Scale(w.bits)
  <2>1. w \in Requested
    BY InputsAssumption DEF InputsInv, Answered, Requested
  <2>2. answer = [accepted |-> ValidateCapacity(w), file |-> WriteWav(w),
                  worker |-> IF ValidateCapacity(w) THEN ReadWav(WriteWav(w))
                             ELSE Unreadable,
                  levels |-> [k \in DOMAIN w.levels |-> Stored(w, k)]]
    BY DEF AnswersInv
  <2> HIDE DEF w
  <2>3. /\ ValidateCapacity(w) /\ answer.file = WriteWav(w)
        /\ answer.levels = [k \in DOMAIN w.levels |-> Stored(w, k)]
    BY <2>2
  <2>4. answer.worker = ReadWav(WriteWav(w))
    BY <2>2, <2>3
  <2>5. ASSUME NEW k \in DOMAIN w.levels
        PROVE  \/ AtMostApart(2 * answer.levels[k], w.levels[k], 1)
               \/ w.levels[k] < -2 * scale /\ answer.levels[k] = -scale
               \/ w.levels[k] >= 2 * scale - 1 /\ answer.levels[k] = scale - 1
    <3> DEFINE level == w.levels[k]
               back == Decode(Encoded(Quantize(level, scale), scale), scale, 1)
    <3>1. scale \in Nat \ {0}
      BY DEF Scale
    <3>2. level \in Int
      BY <2>1 DEF Requested
    <3>3. answer.levels[k] = back
      BY <2>3 DEF Stored
    <3> HIDE DEF scale, level
    <3>4. \/ 2 * back - level \in {-1, 0, 1}
          \/ level < -2 * scale /\ back = -scale
          \/ level >= 2 * scale - 1 /\ back = scale - 1
      BY <3>1, <3>2, SampleComesBack
    <3>5. back \in Int
      BY <3>1, <3>2 DEF Decode, Encoded, Quantize, RoundedHalf
    <3> HIDE DEF back
    <3> QED BY <3>2, <3>3, <3>4, <3>5 DEF AtMostApart, level
  <2> QED BY <2>1, <2>3, <2>4, <2>5, WrittenIsRead DEF w
<1> QED BY <1>1, InputsAreGiven, AnswersAreComputed, PTL

\* Whatever file is picked, the panel takes it exactly when the worker captures
\* from it, and what the panel reads of any file is what the worker reads.
THEOREM PanelAndWorkerAgree == Spec => []PanelAgreesWithWorker
<1>1. InputsInv /\ AnswersInv => PanelAgreesWithWorker
  <2> SUFFICES ASSUME InputsInv, AnswersInv, Answered("inspect")
               PROVE  PanelAgreesWithWorker
    BY DEF PanelAgreesWithWorker
  <2>1. job.input \in FileTypes
    BY InputsAssumption DEF InputsInv, Answered, FileTypes, FileChunks, FormatChunks
  <2>2. /\ answer.worker = ReadWav(job.input) /\ answer.panel = PanelReads(job.input)
        /\ answer.picked = PanelPicks(job.input)
    BY DEF AnswersInv
  <2> QED BY <2>1, <2>2, ReadersAgree, PickedIsCaptured DEF PanelAgreesWithWorker
<1> QED BY <1>1, InputsAreGiven, AnswersAreComputed, PTL

\* Whatever is recorded and on how many channels, the verdict is that of the
\* channel that is best.
THEOREM VerdictIsOfTheRightChannel == Spec => []RightChannelCounts
<1>1. InputsInv /\ AnswersInv => RightChannelCounts
  <2> SUFFICES ASSUME InputsInv, AnswersInv, Answered("verify")
               PROVE  RightChannelCounts
    BY DEF RightChannelCounts
  <2>1. job.input \in CheckTypes
    BY InputsAssumption DEF InputsInv, Answered, CheckTypes, Places
  <2>2. answer = Verdict(job.input)
    BY DEF AnswersInv
  <2>3. Tolerance = V!TimingTolerance(Rate)
    BY SignalTypes, InputsAssumption DEF Tolerance
  <2> QED BY <2>1, <2>2, <2>3, VerdictIsOfTheBest DEF RightChannelCounts, Verdict
<1> QED BY <1>1, InputsAreGiven, AnswersAreComputed, PTL

\* Whatever the command line and whatever the service does, stdout follows the
\* protocol, and an option is never taken for the value of the one before it.
THEOREM OutputIsStructured == Spec => []StructuredOutput
<1>1. InputsInv /\ AnswersInv => StructuredOutput
  <2> SUFFICES ASSUME InputsInv, AnswersInv, Answered("command")
               PROVE  StructuredOutput
    BY DEF StructuredOutput
  <2>1. job.input.args \in ArgumentLists /\ job.input.service \in Services
    BY InputsAssumption DEF InputsInv, Answered, ArgumentLists, Services
  <2>2. answer = C!RunCli(job.input.args, job.input.service)
    BY DEF AnswersInv
  <2>3. answer.code # 2 =>
          \A i \in 2..Len(job.input.args) :
            IsServed(job.input.args, i, C!CommandName(job.input.args[1].text))
    BY <2>1, <2>2, ExecutedIsServed
  <2> QED BY <2>1, <2>2, <2>3, CliIsStructured DEF StructuredOutput, IsServed, TakesNext
<1> QED BY <1>1, InputsAreGiven, AnswersAreComputed, PTL

\* Whatever is played over a route of any channels comes back in its place and
\* at its level, and a refused call changes nothing.
THEOREM RouteIsTransparent == Spec => []RouteKeepsItsSamples
<1>1. InputsInv /\ AnswersInv => RouteKeepsItsSamples
  <2> SUFFICES ASSUME InputsInv, AnswersInv, Answered("convert")
               PROVE  RouteKeepsItsSamples
    BY DEF RouteKeepsItsSamples
  <2> DEFINE i == job.input
             count == Len(i.channels)
             Type(k) == i.channels[1 + ((k - 1) % count)].type
  <2>1. i \in Routes
    BY InputsAssumption DEF InputsInv, Answered, Routes, Buffers
  <2>2. answer.sent = Sent(i) /\ answer.heard = HeardBack(i)
    BY DEF AnswersInv
  <2> HIDE DEF i
  <2>3. answer.sent.outcome = answer.heard.outcome
    BY <2>1, <2>2, RefusedAlike
  <2>4. CASE answer.sent.outcome = "success"
    <3>1. \A k \in DOMAIN i.interleaved :
            CameBack(Type(k), answer.heard.interleaved[k], S!Normalized(i.interleaved[k]))
      BY <2>1, <2>2, <2>4, SampleArrives
    <3>2. \A c \in 1..count : \A b \in DOMAIN i.channels[c].bytes :
            b > i.frames * S!ByteCount(i.channels[c].type) =>
              answer.sent.channels[c].bytes[b] = i.channels[c].bytes[b]
      BY <2>1, <2>2, <2>4, RouteIsKept
    <3> QED BY <2>3, <2>4, <3>1, <3>2 DEF RouteKeepsItsSamples, CameBack, i
  <2>5. CASE answer.sent.outcome # "success"
    <3>1. answer.sent.channels = i.channels /\ answer.heard.interleaved = i.interleaved
      BY <2>1, <2>2, <2>3, <2>5, BuffersAfter, RefusedAlike
    <3> QED BY <2>3, <2>5, <3>1 DEF RouteKeepsItsSamples, i
  <2> QED BY <2>4, <2>5
<1> QED BY <1>1, InputsAreGiven, AnswersAreComputed, PTL

\* Whatever markers and candidates there are, the pairing of the table is the
\* best there is.
THEOREM PairingIsOptimal == Spec => []MatchIsOptimal
<1>1. InputsInv /\ AnswersInv => MatchIsOptimal
  <2> SUFFICES ASSUME InputsInv, AnswersInv, Answered("pair") PROVE MatchIsOptimal
    BY DEF MatchIsOptimal
  <2> DEFINE t == job.input
             n == Len(t.expected)
             m == Len(t.candidates)
  <2>1. t \in Tasks
    BY InputsAssumption DEF InputsInv, Answered, Tasks
  <2>2. answer = A!BestPairing(t)
    BY DEF AnswersInv
  <2>3. IsBestCell(t, answer, n, m)
    BY <2>1, <2>2, PairingIsBest
  <2>4. DOMAIN t.expected = 1..n /\ DOMAIN t.candidates = 1..m /\ n \in Nat
    BY <2>1 DEF Tasks
  <2> HIDE DEF t, n
  <2>5. \A k \in DOMAIN answer.pairs :
          /\ AtMostApart(A!Residual(t, answer.pairs[k][1], answer.pairs[k][2]), 0, t.tolerance)
          /\ k > 1 => /\ answer.pairs[k - 1][1] < answer.pairs[k][1]
                      /\ answer.pairs[k - 1][2] < answer.pairs[k][2]
    BY <2>3 DEF IsBestCell, IsPossible, Fitting
  <2>6. /\ answer.residual = A!Total([k \in DOMAIN answer.pairs |->
              A!Residual(t, answer.pairs[k][1], answer.pairs[k][2])
                * A!Residual(t, answer.pairs[k][1], answer.pairs[k][2])])
        /\ answer.peaks = A!Total([k \in DOMAIN answer.pairs |->
              t.candidates[answer.pairs[k][2]].peak])
    BY <2>3 DEF IsBestCell, IsPossible, CostsOf, EnergiesOf, SquareOf, PeakOf
  <2>7. ASSUME NEW E \in SUBSET (1..n), NEW other \in [E -> 1..m],
               \A e \in E : AtMostApart(A!Residual(t, e, other[e]), 0, t.tolerance),
               \A d, e \in E : d < e => other[d] < other[e]
        PROVE  LET squares == A!Total([e \in 1..n |->
                                 IF e \in DOMAIN other
                                   THEN A!Residual(t, e, other[e]) * A!Residual(t, e, other[e])
                                   ELSE 0])
                   peaks == A!Total([e \in 1..n |->
                               IF e \in DOMAIN other THEN t.candidates[other[e]].peak ELSE 0])
               IN /\ Cardinality(E) <= Len(answer.pairs)
                  /\ Cardinality(E) = Len(answer.pairs) =>
                       \/ squares > answer.residual
                       \/ squares = answer.residual /\ peaks <= answer.peaks
    <3>1. DOMAIN other = E
      OBVIOUS
    <3>2. IsChoice(t, other, n, m)
      BY <2>7, <3>1 DEF IsChoice, Fitting
    <3>3. IsNoBetter(Worth(t, other, n), Scored(answer))
      BY <2>3, <3>2 DEF IsBestCell, IsUnbeaten
    <3> QED BY <3>1, <3>3 DEF IsNoBetter, Worth, Scored, SquaresOf, PeaksOf, SquareOf, PeakOf
  <2> QED BY <2>4, <2>5, <2>6, <2>7 DEF MatchIsOptimal, t
<1> QED BY <1>1, InputsAreGiven, AnswersAreComputed, PTL
------------------------------
(* The frames of the payload.                                              *)

\* How many of them were recorded.
Trimmed(start, declared, n) ==
  LET left == A!AtLeast(0, declared - start) IN IF left < n THEN left ELSE n

\* What has been written is the beginning of the payload, and the reader stands
\* behind it.
IsWritten(out, r, start, declared, target) ==
  /\ start \in 0..declared
  /\ Len(out) \in 0..target
  /\ out = Expected(start, declared, Len(out))
  /\ IsInside(r, declared)
  /\ r.remaining = target - Len(out)
  /\ r.position = P!AtMost(declared, start + Len(out))

\* Where the reader stands, what it still owes and what has been written.
PayloadInv ==
  LET declared == job.input.declared
  IN /\ stage \in Aligning \cup {"open"} => output = <<>>
     /\ job.kind = "capture" /\ stage \in {"open", "write", "done", "invalid_payload"} =>
          /\ answer.target = job.input.sourceFrames
          /\ answer.trimmed = Trimmed(answer.start, declared, job.input.sourceFrames)
     /\ job.kind = "capture" /\ stage = "invalid_payload" =>
          output = <<>> /\ ~P!StartIsInside(answer.start, declared)
     /\ job.kind = "capture" /\ stage \in {"write", "done"} =>
          /\ IsWritten(output, reader, answer.start, declared, answer.target)
          /\ stage = "done" => Len(output) = answer.target

IsJoined(whole, first, more) == first \o more = whole

\* What is read after n frames continues them.
LEMMA ChunkContinues ==
  ASSUME NEW start \in Nat, NEW declared \in Nat, start <= declared,
         NEW n \in Nat, NEW m \in Nat, NEW position,
         position = P!AtMost(declared, start + n)
  PROVE  IsJoined(Expected(start, declared, n + m), Expected(start, declared, n),
                  Expected(position, declared, m))
<1> DEFINE F(k) == IF start + k - 1 < declared THEN start + k - 1 ELSE P!Silence
           first == [k \in 1..n |-> F(k)]
           more == [i \in 1..m |-> IF position + i - 1 < declared
                                     THEN position + i - 1 ELSE P!Silence]
<1>1. ASSUME NEW i \in 1..m PROVE more[i] = F(n + i)
  <2>1. CASE start + n <= declared
    BY <2>1 DEF P!AtMost
  <2>2. CASE start + n > declared
    BY <2>2 DEF P!AtMost
  <2> QED BY <2>1, <2>2
<1> HIDE DEF F
<1>2. \A k \in Nat : F(k) \in Int
  BY DEF F, P!Silence
<1>3. first \in Seq(Int) /\ Len(first) = n /\ \A k \in 1..n : first[k] = F(k)
  <2>1. first \in [1..n -> Int]
    BY <1>2
  <2> QED BY <2>1
<1>4. more \in Seq(Int) /\ Len(more) = m
  <2>1. \A i \in 1..m : more[i] \in Int
    BY <1>1, <1>2
  <2>2. more \in [1..m -> Int]
    BY <2>1
  <2> QED BY <2>2
<1> HIDE DEF first, more
<1>5. /\ first \o more \in Seq(Int) /\ Len(first \o more) = n + m
      /\ \A k \in 1..n : (first \o more)[k] = first[k]
      /\ \A k \in (n + 1)..(n + m) : (first \o more)[k] = more[k - n]
  BY <1>3, <1>4
<1>6. ASSUME NEW k \in 1..(n + m) PROVE (first \o more)[k] = F(k)
  <2>0. k \in Nat /\ (k <= n \/ k > n)
    OBVIOUS
  <2>1. CASE k <= n
    <3>1. k \in 1..n
      BY <2>1
    <3>2. (first \o more)[k] = first[k] /\ first[k] = F(k)
      BY <1>3, <1>5, <3>1
    <3> QED BY <3>2
  <2>2. CASE k > n
    <3>1. k - n \in 1..m /\ k \in (n + 1)..(n + m) /\ n + (k - n) = k
      BY <2>2
    <3>2. more[k - n] = F(n + (k - n))
      BY <1>1, <3>1
    <3>3. (first \o more)[k] = more[k - n]
      BY <1>5, <3>1
    <3> QED BY <3>1, <3>2, <3>3
  <2> HIDE DEF F
  <2> QED BY <2>0, <2>1, <2>2
<1>7. \A s \in Seq(Int) : s = [k \in 1..Len(s) |-> s[k]]
  OBVIOUS
<1>8. first \o more = [k \in 1..(n + m) |-> F(k)]
  <2>1. first \o more = [k \in 1..(n + m) |-> (first \o more)[k]]
    <3> DEFINE s == first \o more
    <3>1. s \in Seq(Int) /\ Len(s) = n + m
      BY <1>5
    <3> HIDE DEF s
    <3>2. s = [k \in 1..(n + m) |-> s[k]]
      BY <1>7, <3>1
    <3> QED BY <3>2 DEF s
  <2> QED BY <1>6, <2>1
<1> QED BY <1>8 DEF first, more, F, Expected, IsJoined

\* One more chunk is read in full and continues what has been written.
LEMMA ChunkIsWritten ==
  ASSUME NEW declared \in Nat, NEW target \in Nat, NEW start, NEW out, NEW r,
         NEW short \in Nat \ {0}, NEW chunk \in Nat \ {0},
         IsWritten(out, r, start, declared, target)
  PROVE  LET size == P!AtMost(target - Len(out), chunk)
             read == P!ReadFrames(r, size, declared, short)
         IN /\ Len(read.frames) = size
            /\ IsWritten(out \o read.frames, read.reader, start, declared, target)
<1> DEFINE n == Len(out)
           size == P!AtMost(target - n, chunk)
           read == P!ReadFrames(r, size, declared, short)
<1>1. /\ start \in Nat /\ start <= declared /\ n \in Nat /\ n <= target
      /\ out = Expected(start, declared, n)
      /\ IsInside(r, declared) /\ r.remaining = target - n
      /\ r.position = P!AtMost(declared, start + n)
  BY DEF IsWritten
<1> HIDE DEF n
<1>2. size \in Nat /\ size <= target - n /\ P!AtMost(r.remaining, size) = size
  BY <1>1 DEF P!AtMost
<1> HIDE DEF size
<1>3. /\ read.frames = Expected(r.position, declared, size)
      /\ IsInside(read.reader, declared)
      /\ read.reader.remaining = r.remaining - size
      /\ read.reader.position = P!AtMost(declared, r.position + size)
  <2>1. /\ read.frames = Expected(r.position, declared, P!AtMost(r.remaining, size))
        /\ IsInside(read.reader, declared)
        /\ read.reader.remaining = r.remaining - P!AtMost(r.remaining, size)
        /\ read.reader.position
             = P!AtMost(declared, r.position + P!AtMost(r.remaining, size))
    BY <1>1, <1>2, ReadsInOrder
  <2> QED BY <1>2, <2>1
<1> HIDE DEF read
<1>4. out \o read.frames = Expected(start, declared, n + size)
  <2>1. IsJoined(Expected(start, declared, n + size), Expected(start, declared, n),
                 Expected(r.position, declared, size))
    BY <1>1, <1>2, ChunkContinues
  <2> QED BY <1>1, <1>3, <2>1 DEF IsJoined
<1>5. Len(read.frames) = size /\ Len(out \o read.frames) = n + size
  BY <1>1, <1>2, <1>3, <1>4 DEF Expected
<1>6. read.reader.position = P!AtMost(declared, start + (n + size))
  BY <1>1, <1>2, <1>3 DEF P!AtMost
<1>7. IsWritten(out \o read.frames, read.reader, start, declared, target)
  <2> DEFINE o == out \o read.frames
             s == read.reader
  <2>1. /\ Len(o) = n + size /\ o = Expected(start, declared, n + size)
        /\ IsInside(s, declared) /\ s.remaining = (target - n) - size
        /\ s.position = P!AtMost(declared, start + (n + size))
    BY <1>1, <1>3, <1>4, <1>5, <1>6
  <2> HIDE DEF o, s
  <2>2. n + size \in 0..target /\ s.remaining = target - (n + size)
    BY <1>1, <1>2, <2>1
  <2>3. IsWritten(o, s, start, declared, target)
    BY <1>1, <2>1, <2>2 DEF IsWritten
  <2> QED BY <2>3 DEF o, s
<1> QED BY <1>5, <1>7 DEF n, size, read

\* The numbers the alignment gives a payload.
LEMMA PayloadIsCut ==
  ASSUME NEW chosen, NEW r
  PROVE  LET cut == A!AlignedPayload(chosen, r.declared, Reference(r))
         IN /\ cut.target = r.sourceFrames
            /\ cut.trimmed = Trimmed(cut.start, r.declared, r.sourceFrames)
<1>1. Reference(r).sourceFrames = r.sourceFrames
  <2>1. PlaybackPlan(r).sourceFrames = r.sourceFrames
    BY DEF PlaybackPlan, A!PlaybackPlan
  <2>2. PlaybackPlan(r) = [markers |-> PlaybackPlan(r).markers,
                           sourceStart |-> PlaybackPlan(r).sourceStart,
                           sourceFrames |-> PlaybackPlan(r).sourceFrames]
    BY DEF PlaybackPlan, A!PlaybackPlan
  <2> QED BY <2>1, <2>2 DEF Reference
<1> DEFINE plan == Reference(r)
<1>2. plan.sourceFrames = r.sourceFrames
  BY <1>1
<1> HIDE DEF plan
<1>3. A!AlignedPayload(chosen, r.declared, plan) =
        [start |-> A!AtLeast(0, plan.sourceStart + chosen.median),
         target |-> plan.sourceFrames,
         trimmed |-> Trimmed(A!AtLeast(0, plan.sourceStart + chosen.median), r.declared,
                             plan.sourceFrames),
         warnings |-> A!Warnings(chosen, plan.markers)]
  BY DEF A!AlignedPayload, Trimmed
<1> QED BY <1>2, <1>3 DEF plan

\* The invariant of the payload is kept by every step.
LEMMA PayloadIsKept == Spec => []PayloadInv
<1>1. Init => PayloadInv
  BY DEF Init, PayloadInv
<1>2. InputsInv /\ PayloadInv /\ [Next]_vars => PayloadInv'
  <2> SUFFICES ASSUME InputsInv, PayloadInv, [Next]_vars PROVE PayloadInv'
    OBVIOUS
  <2>1. CASE RecordLoopback
    BY <2>1 DEF RecordLoopback, PayloadInv, Aligning
  <2>2. CASE ValidateRecording \/ DetectMarkers \/ TryLatencies \/ SelectTrain
    <3>1. output' = output /\ stage \in Aligning
          /\ stage' \in Aligning \cup {"invalid_result", "alignment_failed"}
      BY <2>2 DEF ValidateRecording, DetectMarkers, TryLatencies, SelectTrain, Aligning
    <3> QED BY <3>1 DEF PayloadInv, Aligning
  <2>3. CASE CutPayload
    <3>1. /\ job' = job /\ output' = output /\ stage' = "open" /\ stage = "cut"
          /\ answer' = A!AlignedPayload(answer, job.input.declared, Reference(job.input))
      BY <2>3 DEF CutPayload
    <3>2. /\ answer'.target = job.input.sourceFrames
          /\ answer'.trimmed = Trimmed(answer'.start, job.input.declared,
                                       job.input.sourceFrames)
      BY <3>1, PayloadIsCut
    <3> QED BY <3>1, <3>2 DEF PayloadInv, Aligning
  <2>4. CASE MakeReader
    <3>1. /\ job' = job /\ answer' = answer /\ output' = output
          /\ stage = "open" /\ job.kind = "capture" /\ output = <<>>
          /\ answer.target = job.input.sourceFrames
          /\ answer.trimmed = Trimmed(answer.start, job.input.declared,
                                      job.input.sourceFrames)
      BY <2>4 DEF MakeReader, PayloadInv
    <3>2. CASE P!StartIsInside(answer.start, job.input.declared)
      <4> DEFINE start == answer.start
                 target == answer.target
                 declared == job.input.declared
      <4>1. reader' = P!OpenPayload(start, target) /\ stage' = "write"
        BY <2>4, <3>2 DEF MakeReader
      <4>2. start \in 0..declared /\ declared \in Nat /\ target \in Nat
        BY <3>1, <3>2 DEF P!StartIsInside, InputsInv
      <4> HIDE DEF start, target, declared
      <4>3. /\ reader' \in Readers /\ reader'.position = start
            /\ reader'.remaining = target /\ ~reader'.ended
        BY <4>1, <4>2 DEF P!OpenPayload, Readers
      <4>4. /\ IsInside(reader', declared) /\ reader'.remaining = target - 0
            /\ reader'.position = P!AtMost(declared, start + 0)
        BY <4>2, <4>3 DEF IsInside, P!AtMost
      <4>5. Len(output) = 0 /\ output = Expected(start, declared, 0) /\ 0 \in 0..target
        BY <3>1, <4>2 DEF Expected
      <4>6. IsWritten(output, reader', start, declared, target)
        BY <4>2, <4>4, <4>5 DEF IsWritten
      <4> QED BY <3>1, <4>1, <4>6 DEF PayloadInv, Aligning, start, target, declared
    <3>3. CASE ~P!StartIsInside(answer.start, job.input.declared)
      <4>1. stage' = "invalid_payload"
        BY <2>4, <3>3 DEF MakeReader
      <4> QED BY <3>1, <3>3, <4>1 DEF PayloadInv, Aligning
    <3> QED BY <3>2, <3>3
  <2>5. CASE WriteChunk
    <3> DEFINE start == answer.start
               target == answer.target
               declared == job.input.declared
               size == P!AtMost(target - Len(output), ChunkFrames)
               read == P!ReadFrames(reader, size, declared, job.input.short)
    <3>1. /\ job' = job /\ answer' = answer /\ job.kind = "capture" /\ stage = "write"
          /\ IF Len(output) = target THEN stage' = "done" /\ UNCHANGED <<reader, output>>
             ELSE /\ output' = output \o read.frames
                  /\ reader' = read.reader
                  /\ stage' = IF Len(read.frames) = size THEN "write"
                              ELSE "invalid_payload"
      BY <2>5 DEF WriteChunk
    <3>2. /\ IsWritten(output, reader, start, declared, target)
          /\ target = job.input.sourceFrames
          /\ answer.trimmed = Trimmed(start, declared, job.input.sourceFrames)
      BY <3>1 DEF PayloadInv
    <3>3. CASE Len(output) = target
      <4>1. stage' = "done" /\ UNCHANGED <<reader, output>>
        BY <3>1, <3>3
      <4> QED BY <3>1, <3>2, <3>3, <4>1 DEF PayloadInv, Aligning
    <3>4. CASE Len(output) # target
      <4>1. /\ declared \in Nat /\ target \in Nat /\ job.input.short \in Nat \ {0}
            /\ ChunkFrames \in Nat \ {0}
        BY <3>1, <3>2, InputsAssumption DEF InputsInv
      <4>2. /\ Len(read.frames) = size
            /\ IsWritten(output \o read.frames, read.reader, start, declared, target)
        BY <3>2, <4>1, ChunkIsWritten
      <4>3. /\ stage' = "write" /\ output' = output \o read.frames /\ reader' = read.reader
        BY <3>1, <3>4, <4>2
      <4> HIDE DEF read
      <4>4. IsWritten(output', reader', start, declared, target)
        BY <4>2, <4>3
      <4> QED BY <3>1, <3>2, <4>3, <4>4 DEF PayloadInv, Aligning
    <3> QED BY <3>3, <3>4
  <2>6. CASE PairMarkers \/ VerifySweep \/ ConvertSamples \/ WriteFile \/ InspectFile
               \/ RunCommand
    <3>1. job' = job /\ job.kind # "capture" /\ stage' = "done"
      BY <2>6 DEF PairMarkers, VerifySweep, ConvertSamples, WriteFile, InspectFile,
                  RunCommand, Answer
    <3> QED BY <3>1 DEF PayloadInv, Aligning
  <2>7. CASE UNCHANGED vars
    BY <2>7 DEF vars, PayloadInv
  <2> QED BY <2>1, <2>2, <2>3, <2>4, <2>5, <2>6, <2>7 DEF Next, Finished
<1> QED BY <1>1, <1>2, InputsAreGiven, PTL DEF Spec

\* Whatever is recorded and in whatever pieces it is read, the file is the
\* stretch of the recording that the alignment cut out.
THEOREM PayloadIsComplete == Spec => []PayloadIsTheSource
<1>1. InputsInv /\ PayloadInv => PayloadIsTheSource
  <2> SUFFICES ASSUME InputsInv, PayloadInv, job.kind = "capture",
                      stage \in {"write", "done", "invalid_payload"}
               PROVE  PayloadIsTheSource
    BY DEF PayloadIsTheSource
  <2> DEFINE start == answer.start
             declared == job.input.declared
             source == job.input.sourceFrames
             n == Len(output)
  <2>1. declared \in Nat /\ source \in Nat
    BY DEF InputsInv
  <2>2. CASE stage = "invalid_payload"
    <3>1. output = <<>> /\ ~P!StartIsInside(start, declared)
      BY <2>2 DEF PayloadInv
    <3>2. Len(output) = 0 /\ output = [k \in 1..0 |-> IF start + k - 1 < declared
                                              THEN start + k - 1 ELSE P!Silence]
      BY <3>1
    <3> QED BY <2>2, <3>1, <3>2 DEF PayloadIsTheSource
  <2>3. CASE stage \in {"write", "done"}
    <3>1. /\ start \in 0..declared /\ n \in 0..answer.target
          /\ output = Expected(start, declared, n)
          /\ answer.target = source
          /\ answer.trimmed = Trimmed(start, declared, source)
          /\ stage = "done" => n = source
      BY <2>3 DEF PayloadInv, IsWritten
    <3>2. stage = "done" => answer.trimmed = Cardinality({k \in DOMAIN output :
                                                            output[k] # P!Silence})
      <4> SUFFICES ASSUME stage = "done"
                   PROVE  answer.trimmed = Cardinality({k \in DOMAIN output :
                                                          output[k] # P!Silence})
        OBVIOUS
      <4>1. output = Expected(start, declared, source)
        BY <3>1
      <4> DEFINE t == Trimmed(start, declared, source)
      <4> HIDE DEF start, declared, source
      <4>2. t \in Nat /\ t <= source /\ \A k \in 1..source : start + k - 1 < declared <=> k <= t
        BY <2>1, <3>1 DEF Trimmed, A!AtLeast
      <4>3. {k \in DOMAIN output : output[k] # P!Silence} = 1..t
        <5>1. DOMAIN output = 1..source
          BY <4>1 DEF Expected
        <5>2. \A k \in 1..source : output[k] # P!Silence <=> k <= t
          BY <2>1, <3>1, <4>1, <4>2 DEF Expected, P!Silence
        <5> HIDE DEF t
        <5> QED BY <2>1, <4>2, <5>1, <5>2
      <4>4. Cardinality(1..t) = t
        BY <4>2, FS_Interval
      <4> QED BY <3>1, <4>3, <4>4
    <3> QED BY <2>3, <3>1, <3>2 DEF PayloadIsTheSource, Expected
  <2> QED BY <2>2, <2>3
<1> QED BY <1>1, InputsAreGiven, PayloadIsKept, PTL

------------------------------
(* Parts of sequences.                                                     *)

\* What Picked has collected after each position.
Picks(s, M) ==
  CHOOSE picked : picked = [i \in 0..Len(s) |->
    IF i = 0 THEN <<>>
    ELSE IF i \in M THEN Append(picked[i - 1], s[i]) ELSE picked[i - 1]]

\* r is what s holds at those of its first i positions that are in M: the
\* k-th of r stands at position f[k].
IsPick(r, s, M, f, i) ==
  /\ f \in [1..Len(r) -> 1..i]
  /\ \A k \in 1..Len(r) : f[k] \in M /\ r[k] = s[f[k]]
  /\ \A j, k \in 1..Len(r) : j < k => f[j] < f[k]
  /\ \A m \in 1..i : m \in M => \E k \in 1..Len(r) : f[k] = m

\* One more position is picked.
LEMMA PickGrows ==
  ASSUME NEW D, NEW s \in Seq(D), NEW M, NEW i \in 1..Len(s), i \in M,
         NEW r \in Seq(D), NEW f, IsPick(r, s, M, f, i - 1)
  PROVE  \E g : IsPick(Append(r, s[i]), s, M, g, i)
<1> DEFINE n == Len(r)
           long == Append(r, s[i])
           g == [k \in 1..(n + 1) |-> IF k = n + 1 THEN i ELSE f[k]]
<1>1. n \in Nat /\ i \in Nat /\ i >= 1 /\ s[i] \in D
  OBVIOUS
<1>2. /\ Len(long) = n + 1 /\ long[n + 1] = s[i]
      /\ \A k \in 1..n : long[k] = r[k]
  BY <1>1, OneMore
<1>3. /\ f \in [1..n -> 1..(i - 1)]
      /\ \A k \in 1..n : f[k] \in M /\ r[k] = s[f[k]]
      /\ \A j, k \in 1..n : j < k => f[j] < f[k]
      /\ \A m \in 1..(i - 1) : m \in M => \E k \in 1..n : f[k] = m
  BY DEF IsPick
<1> HIDE DEF n, long
<1>4. \A k \in 1..n : f[k] \in 1..(i - 1) /\ g[k] = f[k]
  BY <1>1, <1>3
<1>5. g[n + 1] = i
  BY <1>1
<1>6. g \in [1..(n + 1) -> 1..i]
  <2>1. ASSUME NEW k \in 1..(n + 1), k # n + 1 PROVE f[k] \in 1..i
    <3>1. k \in 1..n
      BY <1>1, <2>1
    <3>2. f[k] \in 1..(i - 1)
      BY <1>3, <3>1
    <3> QED BY <1>1, <3>2
  <2>2. \A k \in 1..(n + 1) : (IF k = n + 1 THEN i ELSE f[k]) \in 1..i
    BY <1>1, <2>1
  <2> QED BY <2>2
<1> HIDE DEF g
<1>7. ASSUME NEW k \in 1..(n + 1) PROVE g[k] \in M /\ long[k] = s[g[k]]
  <2>1. CASE k = n + 1
    BY <1>2, <1>5, <2>1
  <2>2. CASE k # n + 1
    <3>1. k \in 1..n
      BY <1>1, <2>2
    <3> QED BY <3>1, <1>2, <1>3, <1>4
  <2> QED BY <2>1, <2>2
<1>8. ASSUME NEW j \in 1..(n + 1), NEW k \in 1..(n + 1), j < k PROVE g[j] < g[k]
  <2>1. j \in 1..n
    BY <1>1, <1>8
  <2>2. CASE k = n + 1
    BY <1>1, <1>4, <1>5, <2>1, <2>2
  <2>3. CASE k # n + 1
    <3>1. k \in 1..n
      BY <1>1, <2>3
    <3> QED BY <3>1, <2>1, <1>3, <1>4, <1>8
  <2> QED BY <2>2, <2>3
<1>9. ASSUME NEW m \in 1..i, m \in M PROVE \E k \in 1..(n + 1) : g[k] = m
  <2>1. CASE m = i
    <3>1. n + 1 \in 1..(n + 1)
      BY <1>1
    <3> QED BY <3>1, <1>5, <2>1
  <2>2. CASE m # i
    <3>1. m \in 1..(i - 1)
      BY <1>1, <2>2
    <3>2. PICK k \in 1..n : f[k] = m
      BY <3>1, <1>3, <1>9
    <3>3. k \in 1..(n + 1) /\ g[k] = m
      BY <1>1, <1>4, <3>2
    <3> QED BY <3>3
  <2> QED BY <2>1, <2>2
<1>10. IsPick(long, s, M, g, i)
  BY <1>2, <1>6, <1>7, <1>8, <1>9 DEF IsPick
<1> QED BY <1>10 DEF long

\* One more position is passed over.
LEMMA PickStays ==
  ASSUME NEW D, NEW s \in Seq(D), NEW M, NEW i \in 1..Len(s), i \notin M,
         NEW r \in Seq(D), NEW f, IsPick(r, s, M, f, i - 1)
  PROVE  IsPick(r, s, M, f, i)
<1>1. Len(r) \in Nat /\ i \in Nat /\ i >= 1
  OBVIOUS
<1>2. f \in [1..Len(r) -> 1..i]
  BY <1>1 DEF IsPick
<1>3. ASSUME NEW m \in 1..i, m \in M PROVE \E k \in 1..Len(r) : f[k] = m
  <2>1. m \in 1..(i - 1)
    BY <1>1, <1>3
  <2> QED BY <2>1, <1>3 DEF IsPick
<1> QED BY <1>2, <1>3 DEF IsPick

\* Picked picks.
LEMMA PickedOf ==
  ASSUME NEW D, NEW s \in Seq(D), NEW M
  PROVE  /\ A!Picked(s, M) \in Seq(D)
         /\ \E f : IsPick(A!Picked(s, M), s, M, f, Len(s))
<1> DEFINE n == Len(s)
           R == Seq(D)
           base == <<>>
           Step == [p \in (1..n) \X R |-> IF p[1] \in M THEN Append(p[2], s[p[1]]) ELSE p[2]]
           Is(g) == g = [i \in 0..n |->
                           IF i = 0 THEN <<>>
                           ELSE IF i \in M THEN Append(g[i - 1], s[i]) ELSE g[i - 1]]
           q == Picks(s, M)
<1>1. n \in Nat /\ \A i \in 1..n : s[i] \in D
  OBVIOUS
<1>2. q = CHOOSE h : Is(h)
  BY DEF Picks
<1>3. A!Picked(s, M) = q[n]
  BY DEF A!Picked, Picks
<1> HIDE DEF n, q
<1>4. Step \in [(1..n) \X R -> R]
  <2>1. ASSUME NEW i \in 1..n, NEW r \in R PROVE Append(r, s[i]) \in R
    BY <1>1
  <2> HIDE DEF R
  <2> QED BY <2>1
<1>5. PICK g : Iterated(g, n, R, base, Step)
  <2>1. base \in R
    OBVIOUS
  <2> HIDE DEF R, base, Step
  <2> QED BY <1>1, <1>4, <2>1, Iterates
<1>6. ASSUME NEW i \in 1..n
      PROVE  g[i] = IF i \in M THEN Append(g[i - 1], s[i]) ELSE g[i - 1]
  <2> HIDE DEF R
  <2>1. g[i - 1] \in R
    BY <1>1, <1>5 DEF Iterated
  <2>2. <<i, g[i - 1]>> \in (1..n) \X R
    BY <2>1
  <2>3. g[i] = Step[<<i, g[i - 1]>>]
    BY <1>5 DEF Iterated
  <2> QED BY <2>2, <2>3
<1>7. Is(g)
  <2>1. g = [i \in 0..n |-> g[i]] /\ g[0] = <<>>
    BY <1>5 DEF Iterated
  <2>2. ASSUME NEW i \in 0..n
        PROVE  g[i] = IF i = 0 THEN <<>>
                      ELSE IF i \in M THEN Append(g[i - 1], s[i]) ELSE g[i - 1]
    <3>1. i # 0 => i \in 1..n
      BY <1>1
    <3> QED BY <1>6, <2>1, <3>1
  <2> QED BY <2>1, <2>2
<1>8. Is(q)
  <2> HIDE DEF Is
  <2> QED BY <1>2, <1>7
<1>9. q[0] = <<>> /\ \A i \in 1..n : q[i] = IF i \in M THEN Append(q[i - 1], s[i]) ELSE q[i - 1]
  <2>1. 0 \in 0..n
    BY <1>1
  <2>2. ASSUME NEW i \in 1..n
        PROVE  q[i] = IF i \in M THEN Append(q[i - 1], s[i]) ELSE q[i - 1]
    <3>1. i \in 0..n /\ i # 0
      BY <1>1
    <3> QED BY <1>8, <3>1
  <2> QED BY <1>8, <2>1, <2>2
<1> DEFINE T == {i \in 0..n : q[i] \in R /\ \E f : IsPick(q[i], s, M, f, i)}
<1>10. 0 \in T
  <2>1. q[0] \in R /\ Len(q[0]) = 0
    BY <1>9
  <2>2. IsPick(q[0], s, M, [k \in 1..0 |-> k], 0)
    BY <2>1 DEF IsPick
  <2>3. 0 \in 0..n
    BY <1>1
  <2> QED BY <2>1, <2>2, <2>3
<1>11. ASSUME NEW i \in 1..n, i - 1 \in T PROVE i \in T
  <2>1. PICK f : IsPick(q[i - 1], s, M, f, i - 1)
    BY <1>11
  <2>2. q[i - 1] \in Seq(D) /\ i \in 1..Len(s) /\ s[i] \in D
    BY <1>1, <1>11 DEF n
  <2>3. CASE i \in M
    <3>1. q[i] = Append(q[i - 1], s[i])
      BY <1>9, <2>3
    <3>2. Append(q[i - 1], s[i]) \in Seq(D)
      BY <2>2
    <3>3. \E h : IsPick(Append(q[i - 1], s[i]), s, M, h, i)
      BY <2>1, <2>2, <2>3, PickGrows
    <3>4. i \in 0..n
      BY <1>1
    <3> QED BY <3>1, <3>2, <3>3, <3>4
  <2>4. CASE i \notin M
    <3>1. q[i] = q[i - 1]
      BY <1>9, <2>4
    <3>2. IsPick(q[i - 1], s, M, f, i)
      BY <2>1, <2>2, <2>4, PickStays
    <3>3. i \in 0..n
      BY <1>1
    <3> QED BY <2>1, <2>2, <3>1, <3>2, <3>3
  <2> QED BY <2>3, <2>4
<1>12. n \in T
  <2> HIDE DEF T
  <2>1. 0..n \subseteq T
    BY <1>1, <1>10, <1>11, SetInduction
  <2> QED BY <1>1, <2>1
<1> QED BY <1>3, <1>12 DEF n

\* The least of some numbers.
LEMMA MinOf ==
  ASSUME NEW T \in SUBSET Nat, T # {}
  PROVE  A!Min(T) \in T /\ \A n \in T : A!Min(T) <= n
<1>1. \E m \in T : \A n \in T : m <= n
  BY LeastElement
<1> QED BY <1>1 DEF A!Min

\* An instance has the cardinality of its own.
LEMMA SameCardinality ==
  ASSUME NEW T PROVE A!Cardinality(T) = Cardinality(T)
BY DEF A!Cardinality, Cardinality

\* Those that come before the k-th when a sequence is sorted.
Lower(xs, k) == {j \in DOMAIN xs : xs[j] < xs[k] \/ (xs[j] = xs[k] /\ j < k)}

\* A place before another one has fewer before it.
LEMMA LowerIsFewer ==
  ASSUME NEW xs \in Seq(Int), NEW k \in DOMAIN xs
  PROVE  /\ Cardinality(Lower(xs, k)) \in 0..(Len(xs) - 1)
         /\ \A j \in Lower(xs, k) : Cardinality(Lower(xs, j)) < Cardinality(Lower(xs, k))
<1> DEFINE n == Len(xs)
<1>1. n \in Nat /\ DOMAIN xs = 1..n /\ \A j \in 1..n : xs[j] \in Int
  OBVIOUS
<1> HIDE DEF n
<1>2. \A j \in 1..n : /\ Lower(xs, j) \subseteq 1..n /\ j \notin Lower(xs, j)
  BY <1>1 DEF Lower
<1>3. IsFiniteSet(1..n) /\ Cardinality(1..n) = n
  BY <1>1, FS_Interval
<1>4. ASSUME NEW j \in 1..n
      PROVE  IsFiniteSet(Lower(xs, j)) /\ Cardinality(Lower(xs, j)) \in Nat
  BY <1>2, <1>3, FS_Subset, FS_CardinalityType
<1>5. ASSUME NEW j \in 1..n, NEW T, IsFiniteSet(T), Lower(xs, j) \cup {j} \subseteq T
      PROVE  Cardinality(Lower(xs, j)) + 1 <= Cardinality(T)
  <2>1. Cardinality(Lower(xs, j) \cup {j}) = Cardinality(Lower(xs, j)) + 1
    BY <1>2, <1>4, FS_AddElement
  <2>2. Cardinality(Lower(xs, j) \cup {j}) <= Cardinality(T)
    BY <1>5, FS_Subset
  <2> QED BY <2>1, <2>2
<1>6. Cardinality(Lower(xs, k)) \in 0..(n - 1)
  <2>1. k \in 1..n /\ Lower(xs, k) \cup {k} \subseteq 1..n
    BY <1>1, <1>2
  <2>2. Cardinality(Lower(xs, k)) + 1 <= n
    BY <1>3, <1>5, <2>1
  <2>3. Cardinality(Lower(xs, k)) \in Nat
    BY <1>4, <2>1
  <2> QED BY <1>1, <2>2, <2>3
<1>7. ASSUME NEW j \in Lower(xs, k)
      PROVE  Cardinality(Lower(xs, j)) < Cardinality(Lower(xs, k))
  <2>1. j \in 1..n /\ k \in 1..n
    BY <1>1, <1>2
  <2>2. Lower(xs, j) \cup {j} \subseteq Lower(xs, k)
    BY <1>1, <2>1, <1>7 DEF Lower
  <2>3. Cardinality(Lower(xs, j)) + 1 <= Cardinality(Lower(xs, k))
    BY <2>1, <2>2, <1>4, <1>5
  <2>4. Cardinality(Lower(xs, j)) \in Nat /\ Cardinality(Lower(xs, k)) \in Nat
    BY <1>4, <2>1
  <2> QED BY <2>3, <2>4
<1> QED BY <1>6, <1>7 DEF n

\* Every rank is taken.
LEMMA RankIsTaken ==
  ASSUME NEW xs \in Seq(Int), NEW m \in 0..(Len(xs) - 1)
  PROVE  \E k \in DOMAIN xs : Cardinality(Lower(xs, k)) = m
<1> DEFINE n == Len(xs)
           rank == [k \in 1..n |-> Cardinality(Lower(xs, k))]
<1>1. n \in Nat /\ DOMAIN xs = 1..n /\ (\A j \in 1..n : xs[j] \in Int) /\ m \in 0..(n - 1)
  OBVIOUS
<1> HIDE DEF n
<1>2. rank \in [1..n -> 0..(n - 1)]
  <2>1. \A k \in 1..n : Cardinality(Lower(xs, k)) \in 0..(n - 1)
    BY <1>1, LowerIsFewer DEF n
  <2> QED BY <2>1
<1>3. ASSUME NEW j \in 1..n, NEW k \in 1..n, rank[j] = rank[k] PROVE j = k
  <2>1. rank[j] = Cardinality(Lower(xs, j)) /\ rank[k] = Cardinality(Lower(xs, k))
    OBVIOUS
  <2>2. rank[j] \in Nat /\ rank[k] \in Nat
    BY <1>1, <1>2
  <2>3. j \notin Lower(xs, k) /\ k \notin Lower(xs, j)
    BY <1>1, <1>3, <2>1, <2>2, LowerIsFewer
  <2> QED BY <1>1, <2>3 DEF Lower
<1> HIDE DEF rank
<1>4. rank \in Injection(1..n, 0..(n - 1))
  BY <1>2, <1>3 DEF Injection, IsInjective
<1>5. /\ IsFiniteSet(0..(n - 1)) /\ Cardinality(1..n) = n /\ Cardinality(0..(n - 1)) = n
  <2>1. n - 1 \in Int /\ 0 \in Int /\ 1 \in Int /\ n \in Int /\ n >= 1
    BY <1>1
  <2>2. IsFiniteSet(0..(n - 1)) /\ Cardinality(0..(n - 1)) = (n - 1) - 0 + 1
    BY <2>1, FS_Interval
  <2>3. Cardinality(1..n) = n - 1 + 1
    BY <2>1, FS_Interval
  <2> QED BY <2>1, <2>2, <2>3
<1>6. rank \in Surjection(1..n, 0..(n - 1))
  BY <1>4, <1>5, FS_Injection
<1>7. \E k \in 1..n : rank[k] = m
  BY <1>1, <1>6 DEF Surjection
<1> QED BY <1>1, <1>7 DEF rank

\* The median of a sequence is one of its elements.
LEMMA MedianIsOne ==
  ASSUME NEW xs \in Seq(Int), xs # <<>>
  PROVE  \E k \in DOMAIN xs : A!Median(xs) = xs[k]
<1>1. Len(xs) \in Nat /\ Len(xs) > 0
  OBVIOUS
<1>2. Len(xs) \div 2 \in 0..(Len(xs) - 1)
  BY <1>1
<1>3. \E k \in DOMAIN xs : Cardinality(Lower(xs, k)) = Len(xs) \div 2
  BY <1>2, RankIsTaken
<1> DEFINE Halves(k) == A!Cardinality(Lower(xs, k)) = Len(xs) \div 2
<1>4. A!Median(xs) = xs[CHOOSE k \in DOMAIN xs : Halves(k)]
  BY DEF A!Median, Lower
<1>5. \E k \in DOMAIN xs : Halves(k)
  BY <1>3, SameCardinality
<1> HIDE DEF Halves
<1> QED BY <1>4, <1>5

------------------------------
(* Bounds on what is computed from latencies.                              *)

\* Numbers that add up are bounded by as many times their bound.
LEMMA TotalIsBounded ==
  ASSUME NEW xs \in Seq(Int), NEW b \in Nat, \A k \in DOMAIN xs : xs[k] \in 0..b
  PROVE  /\ A!Total(xs) \in Nat /\ A!Total(xs) <= b * Len(xs)
         /\ \A k \in DOMAIN xs : xs[k] <= A!Total(xs)
<1> DEFINE n == Len(xs)
           sum == Sums(xs)
           T == {i \in 0..n : /\ sum[i] \in Nat /\ sum[i] <= b * i
                              /\ \A k \in 1..i : xs[k] <= sum[i]}
<1>1. n \in Nat /\ DOMAIN xs = 1..n /\ \A k \in 1..n : xs[k] \in Nat /\ xs[k] <= b
  OBVIOUS
<1>2. /\ A!Total(xs) = sum[n] /\ sum[0] = 0
      /\ \A i \in 1..n : sum[i] = sum[i - 1] + xs[i]
  BY SumsOf, TotalIsSum
<1> HIDE DEF n, sum
<1>3. 0 \in T
  BY <1>1, <1>2
<1>4. ASSUME NEW i \in 1..n, i - 1 \in T PROVE i \in T
  <2>1. /\ sum[i - 1] \in Nat /\ sum[i - 1] <= b * (i - 1)
        /\ \A k \in 1..(i - 1) : xs[k] <= sum[i - 1]
    BY <1>4
  <2>2. sum[i] = sum[i - 1] + xs[i] /\ xs[i] \in Nat /\ xs[i] <= b
    BY <1>1, <1>2
  <2>3. b * i = b * (i - 1) + b /\ b * i \in Int /\ b * (i - 1) \in Int
    BY <1>1
  <2>4. sum[i] \in Nat /\ sum[i] <= b * i
    BY <2>1, <2>2, <2>3
  <2>5. ASSUME NEW k \in 1..i PROVE xs[k] <= sum[i]
    <3>1. CASE k = i
      BY <2>1, <2>2, <3>1
    <3>2. CASE k # i
      <4>1. k \in 1..(i - 1) /\ xs[k] \in Nat
        BY <1>1, <3>2
      <4>2. xs[k] <= sum[i - 1]
        BY <2>1, <4>1
      <4> QED BY <2>1, <2>2, <4>1, <4>2
    <3> QED BY <3>1, <3>2
  <2>6. i \in 0..n
    BY <1>1
  <2> QED BY <2>4, <2>5, <2>6
<1>5. n \in T
  <2> HIDE DEF T
  <2>1. 0..n \subseteq T
    BY <1>1, <1>3, <1>4, SetInduction
  <2> QED BY <1>1, <2>1
<1> QED BY <1>1, <1>2, <1>5 DEF n

\* What is at most ten away has a square of at most a hundred.
LEMMA SmallSquare ==
  ASSUME NEW y \in Int, y <= 10, -y <= 10
  PROVE  y * y \in 0..100
<1>1. (10 - y) * (10 + y) = 100 - y * y /\ y * y \in Int
  OBVIOUS
<1>2. 10 - y \in Nat /\ 10 + y \in Nat
  OBVIOUS
<1>3. (10 - y) * (10 + y) \in Nat
  BY <1>2
<1>4. y * y >= 0
  OBVIOUS
<1> QED BY <1>1, <1>3, <1>4

\* The squares of the distances from v, with one more number.
SquaresAdd(a, b, x, v, i) ==
  (b + x * x) - 2 * v * (a + x) + i * v * v
    = (b - 2 * v * a + (i - 1) * v * v) + (x - v) * (x - v)

\* So one number more adds one square.
LEMMA OneMoreSquare ==
  ASSUME NEW a \in Int, NEW b \in Int, NEW x \in Int, NEW v \in Int, NEW i \in Int
  PROVE  SquaresAdd(a, b, x, v, i)
BY DEF SquaresAdd

\* The spread of n numbers from the sum of their squared distances from v.
SpreadShifts(a, b, v, n) ==
  n * b - a * a = n * (b - 2 * v * a + n * v * v) - (a - n * v) * (a - n * v)

\* It does not matter from where the distances are taken.
LEMMA SpreadFromElsewhere ==
  ASSUME NEW a \in Int, NEW b \in Int, NEW v \in Int, NEW n \in Int
  PROVE  SpreadShifts(a, b, v, n)
BY DEF SpreadShifts

\* Numbers near some value do not spread.
LEMMA SpreadIsBounded ==
  ASSUME NEW xs \in Seq(Int), NEW v \in Int,
         \A k \in DOMAIN xs : xs[k] - v <= 10 /\ v - xs[k] <= 10
  PROVE  A!Spread(xs) <= 100 * Len(xs) * Len(xs)
<1> DEFINE n == Len(xs)
           squares == [i \in DOMAIN xs |-> xs[i] * xs[i]]
           one == Sums(xs)
           two == Sums(squares)
           Q(i) == two[i] - 2 * v * one[i] + i * v * v
           T == {i \in 0..n : Q(i) \in 0..(100 * i)}
<1>1. n \in Nat /\ DOMAIN xs = 1..n /\ \A k \in 1..n : xs[k] \in Int
  OBVIOUS
<1>2. squares \in Seq(Int) /\ Len(squares) = n /\ \A k \in 1..n : squares[k] = xs[k] * xs[k]
  <2>1. squares \in [1..n -> Int]
    BY <1>1
  <2> QED BY <1>1, <2>1
<1> HIDE DEF n, squares
<1>3. /\ A!Total(xs) = one[n] /\ one[0] = 0
      /\ \A i \in 1..n : one[i] = one[i - 1] + xs[i]
      /\ \A i \in 0..n : one[i] \in Int
  BY SumsOf, TotalIsSum DEF n
<1>4. /\ A!Total(squares) = two[n] /\ two[0] = 0
      /\ \A i \in 1..n : two[i] = two[i - 1] + xs[i] * xs[i]
      /\ \A i \in 0..n : two[i] \in Int
  BY <1>2, SumsOf, TotalIsSum
<1> HIDE DEF one, two
<1>5. 0 \in T
  <2>1. Q(0) = 0
    BY <1>3, <1>4
  <2> QED BY <1>1, <2>1
<1>6. ASSUME NEW i \in 1..n, i - 1 \in T PROVE i \in T
  <2> DEFINE y == xs[i] - v
  <2>1. i \in 0..n /\ i - 1 \in 0..n /\ i \in Int /\ xs[i] \in Int
    BY <1>1
  <2>2. /\ one[i] = one[i - 1] + xs[i] /\ two[i] = two[i - 1] + xs[i] * xs[i]
        /\ one[i] \in Int /\ two[i] \in Int /\ one[i - 1] \in Int /\ two[i - 1] \in Int
    BY <2>1, <1>3, <1>4
  <2>3. y \in Int /\ y <= 10 /\ -y <= 10
    BY <1>1, <2>1
  <2>4. y * y \in 0..100
    <3> HIDE DEF y
    <3> QED BY <2>3, SmallSquare
  <2>5. Q(i) = Q(i - 1) + y * y
    <3> DEFINE x == xs[i]
    <3>1. /\ x \in Int /\ i \in Int /\ one[i] = one[i - 1] + x
          /\ two[i] = two[i - 1] + x * x /\ one[i - 1] \in Int /\ two[i - 1] \in Int
      BY <2>1, <2>2
    <3>2. y = x - v
      OBVIOUS
    <3> HIDE DEF x, y
    <3>3. Q(i) = (two[i - 1] + x * x) - 2 * v * (one[i - 1] + x) + i * v * v
      BY <3>1
    <3>4. SquaresAdd(one[i - 1], two[i - 1], x, v, i)
      BY <3>1, OneMoreSquare
    <3>5. (two[i - 1] + x * x) - 2 * v * (one[i - 1] + x) + i * v * v
            = Q(i - 1) + (x - v) * (x - v)
      BY <3>4 DEF SquaresAdd
    <3> QED BY <3>2, <3>3, <3>5
  <2>6. Q(i - 1) \in 0..(100 * (i - 1))
    BY <1>6
  <2> DEFINE z == y * y
  <2>7. Q(i) = Q(i - 1) + z /\ z \in 0..100
    BY <2>4, <2>5
  <2> HIDE DEF Q, y, z
  <2> DEFINE p == Q(i - 1)
             q == Q(i)
  <2>8. p \in Int /\ p >= 0 /\ p <= 100 * (i - 1) /\ q = p + z /\ z >= 0 /\ z <= 100 /\ z \in Int
    BY <2>1, <2>6, <2>7
  <2> HIDE DEF p, q, T
  <2>9. q \in Int /\ q >= 0 /\ q <= 100 * i
    BY <2>1, <2>8
  <2>10. q \in 0..(100 * i)
    BY <2>1, <2>9
  <2> QED BY <2>1, <2>10 DEF q, T
<1>7. n \in T
  <2> HIDE DEF T
  <2>1. 0..n \subseteq T
    BY <1>1, <1>5, <1>6, SetInduction
  <2> QED BY <1>1, <2>1
<1>8. A!Spread(xs) = n * two[n] - one[n] * one[n]
  BY <1>3, <1>4 DEF A!Spread, n, squares
<1>9. one[n] \in Int /\ two[n] \in Int
  BY <1>1, <1>3, <1>4
<1> DEFINE d == one[n] - n * v
           q == Q(n)
<1>10. n * two[n] - one[n] * one[n] = n * q - d * d
  <2>1. SpreadShifts(one[n], two[n], v, n)
    BY <1>1, <1>9, SpreadFromElsewhere
  <2> QED BY <2>1 DEF SpreadShifts
<1>11. q \in 0..(100 * n)
  BY <1>7
<1>12. d \in Int
  BY <1>1, <1>9
<1> HIDE DEF d, q
<1>13. d * d >= 0 /\ d * d \in Int
  BY <1>12
<1>14. n * q <= n * (100 * n) /\ n * q \in Int
  <2>1. (100 * n) - q \in Nat /\ q \in Nat
    BY <1>1, <1>11
  <2>2. n * ((100 * n) - q) \in Nat
    BY <1>1, <2>1
  <2>3. n * ((100 * n) - q) = n * (100 * n) - n * q
    BY <1>1, <2>1
  <2> QED BY <1>1, <2>1, <2>2, <2>3
<1>15. n * (100 * n) = 100 * n * n /\ n * (100 * n) \in Int
  BY <1>1
<1>16. A!Spread(xs) <= 100 * n * n
  BY <1>8, <1>10, <1>13, <1>14, <1>15
<1> QED BY <1>16 DEF n

------------------------------
(* What is tried.                                                          *)

Candidates == [frame : Int, peak : Int]

\* Frames one after the other.
IsRising(s) == \A j, k \in DOMAIN s : j < k => s[j].frame < s[k].frame

\* s and r hold the same.
HoldSame(r, s) ==
  /\ \A k \in DOMAIN r : \E j \in DOMAIN s : r[k] = s[j]
  /\ \A j \in DOMAIN s : \E k \in DOMAIN r : r[k] = s[j]

\* What is in order already stays in order when it is sorted.
LEMMA SortedStays ==
  ASSUME NEW s \in Seq(Candidates), IsRising(s)
  PROVE  LET r == A!SortedCandidates(s)
         IN r \in Seq(Candidates) /\ IsRising(r) /\ HoldSame(r, s)
<1> DEFINE n == Len(s)
           Before(j, k) == \/ s[j].frame < s[k].frame
                           \/ /\ s[j].frame = s[k].frame
                              /\ \/ s[j].peak > s[k].peak
                                 \/ s[j].peak = s[k].peak /\ j < k
           Ranked(i, k) == A!Cardinality({j \in DOMAIN s : Before(j, k)}) = i - 1
           sorted == [i \in DOMAIN s |-> s[CHOOSE k \in DOMAIN s : Ranked(i, k)]]
           M == {i \in DOMAIN sorted : i > 1 => sorted[i - 1].frame # sorted[i].frame}
           r == A!SortedCandidates(s)
<1>1. /\ n \in Nat /\ DOMAIN s = 1..n
      /\ \A k \in 1..n : s[k] \in Candidates /\ s[k].frame \in Int /\ s[k].peak \in Int
  <2>1. n \in Nat /\ DOMAIN s = 1..n /\ \A k \in 1..n : s[k] \in Candidates
    OBVIOUS
  <2>2. \A x \in Candidates : x.frame \in Int /\ x.peak \in Int
    BY DEF Candidates
  <2> QED BY <2>1, <2>2
<1>2. r = A!Picked(sorted, M)
  BY DEF A!SortedCandidates
<1> HIDE DEF n
<1>3. ASSUME NEW i \in 1..n, NEW k \in 1..n PROVE Ranked(i, k) <=> i = k
  <2>1. ASSUME NEW j \in 1..n PROVE Before(j, k) <=> j < k
    <3>1. /\ j < k => s[j].frame < s[k].frame
          /\ k < j => s[k].frame < s[j].frame
      BY <1>1 DEF IsRising
    <3>2. s[j].frame \in Int /\ s[k].frame \in Int
      BY <1>1
    <3>3. j < k \/ j = k \/ k < j
      BY <1>1
    <3> QED BY <1>1, <3>1, <3>2, <3>3
  <2> HIDE DEF Before
  <2>2. {j \in DOMAIN s : Before(j, k)} = 1..(k - 1)
    BY <1>1, <2>1
  <2>3. Cardinality(1..(k - 1)) = k - 1
    <3>1. k - 1 \in Nat /\ k - 1 \in Int /\ 1 \in Int
      BY <1>1
    <3>2. Cardinality(1..(k - 1)) = IF 1 > k - 1 THEN 0 ELSE (k - 1) - 1 + 1
      BY <3>1, FS_Interval
    <3> QED BY <3>1, <3>2
  <2>4. A!Cardinality({j \in DOMAIN s : Before(j, k)}) = k - 1
    BY <2>2, <2>3, SameCardinality
  <2> QED BY <1>1, <2>4
<1> HIDE DEF Ranked
<1>4. ASSUME NEW i \in 1..n PROVE (CHOOSE k \in DOMAIN s : Ranked(i, k)) = i
  <2>1. \E k \in DOMAIN s : Ranked(i, k)
    BY <1>1, <1>3
  <2> QED BY <1>1, <1>3, <2>1
<1>5. DOMAIN sorted = 1..n /\ \A i \in 1..n : sorted[i] = s[i]
  BY <1>1, <1>4
<1>6. sorted \in Seq(Candidates) /\ Len(sorted) = n
  <2>1. sorted = [i \in 1..n |-> sorted[i]]
    BY <1>1
  <2> HIDE DEF sorted
  <2>2. sorted \in [1..n -> Candidates]
    BY <1>1, <1>5, <2>1
  <2> QED BY <1>1, <2>2
<1> HIDE DEF sorted
<1>7. ASSUME NEW i \in 1..n PROVE i \in M
  <2>1. CASE i = 1
    BY <1>1, <1>5, <2>1
  <2>2. CASE i # 1
    <3>1. i - 1 \in 1..n /\ i - 1 < i
      BY <1>1, <2>2
    <3>2. s[i - 1].frame < s[i].frame /\ s[i - 1].frame \in Int /\ s[i].frame \in Int
      BY <1>1, <3>1 DEF IsRising
    <3> QED BY <1>5, <3>1, <3>2
  <2> QED BY <2>1, <2>2
<1> HIDE DEF M
<1>8. r \in Seq(Candidates) /\ \E f : IsPick(r, sorted, M, f, n)
  BY <1>2, <1>6, PickedOf
<1>9. PICK f : IsPick(r, sorted, M, f, n)
  BY <1>8
<1> HIDE DEF r
<1>10. /\ f \in [1..Len(r) -> 1..n] /\ DOMAIN r = 1..Len(r) /\ Len(r) \in Nat
       /\ \A k \in 1..Len(r) : r[k] = s[f[k]]
       /\ \A j, k \in 1..Len(r) : j < k => f[j] < f[k]
       /\ \A m \in 1..n : \E k \in 1..Len(r) : f[k] = m
  <2>1. /\ f \in [1..Len(r) -> 1..n]
        /\ \A k \in 1..Len(r) : r[k] = sorted[f[k]]
        /\ \A j, k \in 1..Len(r) : j < k => f[j] < f[k]
        /\ \A m \in 1..n : m \in M => \E k \in 1..Len(r) : f[k] = m
    BY <1>9 DEF IsPick
  <2>2. ASSUME NEW k \in 1..Len(r) PROVE r[k] = s[f[k]]
    <3>1. f[k] \in 1..n
      BY <2>1
    <3> QED BY <1>5, <2>1, <3>1
  <2>3. DOMAIN r = 1..Len(r) /\ Len(r) \in Nat
    BY <1>8
  <2> QED BY <1>7, <2>1, <2>2, <2>3
<1>11. IsRising(r)
  <2>1. ASSUME NEW j \in 1..Len(r), NEW k \in 1..Len(r), j < k
        PROVE  r[j].frame < r[k].frame
    <3>1. f[j] \in 1..n /\ f[k] \in 1..n /\ f[j] < f[k]
      BY <1>10, <2>1
    <3>2. s[f[j]].frame < s[f[k]].frame
      BY <1>1, <3>1 DEF IsRising
    <3> QED BY <1>10, <3>2
  <2> QED BY <1>10, <2>1 DEF IsRising
<1>12. HoldSame(r, s)
  <2>1. ASSUME NEW k \in 1..Len(r) PROVE f[k] \in 1..n /\ r[k] = s[f[k]]
    BY <1>10
  <2>2. ASSUME NEW j \in 1..n PROVE \E k \in 1..Len(r) : r[k] = s[j]
    BY <1>10
  <2> QED BY <1>1, <1>10, <2>1, <2>2 DEF HoldSame
<1> QED BY <1>8, <1>11, <1>12 DEF r

\* Pairs are tried row by row; this one is the k-th.
IsPlace(k, m, n, c, e) ==
  k \in 1..(m * n) /\ (k - 1) \div n = c - 1 /\ (k - 1) % n = e - 1

\* Each pair has a place of its own.
LEMMA PlaceOfPair ==
  ASSUME NEW m \in Nat, NEW n \in Nat, NEW c \in 1..m, NEW e \in 1..n
  PROVE  IsPlace((c - 1) * n + e, m, n, c, e)
<1> DEFINE k == (c - 1) * n + e
<1>0. k = (c - 1) * n + e
  OBVIOUS
<1> HIDE DEF k
<1>1. n \in Nat \ {0} /\ c - 1 \in Nat /\ e - 1 \in 0..(n - 1) /\ m - c \in Nat
  OBVIOUS
<1>2. k \in 1..(m * n)
  <2>1. (c - 1) * n \in Nat /\ (m - c) * n \in Nat
    BY <1>1
  <2>2. m * n = (c - 1) * n + (m - c) * n + n
    BY <1>1
  <2> QED BY <1>0, <1>1, <2>1, <2>2
<1> DEFINE q == (k - 1) \div n
           r == (k - 1) % n
<1>3. q \in 0..(m - 1) /\ 1 + r \in 1..n /\ q * n + (1 + r) = k
  <2>1. n \in Nat \ {0} /\ k \in 1..(m * n)
    BY <1>1, <1>2
  <2>2. HasPlace(k, m, n)
    BY <2>1, PlaceOfSample
  <2> QED BY <2>2 DEF HasPlace
<1>4. r \in Int
  BY <1>1, <1>2
<1> HIDE DEF q, r
<1>5. q \in Int /\ r \in 0..(n - 1)
  BY <1>3, <1>4
<1>6. (q - (c - 1)) * n = (e - 1) - r
  BY <1>0, <1>1, <1>3, <1>5
<1> DEFINE d == q - (c - 1)
<1>7. d \in Int /\ d * n < n /\ -n < d * n
  BY <1>1, <1>5, <1>6
<1> HIDE DEF d
<1>8. d = 0
  <2>1. CASE d >= 1
    <3>1. (d - 1) * n \in Nat /\ d * n = (d - 1) * n + n
      BY <1>1, <1>7, <2>1
    <3> QED BY <1>1, <1>7, <3>1
  <2>2. CASE d <= -1
    <3>1. (-1 - d) * n \in Nat /\ d * n = -n - (-1 - d) * n
      BY <1>1, <1>7, <2>2
    <3> QED BY <1>1, <1>7, <3>1
  <2> QED BY <1>7, <2>1, <2>2
<1>9. q = c - 1
  BY <1>1, <1>5, <1>8 DEF d
<1>10. r = e - 1
  BY <1>0, <1>1, <1>3, <1>5, <1>9
<1>11. IsPlace(k, m, n, c, e)
  BY <1>2, <1>9, <1>10 DEF q, r, IsPlace
<1> QED BY <1>0, <1>11

\* Every latency that a candidate and a marker suggest is tried.
LEMMA HypothesisOf ==
  ASSUME NEW candidates \in Seq(Candidates), NEW expected \in Seq(Int)
  PROVE  LET r == A!Hypotheses(candidates, expected)
         IN /\ r \in Seq(Int)
            /\ \A c \in DOMAIN candidates, e \in DOMAIN expected :
                 \E h \in DOMAIN r : r[h] = candidates[c].frame - expected[e]
<1> DEFINE n == Len(expected)
           m == Len(candidates)
           all == [k \in 1..(m * n) |->
                     candidates[1 + ((k - 1) \div n)].frame - expected[1 + ((k - 1) % n)]]
           M == {k \in DOMAIN all : \A j \in 1..(k - 1) : all[j] # all[k]}
           r == A!Hypotheses(candidates, expected)
<1>1. /\ n \in Nat /\ m \in Nat /\ m * n \in Nat
      /\ DOMAIN candidates = 1..m /\ DOMAIN expected = 1..n
      /\ \A c \in 1..m : candidates[c].frame \in Int
      /\ \A e \in 1..n : expected[e] \in Int
  <2>1. n \in Nat /\ DOMAIN expected = 1..n /\ \A e \in 1..n : expected[e] \in Int
    OBVIOUS
  <2>2. m \in Nat /\ DOMAIN candidates = 1..m /\ \A c \in 1..m : candidates[c] \in Candidates
    OBVIOUS
  <2>3. \A x \in Candidates : x.frame \in Int
    BY DEF Candidates
  <2> HIDE DEF n, m
  <2>4. m * n \in Nat
    BY <2>1, <2>2
  <2> QED BY <2>1, <2>2, <2>3, <2>4
<1>2. r = A!Picked(all, M)
  BY DEF A!Hypotheses
<1> HIDE DEF n, m
<1>3. ASSUME NEW k \in 1..(m * n)
      PROVE  (k - 1) \div n \in 0..(m - 1) /\ (k - 1) % n \in 0..(n - 1)
  <2>1. n # 0
    <3> SUFFICES ASSUME n = 0 PROVE FALSE
      OBVIOUS
    <3>1. m * n = 0
      BY <1>1
    <3> QED BY <3>1
  <2>2. n \in Nat \ {0}
    BY <1>1, <2>1
  <2>3. (k - 1) \div n \in 0..(m - 1)
    BY <1>1, <2>2, PlaceOfSample DEF HasPlace
  <2>4. (k - 1) % n \in 0..(n - 1)
    BY <1>1, <2>2
  <2> QED BY <2>3, <2>4
<1> DEFINE J(k) == 1 + ((k - 1) \div n)
           E(k) == 1 + ((k - 1) % n)
<1>4. ASSUME NEW k \in 1..(m * n)
      PROVE  /\ all[k] = candidates[J(k)].frame - expected[E(k)]
             /\ J(k) \in 1..m /\ E(k) \in 1..n
  <2>1. all[k] = candidates[J(k)].frame - expected[E(k)]
    OBVIOUS
  <2> HIDE DEF all
  <2>2. (k - 1) \div n \in Int /\ (k - 1) % n \in Int
    BY <1>3
  <2> QED BY <1>1, <1>3, <2>1, <2>2
<1>5. DOMAIN all = 1..(m * n)
  OBVIOUS
<1>6. all \in [1..(m * n) -> Int]
  <2>1. all = [k \in 1..(m * n) |-> all[k]]
    OBVIOUS
  <2> HIDE DEF all, J, E
  <2>2. ASSUME NEW k \in 1..(m * n) PROVE all[k] \in Int
    <3> DEFINE x == candidates[J(k)].frame
               y == expected[E(k)]
    <3>1. x \in Int /\ y \in Int /\ all[k] = x - y
      BY <1>1, <1>4
    <3> HIDE DEF x, y
    <3> QED BY <3>1
  <2> QED BY <2>1, <2>2
<1> HIDE DEF all
<1>7. all \in Seq(Int) /\ Len(all) = m * n
  BY <1>1, <1>6
<1>8. r \in Seq(Int) /\ \E f : IsPick(r, all, M, f, m * n)
  BY <1>2, <1>7, PickedOf
<1> HIDE DEF r
<1>9. PICK f : IsPick(r, all, M, f, m * n)
  BY <1>8
<1>10. ASSUME NEW k \in 1..(m * n) PROVE \E h \in DOMAIN r : r[h] = all[k]
  <2> DEFINE T == {j \in 1..(m * n) : all[j] = all[k]}
  <2>1. T \in SUBSET Nat /\ k \in T
    BY <1>1
  <2>2. PICK j \in T : \A l \in T : j <= l
    BY <2>1, LeastElement
  <2>3. j \in M
    BY <1>1, <1>5, <2>2 DEF M
  <2>4. PICK h \in 1..Len(r) : f[h] = j
    BY <1>9, <2>2, <2>3 DEF IsPick
  <2>5. r[h] = all[j]
    BY <1>9, <2>4 DEF IsPick
  <2>6. h \in DOMAIN r
    BY <1>8, <2>4
  <2> QED BY <2>2, <2>5, <2>6
<1>11. ASSUME NEW c \in 1..m, NEW e \in 1..n
       PROVE  \E k \in 1..(m * n) : all[k] = candidates[c].frame - expected[e]
  <2> DEFINE k == (c - 1) * n + e
  <2>0. IsPlace(k, m, n, c, e)
    BY <1>1, PlaceOfPair
  <2> HIDE DEF k
  <2>1. /\ k \in 1..(m * n) /\ (k - 1) \div n = c - 1 /\ (k - 1) % n = e - 1
    BY <2>0 DEF IsPlace
  <2>2. J(k) = c /\ E(k) = e
    <3>1. J(k) = 1 + (c - 1) /\ E(k) = 1 + (e - 1)
      BY <2>1
    <3> HIDE DEF J, E
    <3> QED BY <1>1, <3>1
  <2> HIDE DEF J, E
  <2>3. all[k] = candidates[c].frame - expected[e]
    BY <1>4, <2>1, <2>2
  <2> DEFINE top == m * n
             x == candidates[c].frame - expected[e]
  <2>4. k \in 1..top /\ all[k] = x
    BY <2>1, <2>3
  <2> HIDE DEF top, x
  <2>5. \E j \in 1..top : all[j] = x
    BY <2>4
  <2> QED BY <2>5 DEF top, x
<1>12. ASSUME NEW c \in DOMAIN candidates, NEW e \in DOMAIN expected
       PROVE  \E h \in DOMAIN r : r[h] = candidates[c].frame - expected[e]
  <2>1. c \in 1..m /\ e \in 1..n
    BY <1>1
  <2>2. PICK k \in 1..(m * n) : all[k] = candidates[c].frame - expected[e]
    BY <1>11, <2>1
  <2>3. PICK h \in DOMAIN r : r[h] = all[k]
    BY <1>10
  <2> QED BY <2>2, <2>3
<1> QED BY <1>8, <1>12 DEF r

------------------------------
(* What is chosen.                                                         *)

\* The best of a band, met in order.
Bests(s) ==
  CHOOSE best : best = [i \in 1..Len(s) |->
    IF i = 1 THEN s[1]
    ELSE IF A!IsBetterInBand(s[i], best[i - 1]) THEN s[i] ELSE best[i - 1]]

\* It is one of the band.
LEMMA BandBestIsOne ==
  ASSUME NEW D, NEW s \in Seq(D), s # <<>>
  PROVE  \E k \in DOMAIN s : A!FirstBest(s, A!IsBetterInBand) = s[k]
<1> DEFINE n == Len(s)
           R == {s[k] : k \in 1..n}
           base == s[1]
           Step == [p \in (1..n) \X R |->
                      IF p[1] = 1 THEN s[1]
                      ELSE IF A!IsBetterInBand(s[p[1]], p[2]) THEN s[p[1]] ELSE p[2]]
           After(g, i) == IF i = 1 THEN s[1]
                          ELSE IF A!IsBetterInBand(s[i], g[i - 1]) THEN s[i] ELSE g[i - 1]
           Is(g) == g = [i \in 1..n |-> After(g, i)]
           best == Bests(s)
<1>1. n \in Nat /\ n > 0 /\ DOMAIN s = 1..n /\ 1 \in 1..n
  OBVIOUS
<1>2. best = CHOOSE g : Is(g)
  BY DEF Bests
<1>3. A!FirstBest(s, A!IsBetterInBand) = best[n]
  BY DEF A!FirstBest, Bests
<1> HIDE DEF n, best
<1>4. base \in R
  BY <1>1
<1>5. Step \in [(1..n) \X R -> R]
  <2>1. \A i \in 1..n : s[i] \in R
    OBVIOUS
  <2> HIDE DEF R
  <2> QED BY <1>1, <2>1
<1>6. PICK h : RunOver(h, n, R, base, Step)
  <2> HIDE DEF R, base, Step
  <2> QED BY <1>1, <1>4, <1>5, RunsOver
<1>7. ASSUME NEW i \in 1..n PROVE h[i] = After(h, i)
  <2> DEFINE before == IF i = 1 THEN base ELSE h[i - 1]
  <2> HIDE DEF R
  <2>1. before \in R
    BY <1>1, <1>4, <1>6 DEF RunOver
  <2>2. h[i] = Step[<<i, before>>]
    BY <1>6 DEF RunOver
  <2>3. i # 1 => before = h[i - 1]
    OBVIOUS
  <2> HIDE DEF before
  <2> QED BY <2>1, <2>2, <2>3
<1>8. Is(h)
  <2> HIDE DEF After
  <2> QED BY <1>6, <1>7 DEF RunOver
<1>9. Is(best)
  <2> HIDE DEF Is
  <2> QED BY <1>2, <1>8
<1>10. \A i \in 1..n : best[i] = After(best, i)
  <2> HIDE DEF After
  <2> QED BY <1>9
<1> DEFINE T == {i \in 0..n : i > 0 => best[i] \in R}
<1>11. 0 \in T
  BY <1>1
<1>12. ASSUME NEW i \in 1..n, i - 1 \in T PROVE i \in T
  <2>1. CASE i = 1
    BY <1>1, <1>4, <1>10, <2>1
  <2>2. CASE i # 1
    <3>1. best[i - 1] \in R /\ s[i] \in R /\ i \in 0..n
      BY <1>1, <1>12, <2>2
    <3>2. best[i] = After(best, i)
      BY <1>10
    <3> HIDE DEF R
    <3> QED BY <2>2, <3>1, <3>2
  <2> QED BY <2>1, <2>2
<1>13. n \in T
  <2> HIDE DEF T
  <2>1. 0..n \subseteq T
    BY <1>1, <1>11, <1>12, SetInduction
  <2> QED BY <1>1, <2>1
<1>14. best[n] \in R
  BY <1>1, <1>13
<1> QED BY <1>1, <1>3, <1>14

\* When there is strong evidence for a direct train no later than "near", what
\* is chosen is such evidence too, and no later than the tolerance after that.
LEMMA EarliestIsChosen ==
  ASSUME NEW D, NEW found \in Seq(D), NEW near \in Nat, NEW count \in Nat,
         A!ToleranceFrames(Rate) \in Nat,
         \A k \in DOMAIN found : found[k].median \in Int,
         \E k \in DOMAIN found :
           A!IsStrongDirect(found[k], count) /\ found[k].median <= near
  PROVE  LET chosen == A!SelectSequence(found, count, Rate)
         IN /\ \E k \in DOMAIN found : chosen = found[k]
            /\ A!IsStrongDirect(chosen, count)
            /\ chosen.median <= near + A!ToleranceFrames(Rate)
<1> DEFINE n == Len(found)
           tolerance == A!ToleranceFrames(Rate)
           M == {i \in DOMAIN found : A!IsStrongDirect(found[i], count)}
           direct == A!Picked(found, M)
           medians == {direct[i].median : i \in DOMAIN direct}
           earliest == A!Min(medians)
           Q == {i \in DOMAIN direct : direct[i].median - earliest <= tolerance}
           band == A!Picked(direct, Q)
           chosen == A!SelectSequence(found, count, Rate)
<1>1. n \in Nat /\ DOMAIN found = 1..n
  OBVIOUS
<1>2. chosen = IF found = <<>> THEN A!NotFound
               ELSE IF direct # <<>> THEN A!FirstBest(band, A!IsBetterInBand)
               ELSE A!FirstBest(found, A!IsBetterSequence)
  BY DEF A!SelectSequence
<1>3. direct \in Seq(D) /\ \E f : IsPick(direct, found, M, f, n)
  BY PickedOf
<1> HIDE DEF n, chosen, direct
<1>4. PICK f : IsPick(direct, found, M, f, n)
  BY <1>3
<1>5. DOMAIN direct = 1..Len(direct) /\ Len(direct) \in Nat
  BY <1>3
<1>6. ASSUME NEW k \in DOMAIN direct
      PROVE  /\ \E j \in DOMAIN found : direct[k] = found[j]
             /\ A!IsStrongDirect(direct[k], count) /\ direct[k].median \in Nat
  <2>1. f[k] \in 1..n /\ f[k] \in M /\ direct[k] = found[f[k]]
    BY <1>4, <1>5 DEF IsPick
  <2>2. A!IsStrongDirect(direct[k], count) /\ direct[k].median \in Int
    BY <1>1, <2>1
  <2>3. direct[k].median >= 0
    BY <2>2 DEF A!IsStrongDirect
  <2> QED BY <1>1, <2>1, <2>2, <2>3
<1>7. PICK k \in DOMAIN direct : direct[k].median <= near
  <2>1. PICK j \in 1..n : j \in M /\ found[j].median <= near
    BY <1>1
  <2>2. PICK k \in 1..Len(direct) : f[k] = j
    BY <1>4, <2>1 DEF IsPick
  <2>3. direct[k] = found[j]
    BY <1>4, <2>2 DEF IsPick
  <2> QED BY <1>5, <2>1, <2>2, <2>3
<1>8. medians \in SUBSET Nat /\ direct[k].median \in medians
  BY <1>6
<1>9. earliest \in medians /\ \A m \in medians : earliest <= m
  <2> HIDE DEF medians
  <2>1. medians # {}
    BY <1>8
  <2> QED BY <1>8, <2>1, MinOf
<1> HIDE DEF earliest
<1>10. earliest \in Nat /\ earliest <= near
  <2>1. direct[k].median \in Nat /\ direct[k].median <= near
    BY <1>6, <1>7
  <2> HIDE DEF medians
  <2>2. earliest \in Nat /\ earliest <= direct[k].median
    BY <1>8, <1>9
  <2> QED BY <2>1, <2>2
<1>11. band \in Seq(D) /\ \E g : IsPick(band, direct, Q, g, Len(direct))
  BY <1>3, PickedOf
<1> HIDE DEF band
<1>12. PICK g : IsPick(band, direct, Q, g, Len(direct))
  BY <1>11
<1>13. band # <<>>
  <2>1. PICK j \in DOMAIN direct : direct[j].median = earliest
    BY <1>9
  <2>2. j \in Q
    BY <1>10, <2>1
  <2>3. PICK m \in 1..Len(band) : g[m] = j
    BY <1>5, <1>12, <2>1, <2>2 DEF IsPick
  <2> QED BY <2>3
<1>14. PICK m \in DOMAIN band : A!FirstBest(band, A!IsBetterInBand) = band[m]
  BY <1>11, <1>13, BandBestIsOne
<1>15. g[m] \in DOMAIN direct /\ g[m] \in Q /\ band[m] = direct[g[m]]
  <2>1. m \in 1..Len(band)
    BY <1>11, <1>14
  <2> QED BY <1>5, <1>12, <2>1 DEF IsPick
<1>16. found # <<>> /\ direct # <<>>
  BY <1>1, <1>5, <1>6, <1>7
<1>17. chosen = direct[g[m]]
  BY <1>2, <1>14, <1>15, <1>16
<1>18. chosen.median <= near + tolerance
  <2>1. direct[g[m]].median \in Nat /\ direct[g[m]].median - earliest <= tolerance
    BY <1>6, <1>15
  <2> QED BY <1>10, <1>17, <2>1
<1>19. /\ \E j \in DOMAIN found : chosen = found[j]
       /\ A!IsStrongDirect(chosen, count)
  BY <1>6, <1>15, <1>17
<1> QED BY <1>18, <1>19 DEF chosen

------------------------------
(* What a latency is worth.                                                *)

\* The pairing for one latency, and the latencies it measures.
TaskOf(candidates, expected, latency) ==
  [candidates |-> candidates, expected |-> expected, latency |-> latency,
   tolerance |-> A!ToleranceFrames(Rate)]

PairsOf(candidates, expected, latency) ==
  A!BestPairing(TaskOf(candidates, expected, latency)).pairs

Measured(candidates, expected, pair) == candidates[pair[2]].frame - expected[pair[1]]

\* The pairs are of markers and candidates, in order, and each is within the
\* tolerance of the latency.
LEMMA PairsAreNear ==
  ASSUME NEW candidates \in Seq(Candidates), NEW expected \in Seq(Int), NEW latency \in Int,
         A!ToleranceFrames(Rate) \in Nat
  PROVE  LET pairs == PairsOf(candidates, expected, latency)
         IN /\ TaskOf(candidates, expected, latency) \in Tasks
            /\ pairs \in Seq(Nat \X Nat)
            /\ \A k \in DOMAIN pairs :
                 /\ pairs[k][1] \in DOMAIN expected /\ pairs[k][2] \in DOMAIN candidates
                 /\ Measured(candidates, expected, pairs[k]) \in Int
                 /\ Measured(candidates, expected, pairs[k]) - latency
                      <= A!ToleranceFrames(Rate)
                 /\ latency - Measured(candidates, expected, pairs[k])
                      <= A!ToleranceFrames(Rate)
                 /\ k > 1 => /\ pairs[k - 1][1] < pairs[k][1]
                             /\ pairs[k - 1][2] < pairs[k][2]
<1> DEFINE t == TaskOf(candidates, expected, latency)
           cell == A!BestPairing(t)
           pairs == PairsOf(candidates, expected, latency)
           n == Len(expected)
           m == Len(candidates)
<1>1. t \in Tasks
  BY DEF TaskOf, Tasks, Candidates
<1>2. /\ t.candidates = candidates /\ t.expected = expected /\ t.latency = latency
      /\ t.tolerance = A!ToleranceFrames(Rate)
  BY DEF TaskOf
<1>3. pairs = cell.pairs
  BY DEF PairsOf
<1>4. DOMAIN expected = 1..n /\ DOMAIN candidates = 1..m
  OBVIOUS
<1> HIDE DEF t, cell, pairs
<1>5. IsPossible(t, cell, n, m)
  BY <1>1, <1>2, PairingIsBest DEF IsBestCell, cell
<1>6. pairs \in Seq(Nat \X Nat)
  BY <1>3, <1>5 DEF IsPossible, Cells
<1>7. ASSUME NEW k \in DOMAIN pairs
      PROVE  /\ pairs[k][1] \in 1..n /\ pairs[k][2] \in 1..m
             /\ Fitting(t, pairs[k][1], pairs[k][2])
             /\ k > 1 => /\ pairs[k - 1][1] < pairs[k][1]
                         /\ pairs[k - 1][2] < pairs[k][2]
  BY <1>3, <1>5 DEF IsPossible
<1>8. ASSUME NEW k \in DOMAIN pairs
      PROVE  LET x == Measured(candidates, expected, pairs[k])
             IN /\ x \in Int /\ x - latency <= A!ToleranceFrames(Rate)
                /\ latency - x <= A!ToleranceFrames(Rate)
  <2> DEFINE x == Measured(candidates, expected, pairs[k])
             y == A!Residual(t, pairs[k][1], pairs[k][2])
  <2>1. y \in Int
    BY <1>1, <1>2, <1>7, CostTypes
  <2>2. y = candidates[pairs[k][2]].frame - expected[pairs[k][1]] - latency
    BY <1>2 DEF A!Residual
  <2>3. candidates[pairs[k][2]].frame \in Int /\ expected[pairs[k][1]] \in Int
    <3>1. candidates[pairs[k][2]] \in Candidates /\ expected[pairs[k][1]] \in Int
      BY <1>4, <1>7
    <3> QED BY <3>1 DEF Candidates
  <2>4. x \in Int /\ y = x - latency
    BY <2>2, <2>3 DEF Measured
  <2>5. y <= A!ToleranceFrames(Rate) /\ -y <= A!ToleranceFrames(Rate)
    <3>1. AtMostApart(y, 0, t.tolerance)
      BY <1>7 DEF Fitting
    <3> HIDE DEF y
    <3> QED BY <1>2, <2>1, <3>1 DEF AtMostApart
  <2> HIDE DEF x, y
  <2>6. x - latency <= A!ToleranceFrames(Rate) /\ latency - x <= A!ToleranceFrames(Rate)
    BY <2>1, <2>4, <2>5
  <2> QED BY <2>4, <2>6 DEF x
<1> QED BY <1>1, <1>4, <1>6, <1>7, <1>8 DEF t, pairs

\* The latencies of a pairing, and how much they change from pair to pair.
Latencies(candidates, expected, pairs) ==
  [i \in 1..Len(pairs) |-> candidates[pairs[i][2]].frame - expected[pairs[i][1]]]

Changes(xs) == [i \in 1..(Len(xs) - 1) |-> xs[i + 1] - xs[i]]

Sizes(ys) == [i \in DOMAIN ys |-> A!Absolute(ys[i])]

IsCoherent(xs, n) ==
  /\ A!Spread(xs) <= 100 * n * n
  /\ A!Total(Sizes(Changes(xs))) <= 10 * (n - 1)
  /\ A!Spread(Changes(xs)) <= 100 * (n - 1) * (n - 1)

IsMadeOf(s, pairs, xs) ==
  s.pairs = pairs /\ s.median = A!Median(xs) /\ s.coherent = IsCoherent(xs, Len(pairs))

\* What MakeSequence makes of a pairing.
LEMMA SequenceOfPairs ==
  ASSUME NEW candidates, NEW expected, NEW latency
  PROVE  LET s == A!MakeSequence(candidates, expected, latency, Rate)
             pairs == PairsOf(candidates, expected, latency)
         IN IF Len(pairs) < 2 THEN s = A!NotFound
            ELSE IsMadeOf(s, pairs, Latencies(candidates, expected, pairs))
<1> DEFINE pairing == A!BestPairing(TaskOf(candidates, expected, latency))
           pairs == pairing.pairs
           xs == Latencies(candidates, expected, pairs)
           n == Len(pairs)
           ys == Changes(xs)
           s == A!MakeSequence(candidates, expected, latency, Rate)
           lat == [i \in 1..Len(pairing.pairs) |->
                     candidates[pairing.pairs[i][2]].frame - expected[pairing.pairs[i][1]]]
           err == [i \in 1..(n - 1) |-> lat[i + 1] - lat[i]]
           fit == A!Fit(pairing, candidates, expected, Rate)
<1>1. pairs = PairsOf(candidates, expected, latency)
  BY DEF PairsOf
<1>2. s = IF n < 2 THEN A!NotFound ELSE fit
  BY DEF A!MakeSequence, TaskOf
<1> HIDE DEF pairing
<1>3. /\ fit.pairs = pairing.pairs
      /\ fit.median = A!Median(lat)
      /\ fit.coherent = (/\ A!Spread(lat) <= 100 * n * n
                         /\ A!Total([i \in DOMAIN err |-> A!Absolute(err[i])]) <= 10 * (n - 1)
                         /\ A!Spread(err) <= 100 * (n - 1) * (n - 1))
  BY DEF A!Fit
<1>4. lat = xs
  BY DEF Latencies
<1>5. err = ys
  <2>1. ys = [i \in 1..(Len(xs) - 1) |-> xs[i + 1] - xs[i]]
    BY DEF Changes
  <2>2. Len(xs) = n
    BY DEF Latencies
  <2> HIDE DEF lat, xs, ys
  <2> QED BY <1>4, <2>1, <2>2
<1>6. [i \in DOMAIN err |-> A!Absolute(err[i])] = Sizes(err)
  BY DEF Sizes
<1> HIDE DEF lat, err, fit, xs, ys, n
<1>7. IsMadeOf(fit, pairs, xs)
  BY <1>3, <1>4, <1>5, <1>6 DEF IsMadeOf, IsCoherent, n, ys
<1> QED BY <1>1, <1>2, <1>7 DEF n, s, xs

\* The elements of a sequence.
LEMMA ElementsOf ==
  ASSUME NEW D, NEW s \in Seq(D)
  PROVE  /\ Len(s) \in Nat /\ DOMAIN s = 1..Len(s)
         /\ \A k \in 1..Len(s) : s[k] \in D
OBVIOUS

IsSequence(s, n, D) == s \in Seq(D) /\ Len(s) = n /\ DOMAIN s = 1..n

\* A function on 1..n with values in D is a sequence over D.
LEMMA SequenceOf ==
  ASSUME NEW D, NEW n \in Nat, NEW s, DOMAIN s = 1..n, s = [k \in 1..n |-> s[k]],
         \A k \in 1..n : s[k] \in D
  PROVE  IsSequence(s, n, D)
<1>1. s \in [1..n -> D]
  OBVIOUS
<1> QED BY <1>1 DEF IsSequence

\* A train that is found has the latency of one of its pairs.
LEMMA FoundIsMeasured ==
  ASSUME NEW candidates \in Seq(Candidates), NEW expected \in Seq(Int), NEW latency \in Int,
         A!ToleranceFrames(Rate) \in Nat,
         Len(PairsOf(candidates, expected, latency)) >= 2
  PROVE  LET s == A!MakeSequence(candidates, expected, latency, Rate)
             pairs == PairsOf(candidates, expected, latency)
         IN /\ s.pairs = pairs /\ s # A!NotFound
            /\ \E k \in DOMAIN pairs : s.median = Measured(candidates, expected, pairs[k])
            /\ s.median \in Int
<1> DEFINE s == A!MakeSequence(candidates, expected, latency, Rate)
           pairs == PairsOf(candidates, expected, latency)
           xs == Latencies(candidates, expected, pairs)
           n == Len(pairs)
<1>1. /\ pairs \in Seq(Nat \X Nat)
      /\ \A k \in DOMAIN pairs : Measured(candidates, expected, pairs[k]) \in Int
  BY PairsAreNear
<1>2. s.pairs = pairs /\ s.median = A!Median(xs)
  <2>1. ~(n < 2)
    BY <1>1, ElementsOf
  <2>2. IsMadeOf(s, pairs, xs)
    BY <2>1, SequenceOfPairs
  <2> HIDE DEF s, pairs, xs
  <2> QED BY <2>2 DEF IsMadeOf
<1> HIDE DEF s, pairs
<1>3. n \in Nat /\ n >= 2 /\ DOMAIN pairs = 1..n
  <2>1. n >= 2
    BY DEF pairs
  <2> QED BY <1>1, <2>1, ElementsOf
<1>4. /\ Len(xs) = n /\ DOMAIN xs = 1..n /\ xs \in Seq(Int)
      /\ \A k \in 1..n : xs[k] = Measured(candidates, expected, pairs[k])
  <2>1. xs = [k \in 1..n |-> Measured(candidates, expected, pairs[k])]
    BY DEF Latencies, Measured
  <2> HIDE DEF xs
  <2>2. /\ DOMAIN xs = 1..n /\ xs = [k \in 1..n |-> xs[k]]
        /\ \A k \in 1..n : xs[k] = Measured(candidates, expected, pairs[k])
    BY <2>1
  <2>3. \A k \in 1..n : xs[k] \in Int
    BY <1>1, <1>3, <2>2
  <2>4. IsSequence(xs, n, Int)
    BY <1>3, <2>2, <2>3, SequenceOf
  <2> QED BY <2>2, <2>3, <2>4 DEF IsSequence
<1> HIDE DEF xs
<1>5. xs # <<>>
  BY <1>3, <1>4
<1>6. PICK k \in 1..n : A!Median(xs) = xs[k]
  BY <1>4, <1>5, MedianIsOne
<1>7. s.median = Measured(candidates, expected, pairs[k]) /\ s.median \in Int
  BY <1>1, <1>2, <1>3, <1>4, <1>6
<1>8. s # A!NotFound
  <2>1. A!NotFound.pairs = <<>>
    BY DEF A!NotFound
  <2> QED BY <1>2, <1>3, <2>1
<1> QED BY <1>2, <1>3, <1>7, <1>8 DEF s, pairs

\* Latencies within ten frames of each other are strong evidence.
LEMMA SteadyTrainIsStrong ==
  ASSUME NEW candidates \in Seq(Candidates), NEW expected \in Seq(Int), NEW latency \in Int,
         A!ToleranceFrames(Rate) \in Nat,
         NEW pairs, pairs = PairsOf(candidates, expected, latency),
         Len(pairs) >= 2, 4 * Len(pairs) >= 3 * Len(expected),
         \A k \in DOMAIN pairs : Measured(candidates, expected, pairs[k]) >= 0,
         \A j, k \in DOMAIN pairs :
           Measured(candidates, expected, pairs[j])
             - Measured(candidates, expected, pairs[k]) <= 10
  PROVE  A!IsStrongDirect(A!MakeSequence(candidates, expected, latency, Rate), Len(expected))
<1> DEFINE s == A!MakeSequence(candidates, expected, latency, Rate)
           xs == Latencies(candidates, expected, pairs)
           n == Len(pairs)
           ys == Changes(xs)
           sizes == Sizes(ys)
<1>1. /\ pairs \in Seq(Nat \X Nat)
      /\ \A k \in DOMAIN pairs : Measured(candidates, expected, pairs[k]) \in Int
  BY PairsAreNear
<1>2. /\ s.pairs = pairs
      /\ s.coherent = (/\ A!Spread(xs) <= 100 * n * n
                       /\ A!Total(sizes) <= 10 * (n - 1)
                       /\ A!Spread(ys) <= 100 * (n - 1) * (n - 1))
  <2>1. ~(n < 2)
    BY <1>1, ElementsOf
  <2>2. IsMadeOf(s, pairs, xs)
    BY <2>1, SequenceOfPairs
  <2> HIDE DEF s, xs
  <2> QED BY <2>2 DEF IsMadeOf, IsCoherent
<1>3. (\E k \in DOMAIN pairs : s.median = Measured(candidates, expected, pairs[k]))
      /\ s.median \in Int
  BY FoundIsMeasured
<1> HIDE DEF s
<1>4. n \in Nat /\ n >= 2 /\ DOMAIN pairs = 1..n
  BY <1>1, ElementsOf
<1>5. /\ Len(xs) = n /\ DOMAIN xs = 1..n /\ xs \in Seq(Int)
      /\ \A k \in 1..n : xs[k] = Measured(candidates, expected, pairs[k]) /\ xs[k] \in Int
  <2>1. xs = [k \in 1..n |-> Measured(candidates, expected, pairs[k])]
    BY DEF Latencies, Measured
  <2> HIDE DEF xs
  <2>2. /\ DOMAIN xs = 1..n /\ xs = [k \in 1..n |-> xs[k]]
        /\ \A k \in 1..n : xs[k] = Measured(candidates, expected, pairs[k])
    BY <2>1
  <2>3. \A k \in 1..n : xs[k] \in Int
    BY <1>1, <1>4, <2>2
  <2>4. IsSequence(xs, n, Int)
    BY <1>4, <2>2, <2>3, SequenceOf
  <2> QED BY <2>2, <2>3, <2>4 DEF IsSequence
<1>6. ASSUME NEW j \in 1..n, NEW k \in 1..n PROVE xs[j] - xs[k] <= 10
  <2>1. Measured(candidates, expected, pairs[j])
          - Measured(candidates, expected, pairs[k]) <= 10
    BY <1>4
  <2>2. xs[j] = Measured(candidates, expected, pairs[j])
        /\ xs[k] = Measured(candidates, expected, pairs[k])
    BY <1>5
  <2> HIDE DEF xs
  <2> QED BY <2>1, <2>2
<1>7. ys = [i \in 1..(n - 1) |-> xs[i + 1] - xs[i]]
  BY <1>5 DEF Changes
<1> HIDE DEF xs, n, ys
<1>8. A!Spread(xs) <= 100 * n * n
  <2>1. xs[1] \in Int /\ \A k \in DOMAIN xs : xs[k] - xs[1] <= 10 /\ xs[1] - xs[k] <= 10
    BY <1>4, <1>5, <1>6
  <2> QED BY <1>5, <2>1, SpreadIsBounded
<1>9. /\ Len(ys) = n - 1 /\ DOMAIN ys = 1..(n - 1) /\ ys \in Seq(Int) /\ n - 1 \in Nat
      /\ \A k \in 1..(n - 1) : ys[k] \in Int /\ ys[k] <= 10 /\ -ys[k] <= 10
  <2>1. ASSUME NEW k \in 1..(n - 1) PROVE ys[k] \in Int /\ ys[k] <= 10 /\ -ys[k] <= 10
    <3>1. k \in 1..n /\ k + 1 \in 1..n
      BY <1>4
    <3>2. /\ xs[k] \in Int /\ xs[k + 1] \in Int
          /\ xs[k + 1] - xs[k] <= 10 /\ xs[k] - xs[k + 1] <= 10
      BY <1>5, <1>6, <3>1
    <3>3. ys[k] = xs[k + 1] - xs[k]
      BY <1>7
    <3> QED BY <3>2, <3>3
  <2>2. n - 1 \in Nat /\ DOMAIN ys = 1..(n - 1) /\ ys = [k \in 1..(n - 1) |-> ys[k]]
    BY <1>4, <1>7
  <2>3. IsSequence(ys, n - 1, Int)
    BY <2>1, <2>2, SequenceOf
  <2> QED BY <2>1, <2>2, <2>3 DEF IsSequence
<1>10. A!Spread(ys) <= 100 * (n - 1) * (n - 1)
  <2> DEFINE v == 0
  <2>1. v \in Int /\ \A k \in DOMAIN ys : ys[k] - v <= 10 /\ v - ys[k] <= 10
    <3>1. ASSUME NEW k \in DOMAIN ys PROVE ys[k] - v <= 10 /\ v - ys[k] <= 10
      <4>1. ys[k] \in Int /\ ys[k] <= 10 /\ -ys[k] <= 10
        BY <1>9
      <4> QED BY <4>1
    <3> QED BY <3>1
  <2> HIDE DEF v
  <2>2. A!Spread(ys) <= 100 * Len(ys) * Len(ys)
    BY <1>9, <2>1, SpreadIsBounded
  <2>3. Len(ys) = n - 1
    BY <1>9
  <2> HIDE DEF ys, n
  <2> QED BY <2>2, <2>3, Zenon
<1>11. A!Total(sizes) <= 10 * (n - 1)
  <2>1. ASSUME NEW k \in 1..(n - 1) PROVE A!Absolute(ys[k]) \in 0..10
    <3>1. ys[k] \in Int /\ ys[k] <= 10 /\ -ys[k] <= 10
      BY <1>9
    <3> DEFINE z == A!Absolute(ys[k])
    <3>2. z \in Int /\ z <= 10 /\ z >= 0
      BY <3>1 DEF A!Absolute
    <3> HIDE DEF z
    <3>3. z \in 0..10
      BY <3>2
    <3> QED BY <3>3 DEF z
  <2>2. DOMAIN sizes = 1..(n - 1) /\ sizes = [k \in 1..(n - 1) |-> sizes[k]]
        /\ \A k \in 1..(n - 1) : sizes[k] = A!Absolute(ys[k])
    <3>1. DOMAIN ys = 1..(n - 1)
      BY <1>9
    <3>2. sizes = [k \in 1..(n - 1) |-> A!Absolute(ys[k])]
      BY <3>1 DEF Sizes
    <3> HIDE DEF sizes
    <3> QED BY <3>2
  <2> HIDE DEF sizes
  <2>3. IsSequence(sizes, n - 1, Int)
    <3>1. ASSUME NEW k \in 1..(n - 1) PROVE sizes[k] \in Int
      <4>1. A!Absolute(ys[k]) \in 0..10
        BY <2>1
      <4> QED BY <2>2, <4>1
    <3> QED BY <1>9, <2>2, <3>1, SequenceOf
  <2>4. \A k \in DOMAIN sizes : sizes[k] \in 0..10
    BY <2>1, <2>2
  <2>5. A!Total(sizes) <= 10 * Len(sizes)
    BY <2>3, <2>4, TotalIsBounded DEF IsSequence
  <2> QED BY <2>3, <2>5 DEF IsSequence
<1>12. s.median >= 0
  BY <1>3
<1>13. Len(s.pairs) = n /\ 4 * n >= 3 * Len(expected)
  BY <1>2 DEF n
<1> QED BY <1>2, <1>8, <1>10, <1>11, <1>12, <1>13 DEF A!IsStrongDirect, s

\* Any way to pair them is no longer than the pairing that is made.
LEMMA PairsAreMost ==
  ASSUME NEW candidates \in Seq(Candidates), NEW expected \in Seq(Int), NEW latency \in Int,
         A!ToleranceFrames(Rate) \in Nat,
         NEW f, IsChoice(TaskOf(candidates, expected, latency), f, Len(expected),
                         Len(candidates))
  PROVE  Cardinality(DOMAIN f) <= Len(PairsOf(candidates, expected, latency))
<1> DEFINE t == TaskOf(candidates, expected, latency)
           cell == A!BestPairing(t)
<1>1. t \in Tasks
  BY PairsAreNear
<1>2. t.candidates = candidates /\ t.expected = expected
  BY DEF TaskOf
<1> HIDE DEF t
<1>3. IsUnbeaten(t, cell, Len(expected), Len(candidates))
  BY <1>1, <1>2, PairingIsBest DEF IsBestCell
<1>4. IsNoBetter(Worth(t, f, Len(expected)), Scored(cell))
  BY <1>3 DEF IsUnbeaten, t
<1>5. Worth(t, f, Len(expected)).count = Cardinality(DOMAIN f)
  BY DEF Worth
<1>6. Scored(cell).count = Len(cell.pairs)
  BY DEF Scored
<1> QED BY <1>4, <1>5, <1>6 DEF IsNoBetter, PairsOf, t

\* The square of a number up to b.
LEMMA SquareIsBounded ==
  ASSUME NEW b \in Nat, NEW y \in Int, y <= b, -y <= b
  PROVE  y * y \in 0..(b * b) /\ (y * y = 0 => y = 0)
<1>1. (b - y) * (b + y) = b * b - y * y /\ y * y \in Int /\ b * b \in Int
  OBVIOUS
<1>2. b - y \in Nat /\ b + y \in Nat
  OBVIOUS
<1>3. (b - y) * (b + y) \in Nat
  BY <1>2
<1>4. y * y >= 0
  OBVIOUS
<1>5. y * y = 0 => y = 0
  OBVIOUS
<1> QED BY <1>1, <1>3, <1>4, <1>5

\* When every marker can be paired exactly, it is.
LEMMA PairsAreExact ==
  ASSUME NEW candidates \in Seq(Candidates), NEW expected \in Seq(Int), NEW latency \in Int,
         A!ToleranceFrames(Rate) \in Nat,
         NEW t, t = TaskOf(candidates, expected, latency),
         NEW f, IsChoice(t, f, Len(expected), Len(candidates)),
         \A k \in 1..Len(expected) : k \in DOMAIN f,
         \A k \in DOMAIN f : A!Residual(t, k, f[k]) = 0
  PROVE  LET pairs == PairsOf(candidates, expected, latency)
         IN /\ Len(pairs) = Len(expected)
            /\ \A k \in DOMAIN pairs : Measured(candidates, expected, pairs[k]) = latency
<1> DEFINE cell == A!BestPairing(t)
           pairs == PairsOf(candidates, expected, latency)
           m == Len(pairs)
           n == Len(expected)
           tolerance == A!ToleranceFrames(Rate)
           costs == CostsOf(t, pairs)
           worth == Worth(t, f, n)
<1>1. /\ t \in Tasks /\ pairs \in Seq(Nat \X Nat)
      /\ \A k \in DOMAIN pairs :
           /\ pairs[k][1] \in DOMAIN expected /\ pairs[k][2] \in DOMAIN candidates
           /\ Measured(candidates, expected, pairs[k]) \in Int
           /\ Measured(candidates, expected, pairs[k]) - latency <= tolerance
           /\ latency - Measured(candidates, expected, pairs[k]) <= tolerance
           /\ k > 1 => pairs[k - 1][1] < pairs[k][1]
  BY PairsAreNear
<1>2. /\ t.candidates = candidates /\ t.expected = expected /\ t.latency = latency
  BY DEF TaskOf
<1>3. pairs = cell.pairs
  BY DEF PairsOf
<1> HIDE DEF pairs, cell
<1>4. m \in Nat /\ n \in Nat /\ DOMAIN pairs = 1..m /\ DOMAIN expected = 1..n
  BY <1>1
<1> HIDE DEF m, n
<1>19. DOMAIN f = 1..n
  <2>1. DOMAIN f \subseteq 1..n
    BY DEF IsChoice, n
  <2>2. 1..n \subseteq DOMAIN f
    BY DEF n
  <2> QED BY <2>1, <2>2
<1>0. ASSUME NEW k \in 1..m
      PROVE  pairs[k][1] \in 1..n /\ (k > 1 => pairs[k - 1][1] < pairs[k][1])
  BY <1>1, <1>4
<1>5. m <= n
  <2> DEFINE T == {k \in 0..m : k > 0 => k <= pairs[k][1]}
  <2>1. 0 \in T
    BY <1>4
  <2>2. ASSUME NEW k \in 1..m, k - 1 \in T PROVE k \in T
    <3>1. pairs[k][1] \in 1..n /\ k \in 0..m
      BY <1>0, <1>4
    <3>2. CASE k = 1
      BY <1>4, <3>1, <3>2
    <3>3. CASE k # 1
      <4>1. k - 1 \in 1..m /\ k > 1
        BY <1>4, <3>3
      <4>2. pairs[k - 1][1] \in 1..n /\ pairs[k - 1][1] < pairs[k][1] /\ k - 1 <= pairs[k - 1][1]
        BY <1>0, <1>4, <2>2, <4>1
      <4> QED BY <1>4, <3>1, <4>1, <4>2
    <3> QED BY <3>2, <3>3
  <2>3. m \in T
    <3> HIDE DEF T
    <3>1. 0..m \subseteq T
      BY <1>4, <2>1, <2>2, SetInduction
    <3> QED BY <1>4, <3>1
  <2>4. CASE m = 0
    BY <1>4, <2>4
  <2>5. CASE m > 0
    <3>1. m \in 1..m /\ m <= pairs[m][1]
      BY <1>4, <2>3, <2>5
    <3>2. pairs[m][1] \in 1..n
      BY <1>0, <3>1
    <3> QED BY <1>4, <3>1, <3>2
  <2> QED BY <1>4, <2>4, <2>5
<1>6. IsBestCell(t, cell, n, Len(candidates))
  BY <1>1, <1>2, PairingIsBest DEF cell, n
<1>7. IsNoBetter(worth, Scored(cell))
  BY <1>6 DEF IsBestCell, IsUnbeaten, n
<1>8. worth.count = n /\ worth.residual = 0
  <2>1. Cardinality(1..n) = n
    <3>1. n \in Int /\ 1 \in Int
      BY <1>4
    <3>2. Cardinality(1..n) = IF 1 > n THEN 0 ELSE n - 1 + 1
      BY <3>1, FS_Interval
    <3> QED BY <1>4, <3>2
  <2>2. worth.count = Cardinality(DOMAIN f) /\ worth.residual = A!Total(SquaresOf(t, f, n))
    BY DEF Worth, n
  <2>3. \A k \in 1..n : SquaresOf(t, f, n)[k] = 0
    BY DEF SquaresOf, SquareOf, n
  <2>4. DOMAIN SquaresOf(t, f, n) = 1..n
    BY DEF SquaresOf
  <2> DEFINE squares == SquaresOf(t, f, n)
  <2>5. squares \in Seq(Int) /\ Len(squares) = n
    <3>1. squares = [k \in 1..n |-> squares[k]]
      BY DEF SquaresOf
    <3> HIDE DEF squares
    <3>2. squares \in [1..n -> Int]
      <4>1. \A k \in 1..n : squares[k] \in Int
        BY <2>3 DEF squares
      <4> QED BY <3>1, <4>1
    <3> QED BY <1>4, <3>2
  <2>6. \A k \in DOMAIN squares : squares[k] \in 0..0
    BY <2>3, <2>4
  <2> HIDE DEF squares
  <2>7. A!Total(squares) \in Nat /\ A!Total(squares) <= 0 * Len(squares)
    BY <2>5, <2>6, TotalIsBounded
  <2>8. A!Total(squares) = 0
    BY <1>4, <2>5, <2>7
  <2> QED BY <1>19, <2>1, <2>2, <2>8 DEF squares
<1>9. Scored(cell).count = m /\ Scored(cell).residual = cell.residual
  BY <1>3 DEF Scored, m
<1>10. cell.residual = A!Total(costs)
  BY <1>3, <1>6 DEF IsBestCell, IsPossible
<1> HIDE DEF worth
<1>11. m = n /\ (0 > cell.residual \/ 0 = cell.residual)
  BY <1>4, <1>5, <1>7, <1>8, <1>9 DEF IsNoBetter
<1> DEFINE R(k) == A!Residual(t, pairs[k][1], pairs[k][2])
<1>12. ASSUME NEW k \in 1..m
       PROVE  /\ R(k) = Measured(candidates, expected, pairs[k]) - latency
              /\ R(k) \in Int /\ R(k) <= tolerance /\ -R(k) <= tolerance
  <2> DEFINE x == Measured(candidates, expected, pairs[k])
             a == candidates[pairs[k][2]].frame
             b == expected[pairs[k][1]]
  <2>1. x \in Int /\ x - latency <= tolerance /\ latency - x <= tolerance
    BY <1>1, <1>4
  <2>2. x = a - b /\ R(k) = a - b - latency
    BY <1>2 DEF A!Residual, Measured
  <2> HIDE DEF x, a, b, R
  <2>3. R(k) = x - latency
    BY <2>2
  <2> QED BY <2>1, <2>3 DEF x
<1>13. DOMAIN costs = 1..m /\ \A k \in 1..m : costs[k] = R(k) * R(k)
  BY <1>4 DEF CostsOf, SquareOf
<1> HIDE DEF R
<1>14. ASSUME NEW k \in 1..m
       PROVE  costs[k] \in 0..(tolerance * tolerance) /\ (costs[k] = 0 => R(k) = 0)
  <2>1. R(k) \in Int /\ R(k) <= tolerance /\ -R(k) <= tolerance /\ costs[k] = R(k) * R(k)
    BY <1>12, <1>13
  <2> QED BY <2>1, SquareIsBounded
<1>15. tolerance * tolerance \in Nat
  BY SMT
<1>16. costs \in Seq(Int)
  <2>1. costs = [k \in 1..m |-> costs[k]]
    BY <1>4 DEF CostsOf
  <2> HIDE DEF costs
  <2>2. costs \in [1..m -> Int]
    BY <1>14, <1>15, <2>1
  <2> QED BY <1>4, <2>2
<1> HIDE DEF costs
<1>17. A!Total(costs) \in Nat /\ \A k \in 1..m : costs[k] <= A!Total(costs)
  BY <1>13, <1>14, <1>15, <1>16, TotalIsBounded
<1>18. ASSUME NEW k \in 1..m PROVE Measured(candidates, expected, pairs[k]) = latency
  <2>1. A!Total(costs) = 0
    BY <1>10, <1>11, <1>17
  <2>2. costs[k] = 0
    BY <1>14, <1>15, <1>17, <2>1
  <2>3. R(k) = 0
    BY <1>14, <2>2
  <2>4. Measured(candidates, expected, pairs[k]) \in Int
    BY <1>1, <1>4
  <2> QED BY <1>12, <2>3, <2>4
<1> QED BY <1>4, <1>11, <1>18 DEF m, n, pairs

------------------------------
(* The direct train.                                                       *)

\* Markers an interval apart.
IsSpaced(expected, interval) ==
  /\ expected \in Seq(Int) /\ Len(expected) = 5
  /\ \A j, k \in 1..5 : expected[k] - expected[j] = (k - j) * interval

\* Every candidate is heard at one of the delays after a marker and before the
\* next one.
Follows(s, expected, latency, interval, delays) ==
  \A c \in DOMAIN s : \E m \in 1..5 :
    /\ s[c].frame - expected[m] - latency \in delays
    /\ s[c].frame - expected[m] < interval

IsTried(s, candidates, expected) ==
  \E c \in DOMAIN candidates, e \in DOMAIN expected :
    s = A!MakeSequence(candidates, expected, candidates[c].frame - expected[e], Rate)

IsFound(s, candidates, expected) ==
  /\ s # A!NotFound
  /\ \E h \in Int : s = A!MakeSequence(candidates, expected, h, Rate)

\* What is found are the trains for the latencies that are suggested.
LEMMA SequencesOf ==
  ASSUME NEW heard \in Seq(Candidates), NEW expected \in Seq(Int),
         heard # <<>>, Len(heard) <= A!MaximumCandidates,
         A!SortedCandidates(heard) \in Seq(Candidates)
  PROVE  LET candidates == A!SortedCandidates(heard)
             found == A!Sequences(heard, expected, Rate)
         IN /\ \A k \in DOMAIN found : IsFound(found[k], candidates, expected)
            /\ \A s : IsTried(s, candidates, expected) /\ s # A!NotFound =>
                 \E k \in DOMAIN found : found[k] = s
            /\ \E D : found \in Seq(D)
<1> DEFINE candidates == A!SortedCandidates(heard)
           found == A!Sequences(heard, expected, Rate)
           hs == A!Hypotheses(candidates, expected)
           n == Len(hs)
           tried == [i \in DOMAIN hs |-> A!MakeSequence(candidates, expected, hs[i], Rate)]
           M == {i \in DOMAIN tried : tried[i] # A!NotFound}
           D == {A!MakeSequence(candidates, expected, h, Rate) : h \in Int}
<1>1. ~(heard = <<>> \/ Len(heard) > A!MaximumCandidates)
  BY DEF A!MaximumCandidates
<1>2. found = IF heard = <<>> \/ Len(heard) > A!MaximumCandidates THEN <<>>
              ELSE A!Picked(tried, M)
  BY DEF A!Sequences
<1> HIDE DEF found, candidates
<1>3. found = A!Picked(tried, M)
  BY <1>1, <1>2
<1>4. candidates \in Seq(Candidates)
  BY DEF candidates
<1>5. /\ hs \in Seq(Int)
      /\ \A c \in DOMAIN candidates, e \in DOMAIN expected :
           \E h \in DOMAIN hs : hs[h] = candidates[c].frame - expected[e]
  BY <1>4, HypothesisOf
<1> HIDE DEF hs
<1>6. n \in Nat /\ DOMAIN hs = 1..n /\ \A i \in 1..n : hs[i] \in Int
  BY <1>5
<1> HIDE DEF n
<1>7. DOMAIN tried = 1..n /\ \A i \in 1..n : tried[i] \in D
  BY <1>6
<1>8. tried = [i \in 1..n |-> tried[i]]
  BY <1>6
<1>9. \A i \in 1..n : tried[i] = A!MakeSequence(candidates, expected, hs[i], Rate)
  BY <1>6
<1> HIDE DEF tried, D
<1>10. IsSequence(tried, n, D)
  BY <1>6, <1>7, <1>8, SequenceOf
<1>11. found \in Seq(D) /\ \E f : IsPick(found, tried, M, f, n)
  BY <1>3, <1>10, PickedOf DEF IsSequence
<1>12. PICK f : IsPick(found, tried, M, f, n)
  BY <1>11
<1>13. DOMAIN found = 1..Len(found)
  BY <1>11
<1>14. ASSUME NEW k \in DOMAIN found PROVE IsFound(found[k], candidates, expected)
  <2>1. f[k] \in 1..n /\ f[k] \in M /\ found[k] = tried[f[k]]
    BY <1>12, <1>13 DEF IsPick
  <2>2. found[k] # A!NotFound
    BY <2>1
  <2>3. hs[f[k]] \in Int
       /\ found[k] = A!MakeSequence(candidates, expected, hs[f[k]], Rate)
    BY <1>6, <1>9, <2>1
  <2> QED BY <2>2, <2>3 DEF IsFound
<1>15. ASSUME NEW s, IsTried(s, candidates, expected), s # A!NotFound
       PROVE  \E k \in DOMAIN found : found[k] = s
  <2>1. PICK c \in DOMAIN candidates, e \in DOMAIN expected :
          s = A!MakeSequence(candidates, expected, candidates[c].frame - expected[e], Rate)
    BY <1>15 DEF IsTried
  <2>2. PICK h \in DOMAIN hs : hs[h] = candidates[c].frame - expected[e]
    BY <1>5
  <2>3. h \in 1..n /\ tried[h] = s
    BY <1>6, <1>9, <2>1, <2>2
  <2>4. h \in M
    BY <1>7, <1>15, <2>3
  <2>5. PICK k \in 1..Len(found) : f[k] = h
    BY <1>12, <2>3, <2>4 DEF IsPick
  <2>6. found[k] = tried[h]
    BY <1>12, <2>5 DEF IsPick
  <2> QED BY <1>13, <2>3, <2>5, <2>6
<1> QED BY <1>11, <1>14, <1>15 DEF found, candidates

\* What is measured of a pair is the delay after its own marker and as many
\* intervals as that marker is away.
LEMMA DelayOfPair ==
  ASSUME NEW expected, NEW interval \in Nat, IsSpaced(expected, interval),
         NEW frame \in Int, NEW e \in 1..5, NEW m \in 1..5
  PROVE  /\ frame - expected[e] \in Int /\ frame - expected[m] \in Int
         /\ e = m => frame - expected[e] = frame - expected[m]
         /\ e > m => frame - expected[e] <= (frame - expected[m]) - interval
         /\ e < m => frame - expected[e] >= (frame - expected[m]) + interval
<1>1. expected[e] \in Int /\ expected[m] \in Int
  <2>1. expected \in Seq(Int) /\ Len(expected) = 5
    BY DEF IsSpaced
  <2> QED BY <2>1, ElementsOf
<1>2. expected[m] - expected[e] = (m - e) * interval
  BY DEF IsSpaced
<1> DEFINE d == m - e
<1>3. d \in Int /\ (e > m => d <= -1) /\ (e < m => d >= 1)
  OBVIOUS
<1> HIDE DEF d
<1>4. d >= 1 => d * interval >= interval
  BY <1>3
<1>5. d <= -1 => d * interval <= -interval
  BY <1>3
<1>6. expected[m] - expected[e] = d * interval /\ d * interval \in Int
  BY <1>2, <1>3 DEF d
<1> QED BY <1>1, <1>3, <1>4, <1>5, <1>6

\* When one of the trains is strong evidence for a direct sound no later than
\* "near", the one that is chosen has the delay of a candidate no later than
\* the tolerance after that.
LEMMA DirectIsChosen ==
  ASSUME NEW heard \in Seq(Candidates), IsRising(heard), heard # <<>>,
         Len(heard) <= A!MaximumCandidates,
         NEW expected, NEW interval \in Nat, IsSpaced(expected, interval),
         NEW latency \in Nat, NEW near \in Nat, A!ToleranceFrames(Rate) \in Nat,
         near + A!ToleranceFrames(Rate) < interval,
         Follows(heard, expected, latency, interval, Nat),
         \E s : /\ IsTried(s, A!SortedCandidates(heard), expected) /\ s # A!NotFound
                /\ A!IsStrongDirect(s, 5) /\ s.median <= latency + near
  PROVE  LET chosen == A!SelectSequence(A!Sequences(heard, expected, Rate), 5, Rate)
         IN /\ A!IsStrongDirect(chosen, 5) /\ chosen # A!NotFound
            /\ chosen.median \in Int /\ Len(chosen.pairs) \in Nat
            /\ chosen.median - latency \in 0..(near + A!ToleranceFrames(Rate))
            /\ \E c \in DOMAIN heard, m \in 1..5 :
                 /\ chosen.median = heard[c].frame - expected[m]
                 /\ heard[c].frame - expected[m] < interval
<1> DEFINE candidates == A!SortedCandidates(heard)
           found == A!Sequences(heard, expected, Rate)
           chosen == A!SelectSequence(found, 5, Rate)
           tolerance == A!ToleranceFrames(Rate)
<1>1. /\ candidates \in Seq(Candidates) /\ IsRising(candidates)
      /\ HoldSame(candidates, heard)
  BY SortedStays
<1>2. expected \in Seq(Int) /\ DOMAIN expected = 1..5
  BY DEF IsSpaced
<1>3. /\ \A k \in DOMAIN found : IsFound(found[k], candidates, expected)
      /\ \A s : IsTried(s, candidates, expected) /\ s # A!NotFound =>
           \E k \in DOMAIN found : found[k] = s
      /\ \E D : found \in Seq(D)
  BY <1>1, <1>2, SequencesOf
<1> HIDE DEF candidates, found
<1>4. ASSUME NEW s, IsFound(s, candidates, expected)
      PROVE  /\ s.median \in Int /\ Len(s.pairs) \in Nat
             /\ \E c \in DOMAIN candidates, e \in 1..5 :
                  s.median = candidates[c].frame - expected[e]
  <2>1. PICK h \in Int : s = A!MakeSequence(candidates, expected, h, Rate)
    BY <1>4 DEF IsFound
  <2> DEFINE pairs == PairsOf(candidates, expected, h)
  <2>2. pairs \in Seq(Nat \X Nat)
        /\ \A k \in DOMAIN pairs : /\ pairs[k][1] \in DOMAIN expected
                                   /\ pairs[k][2] \in DOMAIN candidates
    BY <1>1, <1>2, PairsAreNear
  <2>3. ~(Len(pairs) < 2)
    BY <1>4, <2>1, SequenceOfPairs DEF IsFound
  <2>4. Len(pairs) >= 2
    BY <2>2, <2>3, ElementsOf
  <2>5. /\ s.median \in Int /\ s.pairs = pairs
        /\ \E k \in DOMAIN pairs : s.median = Measured(candidates, expected, pairs[k])
    BY <1>1, <1>2, <2>1, <2>4, FoundIsMeasured
  <2>6. Len(pairs) \in Nat
    BY <2>2, ElementsOf
  <2> QED BY <1>2, <2>2, <2>5, <2>6 DEF Measured
<1>5. PICK s : /\ IsTried(s, candidates, expected) /\ s # A!NotFound
               /\ A!IsStrongDirect(s, 5) /\ s.median <= latency + near
  BY DEF candidates
<1>6. PICK k \in DOMAIN found : found[k] = s
  BY <1>3, <1>5
<1>7. PICK D : found \in Seq(D)
  BY <1>3
<1>8. \A j \in DOMAIN found : found[j].median \in Int
  BY <1>3, <1>4
<1>9. /\ \E j \in DOMAIN found : chosen = found[j]
      /\ A!IsStrongDirect(chosen, 5)
      /\ chosen.median <= (latency + near) + tolerance
  <2> DEFINE bound == latency + near
             count == 5
  <2>1. bound \in Nat /\ count \in Nat
    OBVIOUS
  <2>2. \E j \in DOMAIN found : A!IsStrongDirect(found[j], count) /\ found[j].median <= bound
    BY <1>5, <1>6
  <2> HIDE DEF bound, count, chosen
  <2>3. LET c == A!SelectSequence(found, count, Rate)
        IN /\ \E j \in DOMAIN found : c = found[j]
           /\ A!IsStrongDirect(c, count)
           /\ c.median <= bound + A!ToleranceFrames(Rate)
    BY <1>7, <1>8, <2>1, <2>2, EarliestIsChosen
  <2> QED BY <2>3 DEF bound, count, chosen
<1> HIDE DEF chosen
<1>10. IsFound(chosen, candidates, expected)
  BY <1>3, <1>9
<1>11. PICK c \in DOMAIN candidates, e \in 1..5 :
         chosen.median = candidates[c].frame - expected[e]
  BY <1>4, <1>10
<1>12. chosen.median \in Int /\ chosen.median >= 0 /\ Len(chosen.pairs) \in Nat
  BY <1>4, <1>9, <1>10 DEF A!IsStrongDirect
<1>13. PICK b \in DOMAIN heard : candidates[c] = heard[b]
  BY <1>1 DEF HoldSame
<1>14. PICK m \in 1..5 : /\ heard[b].frame - expected[m] - latency \in Nat
                         /\ heard[b].frame - expected[m] < interval
  BY DEF Follows
<1> DEFINE frame == heard[b].frame
<1>15. frame \in Int
  <2>1. heard[b] \in Candidates
    BY ElementsOf
  <2> QED BY <2>1 DEF Candidates
<1>16. chosen.median = frame - expected[e]
  BY <1>11, <1>13
<1> HIDE DEF frame
<1>17. /\ frame - expected[e] \in Int /\ frame - expected[m] \in Int
       /\ e = m => frame - expected[e] = frame - expected[m]
       /\ e > m => frame - expected[e] <= (frame - expected[m]) - interval
       /\ e < m => frame - expected[e] >= (frame - expected[m]) + interval
  BY <1>15, DelayOfPair
<1> DEFINE x == frame - expected[m]
           y == frame - expected[e]
<1>18. /\ x \in Int /\ y \in Int /\ x - latency \in Nat /\ x < interval
       /\ y >= 0 /\ y <= (latency + near) + tolerance
  BY <1>9, <1>12, <1>14, <1>16, <1>17 DEF frame
<1>19. (e > m => y <= x - interval) /\ (e < m => y >= x + interval) /\ (e = m => y = x)
  BY <1>17
<1> HIDE DEF x, y
<1>20. ~(e > m) /\ ~(e < m)
  BY <1>18, <1>19
<1>21. e = m /\ y = x
  BY <1>19, <1>20
<1>22. chosen.median = x /\ chosen.median - latency \in 0..(near + tolerance)
  BY <1>16, <1>18, <1>21 DEF y
<1>23. chosen.median = heard[b].frame - expected[m] /\ heard[b].frame - expected[m] < interval
  BY <1>14, <1>22 DEF x, frame
<1> QED BY <1>9, <1>10, <1>12, <1>22, <1>23 DEF IsFound, chosen, found

------------------------------
(* The trains that are tried.                                              *)

\* How long after a marker a candidate is heard, beside the latency.
After(s, expected, latency, c, m) == s[c].frame - expected[m] - latency

\* The delay of a candidate is a number.
LEMMA AfterIsMeasured ==
  ASSUME NEW s \in Seq(Candidates), NEW expected \in Seq(Int), Len(expected) = 5,
         NEW latency \in Int, NEW c \in DOMAIN s, NEW m \in 1..5
  PROVE  /\ s[c].frame \in Int /\ expected[m] \in Int
         /\ After(s, expected, latency, c, m) \in Int
         /\ After(s, expected, latency, c, m) = s[c].frame - expected[m] - latency
<1>1. s[c] \in Candidates
  BY ElementsOf
<1>2. expected[m] \in Int
  BY ElementsOf
<1> QED BY <1>1, <1>2 DEF Candidates, After

\* Candidates that are heard within a tolerance of a latency after their
\* markers can be paired with them.
LEMMA TrainIsChoice ==
  ASSUME NEW s \in Seq(Candidates), IsRising(s),
         NEW expected, NEW interval \in Nat, IsSpaced(expected, interval),
         A!ToleranceFrames(Rate) \in Nat, NEW latency \in Int,
         NEW E \in SUBSET (1..5), NEW f \in [E -> DOMAIN s],
         \A m \in E : /\ After(s, expected, latency, f[m], m) <= A!ToleranceFrames(Rate)
                      /\ -After(s, expected, latency, f[m], m) <= A!ToleranceFrames(Rate),
         \A j, k \in E : After(s, expected, latency, f[j], j)
                           - After(s, expected, latency, f[k], k) < interval
  PROVE  IsChoice(TaskOf(s, expected, latency), f, Len(expected), Len(s))
<1> DEFINE t == TaskOf(s, expected, latency)
           tolerance == A!ToleranceFrames(Rate)
<1>1. /\ t.candidates = s /\ t.expected = expected /\ t.latency = latency
      /\ t.tolerance = tolerance
  BY DEF TaskOf
<1> HIDE DEF t, tolerance
<1>2. expected \in Seq(Int) /\ Len(expected) = 5 /\ DOMAIN f = E /\ DOMAIN s = 1..Len(s) /\ Len(s) \in Nat
  BY DEF IsSpaced
<1>0. ASSUME NEW c \in DOMAIN s, NEW m \in 1..5
      PROVE  /\ s[c].frame \in Int /\ expected[m] \in Int
             /\ After(s, expected, latency, c, m) \in Int
             /\ After(s, expected, latency, c, m) = s[c].frame - expected[m] - latency
  BY <1>2, AfterIsMeasured
<1>3. ASSUME NEW m \in E PROVE Fitting(t, m, f[m])
  <2> DEFINE x == After(s, expected, latency, f[m], m)
  <2>1. x \in Int /\ x = A!Residual(t, m, f[m])
    <3>1. f[m] \in DOMAIN s /\ m \in 1..5
      OBVIOUS
    <3> QED BY <1>0, <1>1, <3>1 DEF A!Residual, After
  <2>2. x <= tolerance /\ -x <= tolerance /\ tolerance \in Nat
    BY DEF tolerance
  <2> HIDE DEF x
  <2>3. AtMostApart(x, 0, tolerance)
    BY <2>1, <2>2 DEF AtMostApart
  <2> QED BY <1>1, <2>1, <2>3 DEF Fitting
<1>4. ASSUME NEW j \in E, NEW k \in E, j < k PROVE f[j] < f[k]
  <2> DEFINE x == After(s, expected, latency, f[j], j)
             y == After(s, expected, latency, f[k], k)
             a == s[f[j]].frame
             b == s[f[k]].frame
  <2>0. f[j] \in DOMAIN s /\ j \in 1..5 /\ f[k] \in DOMAIN s /\ k \in 1..5
    OBVIOUS
  <2>1. /\ x \in Int /\ x = a - expected[j] - latency
        /\ a \in Int /\ expected[j] \in Int
    BY <1>0, <2>0
  <2>2. /\ y \in Int /\ y = b - expected[k] - latency
        /\ b \in Int /\ expected[k] \in Int
    BY <1>0, <2>0
  <2>3. x - y < interval
    OBVIOUS
  <2>4. j \in 1..5 /\ k \in 1..5
    OBVIOUS
  <2> DEFINE u == a - expected[j]
             v == a - expected[k]
  <2>5. k > j => v <= u - interval
    BY <2>1, <2>4, DelayOfPair
  <2>6. v <= u - interval
    BY <1>4, <2>4, <2>5
  <2>7. a < b
    <3> DEFINE p == expected[j]
               q == expected[k]
    <3>1. /\ x \in Int /\ y \in Int /\ a \in Int /\ b \in Int /\ p \in Int /\ q \in Int
          /\ x = a - p - latency /\ y = b - q - latency /\ x - y < interval
          /\ a - q <= (a - p) - interval
      BY <2>1, <2>2, <2>3, <2>6
    <3> HIDE DEF x, y, a, b, p, q
    <3> QED BY <3>1
  <2>8. f[j] \in DOMAIN s /\ f[k] \in DOMAIN s /\ f[j] \in Nat /\ f[k] \in Nat
    BY <1>2
  <2>9. f[k] < f[j] => b < a
    BY <2>8 DEF IsRising
  <2>10. f[k] = f[j] => b = a
    OBVIOUS
  <2> HIDE DEF a, b
  <2> QED BY <2>1, <2>2, <2>7, <2>8, <2>9, <2>10
<1>5. f \in [DOMAIN f -> 1..Len(s)] /\ DOMAIN f \in SUBSET (1..Len(expected))
  BY <1>2
<1> QED BY <1>2, <1>3, <1>4, <1>5 DEF IsChoice, t

\* Each of some markers is heard within ten frames of its time.
AreHeard(s, expected, latency, markers) ==
  \A m \in markers : \E c \in DOMAIN s : /\ After(s, expected, latency, c, m) >= 0
                                        /\ After(s, expected, latency, c, m) <= 10

\* Whatever is heard follows a marker within ten frames, or is clear of that
\* marker and of the next one.
AreClear(s, expected, latency, interval, tolerance) ==
  \A c \in DOMAIN s : \E m \in 1..5 :
    \/ /\ After(s, expected, latency, c, m) >= 0
       /\ After(s, expected, latency, c, m) <= 10
    \/ /\ After(s, expected, latency, c, m) > tolerance + 10
       /\ After(s, expected, latency, c, m) < interval - tolerance

\* Every marker is heard in its time.
AreExact(s, expected, latency) ==
  \A m \in 1..5 : \E c \in DOMAIN s : After(s, expected, latency, c, m) = 0

\* With four markers heard within ten frames of their time, and nothing else
\* heard that could be paired with a marker, one of the trains that are tried
\* is strong evidence for a direct sound, no later than these ten frames.
LEMMA SteadyTrain ==
  ASSUME NEW s \in Seq(Candidates), IsRising(s),
         NEW expected, NEW interval \in Nat, IsSpaced(expected, interval),
         NEW latency \in Nat, NEW tolerance \in Nat, tolerance = A!ToleranceFrames(Rate),
         tolerance >= 10, tolerance + 10 < interval,
         AreClear(s, expected, latency, interval, tolerance),
         NEW E \in SUBSET (1..5), Cardinality(E) >= 4, AreHeard(s, expected, latency, E)
  PROVE  \E train : /\ IsTried(train, s, expected) /\ train # A!NotFound
                    /\ A!IsStrongDirect(train, 5) /\ train.median <= latency + 10
<1> DEFINE IsNear(m, c) == /\ After(s, expected, latency, c, m) >= 0
                           /\ After(s, expected, latency, c, m) <= 10
           f == [m \in E |-> CHOOSE c \in DOMAIN s : IsNear(m, c)]
<1>1. /\ expected \in Seq(Int) /\ Len(expected) = 5 /\ DOMAIN expected = 1..5
      /\ A!ToleranceFrames(Rate) \in Nat
  BY DEF IsSpaced
<1>0. ASSUME NEW q \in Int, NEW c \in DOMAIN s, NEW m \in 1..5
      PROVE  /\ s[c].frame \in Int /\ expected[m] \in Int
             /\ After(s, expected, q, c, m) \in Int
             /\ After(s, expected, q, c, m) = s[c].frame - expected[m] - q
  BY <1>1, AfterIsMeasured
<1>2. ASSUME NEW m \in E PROVE f[m] \in DOMAIN s /\ IsNear(m, f[m])
  BY DEF AreHeard
<1>3. f \in [E -> DOMAIN s]
  <2>1. f = [m \in E |-> f[m]]
    OBVIOUS
  <2> HIDE DEF f
  <2> QED BY <1>2, <2>1
<1> HIDE DEF f
<1>4. PICK e \in E : TRUE
  <2>1. Cardinality({}) = 0
    BY FS_EmptySet
  <2>2. ~(0 >= 4)
    OBVIOUS
  <2> QED BY <2>1, <2>2
<1> DEFINE h == s[f[e]].frame - expected[e]
           start == After(s, expected, latency, f[e], e)
<1>5. h \in Int /\ start \in Int /\ start = h - latency /\ start >= 0 /\ start <= 10
  <2>1. /\ s[f[e]].frame \in Int /\ expected[e] \in Int
        /\ start \in Int /\ start = s[f[e]].frame - expected[e] - latency
    <3>1. f[e] \in DOMAIN s /\ e \in 1..5 /\ latency \in Int
      BY <1>3
    <3> QED BY <1>0, <3>1
  <2>2. start >= 0 /\ start <= 10
    BY <1>2
  <2> HIDE DEF start
  <2> QED BY <2>1, <2>2
<1> DEFINE train == A!MakeSequence(s, expected, h, Rate)
           pairs == PairsOf(s, expected, h)
<1>6. IsTried(train, s, expected)
  BY <1>1, <1>2 DEF IsTried
<1> HIDE DEF h, start
<1>7. ASSUME NEW c \in DOMAIN s, NEW m \in 1..5
      PROVE  LET x == After(s, expected, h, c, m)
                 y == After(s, expected, latency, c, m)
             IN x \in Int /\ y \in Int /\ x = y - start
  <2> DEFINE x == After(s, expected, h, c, m)
             y == After(s, expected, latency, c, m)
  <2>1. /\ s[c].frame \in Int /\ expected[m] \in Int
        /\ x \in Int /\ x = s[c].frame - expected[m] - h
    BY <1>0, <1>5
  <2>2. y \in Int /\ y = s[c].frame - expected[m] - latency
    <3>1. latency \in Int
      OBVIOUS
    <3> QED BY <1>0, <3>1
  <2>3. x = y - start
    <3> DEFINE a == s[c].frame
               b == expected[m]
    <3>1. /\ a \in Int /\ b \in Int /\ x \in Int /\ y \in Int
          /\ x = a - b - h /\ y = a - b - latency
      BY <2>1, <2>2
    <3> HIDE DEF a, b, x, y
    <3> QED BY <1>5, <3>1
  <2> QED BY <2>1, <2>2, <2>3 DEF x, y
<1>8. IsChoice(TaskOf(s, expected, h), f, Len(expected), Len(s))
  <2>1. ASSUME NEW m \in E
        PROVE  /\ After(s, expected, h, f[m], m) <= A!ToleranceFrames(Rate)
               /\ -After(s, expected, h, f[m], m) <= A!ToleranceFrames(Rate)
    <3> DEFINE x == After(s, expected, h, f[m], m)
               y == After(s, expected, latency, f[m], m)
    <3>1. x \in Int /\ y \in Int /\ x = y - start /\ y >= 0 /\ y <= 10
      BY <1>2, <1>7
    <3> HIDE DEF x, y
    <3>2. x <= tolerance /\ -x <= tolerance
      BY <1>5, <3>1
    <3> QED BY <3>2 DEF x
  <2>2. ASSUME NEW j \in E, NEW k \in E
        PROVE  After(s, expected, h, f[j], j) - After(s, expected, h, f[k], k) < interval
    <3> DEFINE x == After(s, expected, h, f[j], j)
               y == After(s, expected, latency, f[j], j)
               u == After(s, expected, h, f[k], k)
               v == After(s, expected, latency, f[k], k)
    <3>1. x \in Int /\ y \in Int /\ x = y - start /\ y >= 0 /\ y <= 10
      BY <1>2, <1>7
    <3>2. u \in Int /\ v \in Int /\ u = v - start /\ v >= 0 /\ v <= 10
      BY <1>2, <1>7
    <3> HIDE DEF x, y, u, v
    <3>3. x - u < interval
      BY <1>5, <3>1, <3>2
    <3> QED BY <3>3 DEF x, u
  <2> QED BY <1>1, <1>3, <1>5, <2>1, <2>2, TrainIsChoice
<1>9. Cardinality(E) <= Len(pairs)
  <2>1. DOMAIN f = E
    BY <1>3
  <2> QED BY <1>1, <1>5, <1>8, <2>1, PairsAreMost
<1>10. /\ pairs \in Seq(Nat \X Nat)
       /\ \A k \in DOMAIN pairs :
            /\ pairs[k][1] \in 1..5 /\ pairs[k][2] \in DOMAIN s
            /\ Measured(s, expected, pairs[k]) \in Int
            /\ Measured(s, expected, pairs[k]) - h <= tolerance
            /\ h - Measured(s, expected, pairs[k]) <= tolerance
  BY <1>1, <1>5, PairsAreNear
<1> HIDE DEF pairs
<1>11. Len(pairs) \in Nat /\ Len(pairs) >= 4
  <2>1. Len(pairs) \in Nat
    BY <1>10, ElementsOf
  <2>2. Cardinality(E) \in Nat
    <3>1. IsFiniteSet(1..5)
      <4>1. 1 \in Int /\ 5 \in Int
        OBVIOUS
      <4> QED BY <4>1, FS_Interval
    <3> QED BY <3>1, FS_Subset, FS_CardinalityType
  <2> QED BY <1>9, <2>1, <2>2
<1>12. ASSUME NEW k \in DOMAIN pairs
       PROVE  LET x == Measured(s, expected, pairs[k])
              IN x \in Int /\ x >= latency /\ x <= latency + 10
  <2> DEFINE x == Measured(s, expected, pairs[k])
             p == pairs[k][1]
             c == pairs[k][2]
             frame == s[c].frame
  <2>1. /\ p \in 1..5 /\ c \in DOMAIN s /\ x \in Int /\ x - h <= tolerance /\ h - x <= tolerance
    BY <1>10
  <2>2. x = frame - expected[p]
    BY DEF Measured
  <2> HIDE DEF p, c, x
  <2>3. PICK m \in 1..5 :
           \/ /\ After(s, expected, latency, c, m) >= 0
              /\ After(s, expected, latency, c, m) <= 10
           \/ /\ After(s, expected, latency, c, m) > tolerance + 10
              /\ After(s, expected, latency, c, m) < interval - tolerance
    BY <2>1 DEF AreClear
  <2> DEFINE z == frame - expected[m]
             d == After(s, expected, latency, c, m)
  <2>4. frame \in Int /\ expected[m] \in Int /\ d \in Int /\ d = frame - expected[m] - latency
    <3>1. latency \in Int /\ c \in DOMAIN s
      BY <2>1
    <3> QED BY <1>0, <3>1
  <2>5. \/ d >= 0 /\ d <= 10
        \/ d > tolerance + 10 /\ d < interval - tolerance
    BY <2>3
  <2> HIDE DEF frame, d
  <2>6. z \in Int /\ d = z - latency
    BY <2>4
  <2>7. /\ p = m => x = z
        /\ p > m => x <= z - interval
        /\ p < m => x >= z + interval
    BY <2>1, <2>2, <2>4, DelayOfPair
  <2> HIDE DEF z
  <2>8. h \in Int /\ h >= latency /\ h <= latency + 10
    BY <1>5
  <2>9. ~(p > m) /\ ~(p < m)
    <3>1. p > m => d >= interval - tolerance
      BY <2>1, <2>6, <2>7, <2>8
    <3>2. p < m => d < 0
      BY <2>1, <2>6, <2>7, <2>8
    <3>3. d \in Int /\ 10 < interval - tolerance
      BY <2>4
    <3>4. d >= 0
      BY <2>5, <3>3
    <3>5. d < interval - tolerance
      BY <2>5, <3>3
    <3> QED BY <3>1, <3>2, <3>3, <3>4, <3>5
  <2>10. p = m
    BY <2>1, <2>9
  <2>11. x >= latency /\ x <= latency + 10
    <3>1. x = z /\ x \in Int /\ x - h <= tolerance
      BY <2>1, <2>7, <2>10
    <3>2. d = x - latency /\ d \in Int
      BY <2>4, <2>6, <3>1
    <3>3. d <= tolerance + 10
      BY <1>5, <3>1, <3>2
    <3>4. d >= 0 /\ d <= 10
      BY <2>5, <3>2, <3>3
    <3> QED BY <3>1, <3>2, <3>4
  <2> QED BY <2>1, <2>11 DEF x
<1>13. train # A!NotFound /\ \E k \in DOMAIN pairs : train.median = Measured(s, expected, pairs[k])
  <2>1. Len(PairsOf(s, expected, h)) >= 2
    BY <1>11 DEF pairs
  <2> QED BY <1>1, <1>5, <2>1, FoundIsMeasured DEF pairs
<1>14. train.median <= latency + 10
  BY <1>12, <1>13
<1>15. A!IsStrongDirect(train, 5)
  <2>1. Len(pairs) >= 2 /\ 4 * Len(pairs) >= 3 * Len(expected)
    BY <1>1, <1>11
  <2>2. \A k \in DOMAIN pairs : Measured(s, expected, pairs[k]) >= 0
    BY <1>12
  <2>3. \A j, k \in DOMAIN pairs : Measured(s, expected, pairs[j])
                                     - Measured(s, expected, pairs[k]) <= 10
    BY <1>12
  <2>4. pairs = PairsOf(s, expected, h)
    BY DEF pairs
  <2>5. A!IsStrongDirect(train, Len(expected))
    BY <1>1, <1>5, <2>1, <2>2, <2>3, <2>4, SteadyTrainIsStrong
  <2> QED BY <1>1, <2>5
<1> QED BY <1>6, <1>13, <1>14, <1>15

\* With every marker heard at one delay, the train of that delay is strong
\* evidence for a direct sound, whatever else is heard.
LEMMA ExactTrain ==
  ASSUME NEW s \in Seq(Candidates), IsRising(s),
         NEW expected, NEW interval \in Nat \ {0}, IsSpaced(expected, interval),
         NEW latency \in Nat, A!ToleranceFrames(Rate) \in Nat,
         AreExact(s, expected, latency)
  PROVE  \E train : /\ IsTried(train, s, expected) /\ train # A!NotFound
                    /\ A!IsStrongDirect(train, 5) /\ train.median <= latency
<1> DEFINE IsAt(m, c) == After(s, expected, latency, c, m) = 0
           f == [m \in 1..5 |-> CHOOSE c \in DOMAIN s : IsAt(m, c)]
           train == A!MakeSequence(s, expected, latency, Rate)
           pairs == PairsOf(s, expected, latency)
           t == TaskOf(s, expected, latency)
<1>1. expected \in Seq(Int) /\ Len(expected) = 5 /\ DOMAIN expected = 1..5 /\ latency \in Int
  BY DEF IsSpaced
<1>0. ASSUME NEW c \in DOMAIN s, NEW m \in 1..5
      PROVE  /\ s[c].frame \in Int /\ expected[m] \in Int
             /\ After(s, expected, latency, c, m) = s[c].frame - expected[m] - latency
  <2>1. s[c] \in Candidates
    BY ElementsOf
  <2>2. expected[m] \in Int
    BY <1>1, ElementsOf
  <2> QED BY <2>1, <2>2 DEF Candidates, After
<1>2. ASSUME NEW m \in 1..5 PROVE f[m] \in DOMAIN s /\ IsAt(m, f[m])
  BY DEF AreExact
<1>3. f \in [1..5 -> DOMAIN s] /\ DOMAIN f = 1..5
  <2>1. f = [m \in 1..5 |-> f[m]]
    OBVIOUS
  <2> HIDE DEF f
  <2> QED BY <1>2, <2>1
<1> HIDE DEF f
<1>4. IsTried(train, s, expected)
  <2>1. 1 \in 1..5
    OBVIOUS
  <2> DEFINE a == s[f[1]].frame
             b == expected[1]
  <2>2. a \in Int /\ b \in Int /\ a - b - latency = 0
    <3>1. f[1] \in DOMAIN s /\ After(s, expected, latency, f[1], 1) = 0
      BY <1>2, <2>1
    <3> QED BY <1>0, <1>1, <2>1, <3>1
  <2> HIDE DEF a, b
  <2>3. a - b = latency
    BY <1>1, <2>2
  <2>4. s[f[1]].frame - expected[1] = latency
    BY <2>3 DEF a, b
  <2> QED BY <1>1, <1>2, <2>1, <2>4 DEF IsTried
<1>5. IsChoice(t, f, Len(expected), Len(s))
  <2>1. \A m \in 1..5 : /\ After(s, expected, latency, f[m], m) <= A!ToleranceFrames(Rate)
                        /\ -After(s, expected, latency, f[m], m) <= A!ToleranceFrames(Rate)
    <3>1. \A x : x = 0 => x <= A!ToleranceFrames(Rate) /\ -x <= A!ToleranceFrames(Rate)
      OBVIOUS
    <3>2. \A m \in 1..5 : After(s, expected, latency, f[m], m) = 0
      BY <1>2
    <3> QED BY <3>1, <3>2
  <2>2. \A j, k \in 1..5 : After(s, expected, latency, f[j], j)
                             - After(s, expected, latency, f[k], k) < interval
    <3>1. \A x, y : x = 0 /\ y = 0 => x - y < interval
      OBVIOUS
    <3>2. \A m \in 1..5 : After(s, expected, latency, f[m], m) = 0
      BY <1>2
    <3> QED BY <3>1, <3>2
  <2> QED BY <1>1, <1>3, <2>1, <2>2, TrainIsChoice
<1>6. ASSUME NEW k \in DOMAIN f PROVE A!Residual(t, k, f[k]) = 0
  <2>1. After(s, expected, latency, f[k], k) = 0
    BY <1>2, <1>3
  <2> QED BY <2>1 DEF After, A!Residual, TaskOf
<1>7. /\ Len(pairs) = 5
      /\ \A k \in DOMAIN pairs : Measured(s, expected, pairs[k]) = latency
  <2>1. t = TaskOf(s, expected, latency)
    OBVIOUS
  <2> HIDE DEF t
  <2>2. \A k \in 1..Len(expected) : k \in DOMAIN f
    BY <1>1, <1>3
  <2>3. \A k \in DOMAIN f : A!Residual(t, k, f[k]) = 0
    BY <1>6
  <2>4. IsChoice(t, f, Len(expected), Len(s))
    BY <1>5
  <2>5. /\ Len(PairsOf(s, expected, latency)) = Len(expected)
        /\ \A k \in DOMAIN PairsOf(s, expected, latency) :
             Measured(s, expected, PairsOf(s, expected, latency)[k]) = latency
    <3>1. /\ s \in Seq(Candidates) /\ expected \in Seq(Int) /\ latency \in Int
          /\ A!ToleranceFrames(Rate) \in Nat
      BY <1>1
    <3> QED BY <3>1, <2>1, <2>2, <2>3, <2>4, PairsAreExact
  <2> QED BY <1>1, <2>5
<1>8. train # A!NotFound /\ \E k \in DOMAIN pairs : train.median = Measured(s, expected, pairs[k])
  <2>1. Len(PairsOf(s, expected, latency)) >= 2
    BY <1>7
  <2> QED BY <1>1, <2>1, FoundIsMeasured
<1>9. A!IsStrongDirect(train, 5)
  <2>1. pairs = PairsOf(s, expected, latency)
    OBVIOUS
  <2> HIDE DEF pairs
  <2>2. Len(pairs) >= 2 /\ 4 * Len(pairs) >= 3 * Len(expected)
    BY <1>1, <1>7
  <2>3. /\ \A k \in DOMAIN pairs : Measured(s, expected, pairs[k]) >= 0
        /\ \A j, k \in DOMAIN pairs : Measured(s, expected, pairs[j])
                                        - Measured(s, expected, pairs[k]) <= 10
    BY <1>7
  <2>4. A!IsStrongDirect(train, Len(expected))
    BY <1>1, <2>1, <2>2, <2>3, SteadyTrainIsStrong
  <2> QED BY <1>1, <2>4
<1>10. train.median <= latency
  BY <1>7, <1>8
<1> QED BY <1>4, <1>8, <1>9, <1>10

------------------------------
(* What is heard of a recording.                                           *)

\* At a supported rate the tolerance of the search is a good third of the
\* distance of two markers.
LEMMA RateFacts ==
  ASSUME RateIsSupported
  PROVE  /\ Rate \in Nat /\ Rate >= 1000 /\ MarkerInterval \in Nat /\ MarkerInterval >= 100
         /\ A!ToleranceFrames(Rate) \in Nat /\ A!ToleranceFrames(Rate) >= 35
         /\ 2 * A!ToleranceFrames(Rate) < MarkerInterval
         /\ A!ToleranceFrames(Rate) + 20 < MarkerInterval
         /\ PaddingFrames \in Nat /\ 2 * PaddingFrames <= Rate + 1
         /\ 10 * MarkerInterval <= Rate + 5
         /\ MarkerInterval = A!AtLeast(1, A!Rounded(Rate, 100))
<1>1. Rate \in Nat /\ Rate >= 1000
  BY InputsAssumption, SMT DEF RateIsSupported
<1> DEFINE x == Rate * 100 + 500
           y == Rate * 35 + 500
           q == x \div 1000
           t == y \div 1000
           i == A!AtLeast(1, A!Rounded(Rate, 100))
           markers == A!PlaybackPlan(Rate, 0).markers
<1>2. /\ q \in Int /\ 1000 * q <= x /\ x < 1000 * q + 1000
      /\ t \in Int /\ 1000 * t <= y /\ y < 1000 * t + 1000
  BY <1>1, SMT
<1>3. q >= 100 /\ t >= 35
  BY <1>1, <1>2, SMT
<1>4. i = q /\ A!ToleranceFrames(Rate) = t
  <2>1. A!Rounded(Rate, 100) = q /\ A!Rounded(Rate, 35) = t
    BY SMT DEF A!Rounded
  <2> HIDE DEF q, t
  <2> QED BY <1>2, <1>3, <2>1, SMT DEF A!AtLeast, A!ToleranceFrames
<1>5. MarkerInterval = i
  <2> HIDE DEF i
  <2>1. markers = [k \in 1..A!MarkerCount |-> (k - 1) * A!AtLeast(1, A!Rounded(Rate, 100))]
    BY DEF A!PlaybackPlan
  <2>2. 2 \in 1..A!MarkerCount
    BY DEF A!MarkerCount
  <2> HIDE DEF markers
  <2>3. markers[2] = (2 - 1) * A!AtLeast(1, A!Rounded(Rate, 100))
    BY <2>1, <2>2
  <2>4. i \in Int
    BY <1>2, <1>4
  <2>5. markers[2] = i
    BY <2>3, <2>4 DEF i
  <2> QED BY <2>5 DEF MarkerInterval, markers
<1> DEFINE p == (Rate + 1) \div 2
<1>6. p \in Nat /\ 2 * p <= Rate + 1
  BY <1>1, SMT
<1>7. PaddingFrames = p
  BY DEF PaddingFrames
<1> HIDE DEF q, t, p
<1>8. 2 * t < q /\ t + 20 < q /\ 10 * q <= Rate + 5
  BY <1>1, <1>2, SMT
<1> HIDE DEF i
<1> QED BY <1>1, <1>2, <1>3, <1>4, <1>5, <1>6, <1>7, <1>8, SMT DEF i

\* Where the markers stand in a recording.
LEMMA MarkersOf ==
  ASSUME RateIsSupported, NEW r
  PROVE  /\ IsSpaced(Reference(r).markers, MarkerInterval)
         /\ Reference(r).markers[1] = PaddingFrames
         /\ Reference(r).markers[5] = PaddingFrames + 4 * MarkerInterval
         /\ Reference(r).sourceStart = PaddingFrames + 4 * MarkerInterval + 2 * Rate
         /\ Reference(r).sourceStart = PaddingFrames + PlaybackPlan(r).sourceStart
<1> DEFINE i == MarkerInterval
           p == PaddingFrames
           plan == PlaybackPlan(r)
           marks == Reference(r).markers
           gap == A!AtLeast(1, A!Rounded(Rate, 2000))
<1>1. Rate \in Nat /\ Rate >= 1000 /\ i \in Nat /\ p \in Nat
  BY RateFacts, SMT
<1>2. i = A!AtLeast(1, A!Rounded(Rate, 100))
  BY RateFacts
<1>3. /\ plan.markers = [k \in 1..5 |-> (k - 1) * i]
      /\ plan.sourceStart = plan.markers[5] + gap
  BY <1>2 DEF PlaybackPlan, A!PlaybackPlan, A!MarkerCount
<1>4. gap = 2 * Rate
  <2>1. A!Rounded(Rate, 2000) = 2 * Rate
    BY <1>1, SMT DEF A!Rounded
  <2> QED BY <1>1, <2>1, SMT DEF A!AtLeast
<1>5. /\ marks = [k \in DOMAIN plan.markers |-> plan.markers[k] + p]
      /\ Reference(r).sourceStart = plan.sourceStart + p
  <2>1. plan = [markers |-> plan.markers, sourceStart |-> plan.sourceStart,
                sourceFrames |-> plan.sourceFrames]
    BY DEF PlaybackPlan, A!PlaybackPlan
  <2> HIDE DEF plan
  <2>2. Reference(r) = [plan EXCEPT !.markers = [k \in DOMAIN @ |-> @[k] + PaddingFrames],
                                    !.sourceStart = @ + PaddingFrames]
    BY DEF Reference, plan
  <2> QED BY <2>1, <2>2
<1> HIDE DEF i, p, plan, gap
<1>6. marks = [k \in 1..5 |-> (k - 1) * i + p]
  BY <1>3, <1>5
<1> HIDE DEF marks
<1>7. /\ marks[1] = p /\ marks[2] = i + p /\ marks[3] = 2 * i + p
      /\ marks[4] = 3 * i + p /\ marks[5] = 4 * i + p
  BY <1>1, <1>6, SMT
<1>8. ASSUME NEW k \in 1..5 PROVE marks[k] \in Int
  <2>1. k = 1 \/ k = 2 \/ k = 3 \/ k = 4 \/ k = 5
    OBVIOUS
  <2> QED BY <1>1, <1>7, <2>1, SMT
<1>9. marks \in Seq(Int) /\ Len(marks) = 5
  <2>1. DOMAIN marks = 1..5 /\ marks = [k \in 1..5 |-> marks[k]]
    BY <1>6
  <2> DEFINE n == 5
  <2>2. n \in Nat /\ DOMAIN marks = 1..n /\ marks = [k \in 1..n |-> marks[k]]
    BY <2>1
  <2>3. \A k \in 1..n : marks[k] \in Int
    BY <1>8
  <2> HIDE DEF n
  <2>4. IsSequence(marks, n, Int)
    BY <2>2, <2>3, SequenceOf
  <2> QED BY <2>4 DEF IsSequence, n
<1>10. \A j, k \in 1..5 : marks[k] - marks[j] = (k - j) * i
  <2> SUFFICES ASSUME NEW j \in 1..5, NEW k \in 1..5 PROVE marks[k] - marks[j] = (k - j) * i
    OBVIOUS
  <2>1. j = 1 \/ j = 2 \/ j = 3 \/ j = 4 \/ j = 5
    OBVIOUS
  <2>2. k = 1 \/ k = 2 \/ k = 3 \/ k = 4 \/ k = 5
    OBVIOUS
  <2>3. /\ 0 * i = 0 /\ 1 * i = i /\ (-1) * i = -i /\ (-2) * i = -(2 * i)
        /\ (-3) * i = -(3 * i) /\ (-4) * i = -(4 * i)
    BY <1>1, SMT
  <2> QED BY <1>1, <1>7, <2>1, <2>2, <2>3, SMT
<1>11. Reference(r).sourceStart = p + 4 * i + 2 * Rate
  <2>1. plan.markers[5] = 4 * i
    BY <1>1, <1>3, SMT
  <2> QED BY <1>1, <1>3, <1>4, <1>5, <2>1, SMT
<1>12. Reference(r).sourceStart = p + plan.sourceStart
  <2>1. plan.sourceStart \in Int
    <3>1. plan.markers[5] = 4 * i
      BY <1>1, <1>3, SMT
    <3> QED BY <1>1, <1>3, <1>4, <3>1, SMT
  <2> QED BY <1>1, <1>5, <2>1, SMT
<1> QED BY <1>1, <1>7, <1>9, <1>10, <1>11, <1>12, SMT DEF IsSpaced, i, p, marks, plan

\* A recording of typed runs, each after the one before, that is long enough.
IsRecording(r) ==
  /\ r.runs \in Seq([from : Nat, to : Nat, peak : Nat])
  /\ \A k \in DOMAIN r.runs : /\ r.runs[k].from < r.runs[k].to
                              /\ k > 1 => r.runs[k - 1].to < r.runs[k].from
  /\ r.declared \in Nat /\ r.sourceFrames \in Nat /\ r.latency \in Nat
  /\ r.declared >= RequiredFrames(r)

RangeOf(r) ==
  A!SearchRange(Reference(r).markers, Reference(r).sourceStart, r.declared, Rate)

\* The search begins with the recording and ends before the source, more than
\* the distance of two markers after the last one.
LEMMA RangeIsWide ==
  ASSUME RateIsSupported, NEW r, IsRecording(r)
  PROVE  /\ RangeOf(r).lower = 0 /\ RangeOf(r).upper \in Nat
         /\ RangeOf(r).upper >= PaddingFrames + 5 * MarkerInterval
         /\ RangeOf(r).upper <= Reference(r).sourceStart
<1> DEFINE i == MarkerInterval
           p == PaddingFrames
           marks == Reference(r).markers
           start == Reference(r).sourceStart
           radius == A!AtLeast(64, A!Rounded(Rate, 600))
           extra == A!AtLeast(8, A!Rounded(Rate, 80))
           last == marks[Len(marks)]
           end == last + radius + extra
           total == r.declared
<1>1. /\ Rate \in Nat /\ Rate >= 1000 /\ i \in Nat /\ p \in Nat /\ i >= 100
      /\ 2 * p <= Rate + 1 /\ 10 * i <= Rate + 5
  BY RateFacts, SMT
<1>2. /\ Len(marks) = 5 /\ marks[1] = p /\ last = p + 4 * i /\ start = p + 4 * i + 2 * Rate
  BY MarkersOf DEF IsSpaced
<1>3. total \in Nat /\ total >= start
  <2>1. RequiredFrames(r) = start + r.sourceFrames + p
    BY MarkersOf DEF RequiredFrames
  <2>2. total >= RequiredFrames(r) /\ total \in Nat /\ r.sourceFrames \in Nat
    BY DEF IsRecording
  <2>3. start \in Nat
    BY <1>1, <1>2, SMT
  <2> HIDE DEF start, total, p
  <2> QED BY <1>1, <2>1, <2>2, <2>3, SMT
<1>4. /\ radius \in Nat /\ 5 * radius >= 3 * Rate - 5 /\ 5 * radius <= 3 * Rate + 5
      /\ radius >= 64
  <2> DEFINE x == Rate * 600 + 500
             q == x \div 1000
  <2>1. q \in Int /\ 1000 * q <= x /\ x < 1000 * q + 1000
    BY <1>1, SMT
  <2>2. A!Rounded(Rate, 600) = q
    BY SMT DEF A!Rounded
  <2> HIDE DEF q
  <2>3. q >= 64
    BY <1>1, <2>1, SMT
  <2>4. radius = q
    BY <2>1, <2>2, <2>3, SMT DEF A!AtLeast
  <2> HIDE DEF radius
  <2> QED BY <1>1, <2>1, <2>3, <2>4, SMT
<1>5. extra \in Nat /\ 5 * extra <= Rate
  <2> DEFINE x == Rate * 80 + 500
             q == x \div 1000
  <2>1. q \in Int /\ 1000 * q <= x /\ x < 1000 * q + 1000
    BY <1>1, SMT
  <2>2. A!Rounded(Rate, 80) = q
    BY SMT DEF A!Rounded
  <2> HIDE DEF q
  <2>3. q >= 8
    BY <1>1, <2>1, SMT
  <2>4. extra = q
    BY <2>1, <2>2, <2>3, SMT DEF A!AtLeast
  <2> HIDE DEF extra
  <2> QED BY <1>1, <2>1, <2>3, <2>4, SMT
<1> DEFINE lower == A!AtLeast(0, marks[1] - radius)
           capped == IF start > last /\ start < end THEN start ELSE end
           upper == IF A!AtLeast(lower, capped) < total THEN A!AtLeast(lower, capped)
                    ELSE total
<1>6. RangeOf(r).lower = lower /\ RangeOf(r).upper = upper
  BY DEF RangeOf, A!SearchRange
<1>7. lower = 0
  <2> DEFINE low == marks[1] - radius
  <2>1. low = p - radius /\ low \in Int
    BY <1>1, <1>2, <1>4, SMT
  <2>3. i >= 0
    BY <1>1, SMT
  <2> HIDE DEF low, radius, p
  <2>2. low <= 0
    BY <1>1, <1>4, <2>1, SMT
  <2> QED BY <2>1, <2>2 DEF A!AtLeast, low
<1>8. end = p + 4 * i + radius + extra
  BY <1>2
<1> HIDE DEF lower, radius, extra, end, start, last, p, i, total
<1>9. /\ end \in Nat /\ end <= start /\ end >= p + 5 * i
  <2>1. end \in Nat /\ start \in Nat
    BY <1>1, <1>2, <1>4, <1>5, <1>8, SMT
  <2>2. radius + extra <= 2 * Rate
    BY <1>1, <1>4, <1>5, SMT
  <2>3. radius >= i
    BY <1>1, <1>4, SMT
  <2> QED BY <1>1, <1>2, <1>4, <1>5, <1>8, <2>1, <2>2, <2>3, SMT
<1>10. capped = end
  <2>1. start \in Nat
    BY <1>1, <1>2, SMT
  <2> QED BY <1>9, <2>1, SMT
<1> HIDE DEF capped
<1>11. upper = end
  <2>1. A!AtLeast(lower, capped) = end
    BY <1>7, <1>9, <1>10, SMT DEF A!AtLeast
  <2>2. start \in Nat
    BY <1>1, <1>2, SMT
  <2> QED BY <1>3, <1>9, <2>1, <2>2
<1> HIDE DEF upper
<1> QED BY <1>6, <1>7, <1>9, <1>11, SMT DEF start, p, i

\* The runs of a recording begin one after the other.
LEMMA RunsAreInOrder ==
  ASSUME NEW r, IsRecording(r)
  PROVE  /\ Len(r.runs) \in Nat /\ DOMAIN r.runs = 1..Len(r.runs)
         /\ \A k \in DOMAIN r.runs : /\ r.runs[k].from \in Nat /\ r.runs[k].to \in Nat
                                     /\ r.runs[k].peak \in Nat
                                     /\ r.runs[k].from < r.runs[k].to
         /\ \A j, k \in DOMAIN r.runs : j < k => r.runs[j].from < r.runs[k].from
<1> DEFINE runs == r.runs
           n == Len(runs)
           T == {k \in 0..n : \A j \in 1..k : j < k => runs[j].from < runs[k].from}
<1>1. /\ runs \in Seq([from : Nat, to : Nat, peak : Nat])
      /\ \A k \in DOMAIN runs : /\ runs[k].from < runs[k].to
                                /\ k > 1 => runs[k - 1].to < runs[k].from
  BY DEF IsRecording
<1> HIDE DEF runs
<1>2. n \in Nat /\ DOMAIN runs = 1..n
  BY <1>1, ElementsOf
<1>3. ASSUME NEW k \in 1..n
      PROVE  runs[k].from \in Nat /\ runs[k].to \in Nat /\ runs[k].peak \in Nat
  <2>1. runs[k] \in [from : Nat, to : Nat, peak : Nat]
    BY <1>1, <1>2, ElementsOf
  <2> QED BY <2>1
<1> HIDE DEF n
<1>4. 0 \in T
  BY <1>2
<1>5. ASSUME NEW k \in 1..n, k - 1 \in T PROVE k \in T
  <2>1. ASSUME NEW j \in 1..k, j < k PROVE runs[j].from < runs[k].from
    <3>1. j \in 1..n /\ k - 1 \in 1..n /\ k > 1
      BY <1>2, <2>1
    <3>2. /\ runs[j].from \in Nat /\ runs[k - 1].from \in Nat /\ runs[k - 1].to \in Nat
          /\ runs[k].from \in Nat
      BY <1>3, <3>1
    <3>3. runs[k - 1].from < runs[k - 1].to /\ runs[k - 1].to < runs[k].from
      BY <1>1, <1>2, <3>1
    <3>4. j < k - 1 => runs[j].from < runs[k - 1].from
      <4>1. j < k - 1 => j \in 1..(k - 1)
        BY <3>1
      <4> QED BY <1>5, <4>1
    <3>5. j = k - 1 \/ j < k - 1
      BY <2>1, <3>1
    <3> QED BY <3>2, <3>3, <3>4, <3>5
  <2>2. k \in 0..n
    BY <1>2
  <2> QED BY <2>1, <2>2
<1>6. 0..n \subseteq T
  <2> HIDE DEF T
  <2> QED BY <1>2, <1>4, <1>5, SetInduction
<1>7. ASSUME NEW j \in 1..n, NEW k \in 1..n, j < k PROVE runs[j].from < runs[k].from
  <2>1. k \in T
    BY <1>2, <1>6
  <2>2. j \in 1..k
    BY <1>2, <1>7
  <2> QED BY <1>7, <2>1, <2>2
<1> QED BY <1>1, <1>2, <1>3, <1>7 DEF runs, n

HeardOf(r) == A!HeardMarkers(r.runs, r.declared, Reference(r), Rate)

\* s holds the runs before "upper" that the others before it do not hide.
IsHeard(s, r, upper) ==
  /\ s \in Seq(Candidates) /\ IsRising(s) /\ Len(s) <= Len(r.runs)
  /\ \A c \in DOMAIN s : \E x \in Early(r) :
       /\ s[c].frame = x.from /\ x.peak > 5
       /\ \A y \in Early(r) : y.from < upper => 2 * x.peak > y.peak
  /\ \A x \in Dominant(r) : x.from < upper => \E c \in DOMAIN s : s[c].frame = x.from

\* The impulses that are detected are the loud runs before the end of the
\* search.
LEMMA HeardOfRuns ==
  ASSUME RateIsSupported, NEW r, IsRecording(r)
  PROVE  IsHeard(HeardOf(r), r, RangeOf(r).upper)
<1> DEFINE runs == r.runs
           n == Len(runs)
           upper == RangeOf(r).upper
           range == RangeOf(r)
           s == HeardOf(r)
           Within(x) == [from |-> A!AtLeast(range.lower, x.from),
                         to   |-> IF x.to < range.upper THEN x.to ELSE range.upper,
                         peak |-> x.peak]
           inside == {i \in DOMAIN runs : Within(runs[i]).from < Within(runs[i]).to}
           M == {i \in inside : /\ runs[i].peak > 5
                                /\ \A k \in inside : 2 * runs[i].peak > runs[k].peak}
           all == [i \in DOMAIN runs |-> [frame |-> Within(runs[i]).from,
                                          peak |-> runs[i].peak]]
<1>1. range.lower = 0 /\ upper \in Nat /\ upper > 0 /\ upper <= Reference(r).sourceStart
  <2>1. /\ range.lower = 0 /\ upper \in Nat
        /\ upper >= PaddingFrames + 5 * MarkerInterval
        /\ upper <= Reference(r).sourceStart
    BY RangeIsWide
  <2>2. PaddingFrames \in Nat /\ MarkerInterval \in Nat /\ MarkerInterval >= 100
    BY RateFacts
  <2> HIDE DEF upper, range
  <2> QED BY <2>1, <2>2
<1>2. s = A!Picked(all, M)
  <2>1. s = IF range.upper <= range.lower THEN <<>> ELSE A!DetectImpulses(runs, range)
    BY DEF HeardOf, A!HeardMarkers, RangeOf
  <2>2. A!DetectImpulses(runs, range) = A!Picked(all, M)
    BY DEF A!DetectImpulses
  <2>3. ~(range.upper <= range.lower)
    BY <1>1
  <2> HIDE DEF s, all, M, runs, range
  <2> QED BY <2>1, <2>2, <2>3
<1>3. /\ n \in Nat /\ DOMAIN runs = 1..n
      /\ \A k \in 1..n : /\ runs[k].from \in Nat /\ runs[k].to \in Nat /\ runs[k].peak \in Nat
                         /\ runs[k].from < runs[k].to
      /\ \A j, k \in 1..n : j < k => runs[j].from < runs[k].from
  BY RunsAreInOrder
<1> HIDE DEF runs, n, s, upper
<1>4. ASSUME NEW k \in 1..n
      PROVE  /\ Within(runs[k]).from = runs[k].from
             /\ k \in inside <=> runs[k].from < upper
  <2>1. Within(runs[k]).from = runs[k].from
    <3>1. A!AtLeast(range.lower, runs[k].from) = runs[k].from
      BY <1>1, <1>3 DEF A!AtLeast
    <3> QED BY <3>1
  <2>2. Within(runs[k]).to = IF runs[k].to < upper THEN runs[k].to ELSE upper
    BY DEF upper
  <2> DEFINE a == Within(runs[k]).from
             b == Within(runs[k]).to
  <2>3. k \in inside <=> a < b
    BY <1>3
  <2> HIDE DEF a, b
  <2>4. a = runs[k].from /\ b = IF runs[k].to < upper THEN runs[k].to ELSE upper
    BY <2>1, <2>2 DEF a, b
  <2>5. a < b <=> runs[k].from < upper
    BY <1>1, <1>3, <2>4
  <2> QED BY <2>1, <2>3, <2>5
<1> HIDE DEF Within
<1>5. ASSUME NEW k \in 1..n
      PROVE  all[k] \in Candidates /\ all[k].frame = runs[k].from /\ all[k].peak = runs[k].peak
  <2>1. all[k] = [frame |-> runs[k].from, peak |-> runs[k].peak]
    BY <1>3, <1>4
  <2>2. runs[k].from \in Int /\ runs[k].peak \in Int
    BY <1>3
  <2> HIDE DEF all
  <2> QED BY <2>1, <2>2 DEF Candidates
<1>6. IsSequence(all, n, Candidates)
  <2>1. DOMAIN all = 1..n /\ all = [k \in 1..n |-> all[k]]
    BY <1>3
  <2> HIDE DEF all
  <2> QED BY <1>3, <1>5, <2>1, SequenceOf
<1> HIDE DEF all
<1>7. ASSUME NEW k \in 1..n, runs[k].from < upper PROVE runs[k] \in Early(r)
  <2>1. runs[k].from < Reference(r).sourceStart
    <3>1. Reference(r).sourceStart \in Nat
      <4>1. Reference(r).sourceStart = PaddingFrames + 4 * MarkerInterval + 2 * Rate
        BY MarkersOf
      <4>2. PaddingFrames \in Nat /\ MarkerInterval \in Nat /\ Rate \in Nat
        BY RateFacts
      <4> QED BY <4>1, <4>2
    <3> QED BY <1>1, <1>3, <1>7, <3>1
  <2> QED BY <1>3, <2>1 DEF Early, runs
<1>8. ASSUME NEW x \in Early(r) PROVE \E k \in 1..n : x = runs[k]
  BY <1>3 DEF Early, runs
<1>9. ASSUME NEW k \in 1..n
      PROVE  k \in M <=> /\ runs[k].from < upper /\ runs[k].peak > 5
                         /\ \A y \in Early(r) : y.from < upper => 2 * runs[k].peak > y.peak
  <2>1. inside \subseteq 1..n
    BY <1>3
  <2>3. (\A j \in inside : 2 * runs[k].peak > runs[j].peak)
          <=> (\A y \in Early(r) : y.from < upper => 2 * runs[k].peak > y.peak)
    <3> HIDE DEF inside
    <3>1. ASSUME \A j \in inside : 2 * runs[k].peak > runs[j].peak, NEW y \in Early(r),
                 y.from < upper
          PROVE  2 * runs[k].peak > y.peak
      <4>1. PICK j \in 1..n : y = runs[j]
        BY <1>8
      <4>2. j \in inside
        BY <1>4, <3>1, <4>1
      <4> QED BY <3>1, <4>1, <4>2
    <3>2. ASSUME \A y \in Early(r) : y.from < upper => 2 * runs[k].peak > y.peak,
                 NEW j \in inside
          PROVE  2 * runs[k].peak > runs[j].peak
      <4>1. j \in 1..n /\ runs[j].from < upper
        BY <1>4, <2>1
      <4>2. runs[j] \in Early(r)
        BY <1>7, <4>1
      <4> QED BY <3>2, <4>1, <4>2
    <3> QED BY <3>1, <3>2
  <2>4. k \in M <=> /\ k \in inside /\ runs[k].peak > 5
                    /\ \A j \in inside : 2 * runs[k].peak > runs[j].peak
    <3> HIDE DEF inside
    <3> QED OBVIOUS
  <2> HIDE DEF M, inside
  <2> QED BY <1>4, <2>3, <2>4
<1> HIDE DEF M, inside
<1>10. s \in Seq(Candidates) /\ \E f : IsPick(s, all, M, f, n)
  BY <1>2, <1>6, PickedOf DEF IsSequence
<1>11. PICK f : IsPick(s, all, M, f, n)
  BY <1>10
<1>12. Len(s) \in Nat /\ DOMAIN s = 1..Len(s)
  BY <1>10, ElementsOf
<1>13. ASSUME NEW c \in 1..Len(s)
       PROVE  f[c] \in 1..n /\ f[c] \in M /\ s[c] = all[f[c]]
  BY <1>11 DEF IsPick
<1>14. IsRising(s)
  <2>1. ASSUME NEW j \in DOMAIN s, NEW k \in DOMAIN s, j < k PROVE s[j].frame < s[k].frame
    <3>1. f[j] < f[k] /\ f[j] \in 1..n /\ f[k] \in 1..n
      BY <1>11, <1>12, <1>13, <2>1 DEF IsPick
    <3>2. runs[f[j]].from < runs[f[k]].from
      BY <1>3, <3>1
    <3> QED BY <1>5, <1>12, <1>13, <3>1, <3>2
  <2> QED BY <2>1 DEF IsRising
<1>15. Len(s) <= n
  <2> DEFINE T == {k \in 0..Len(s) : k > 0 => k <= f[k]}
  <2>1. 0 \in T
    BY <1>12
  <2>2. ASSUME NEW k \in 1..Len(s), k - 1 \in T PROVE k \in T
    <3>1. f[k] \in 1..n /\ k \in 0..Len(s)
      BY <1>12, <1>13
    <3>2. CASE k = 1
      BY <1>3, <3>1, <3>2
    <3>3. CASE k # 1
      <4>1. k - 1 \in 1..Len(s)
        BY <1>12, <3>3
      <4>2. f[k - 1] \in 1..n /\ f[k - 1] < f[k]
        BY <1>11, <1>13, <4>1 DEF IsPick
      <4>3. k - 1 <= f[k - 1]
        BY <2>2, <4>1
      <4> QED BY <1>3, <3>1, <4>1, <4>2, <4>3
    <3> QED BY <3>2, <3>3
  <2>3. 0..Len(s) \subseteq T
    <3> HIDE DEF T
    <3> QED BY <1>12, <2>1, <2>2, SetInduction
  <2>4. CASE Len(s) = 0
    BY <1>3, <2>4
  <2>5. CASE Len(s) # 0
    <3>1. Len(s) \in 1..Len(s) /\ Len(s) \in T
      BY <1>12, <2>3, <2>5
    <3>2. f[Len(s)] \in 1..n
      BY <1>13, <3>1
    <3> QED BY <1>3, <1>12, <2>5, <3>1, <3>2
  <2> QED BY <2>4, <2>5
<1>16. ASSUME NEW c \in DOMAIN s
       PROVE  \E x \in Early(r) :
                /\ s[c].frame = x.from /\ x.peak > 5
                /\ \A y \in Early(r) : y.from < upper => 2 * x.peak > y.peak
  <2>1. f[c] \in 1..n /\ f[c] \in M /\ s[c] = all[f[c]]
    BY <1>12, <1>13
  <2>2. s[c].frame = runs[f[c]].from
    BY <1>5, <2>1
  <2>3. /\ runs[f[c]].from < upper /\ runs[f[c]].peak > 5
        /\ \A y \in Early(r) : y.from < upper => 2 * runs[f[c]].peak > y.peak
    BY <1>9, <2>1
  <2>4. runs[f[c]] \in Early(r)
    BY <1>7, <2>1, <2>3
  <2> QED BY <2>2, <2>3, <2>4
<1>17. ASSUME NEW x \in Dominant(r), x.from < upper
       PROVE  \E c \in DOMAIN s : s[c].frame = x.from
  <2>1. x \in Early(r) /\ x.peak > 5 /\ \A y \in Early(r) : 2 * x.peak > y.peak
    BY DEF Dominant
  <2>2. PICK k \in 1..n : x = runs[k]
    BY <1>8, <2>1
  <2>3. k \in M
    BY <1>9, <1>17, <2>1, <2>2
  <2>4. PICK c \in 1..Len(s) : f[c] = k
    BY <1>11, <2>3 DEF IsPick
  <2>5. s[c].frame = x.from
    BY <1>5, <1>13, <2>2, <2>4
  <2> QED BY <1>12, <2>5
<1> QED BY <1>10, <1>14, <1>15, <1>16, <1>17 DEF IsHeard, n, s, runs, upper

ChosenOf(r) ==
  A!SelectSequence(A!Sequences(HeardOf(r), Reference(r).markers, Rate), A!MarkerCount, Rate)

\* What is heard arrives as the runs do, and the train is heard.
LEMMA HeardArrives ==
  ASSUME RateIsSupported, NEW r, IsRecording(r), NEW near, NEW delays,
         ArrivesAt(r, near, delays)
  PROVE  LET s == HeardOf(r)
         IN /\ \A c \in DOMAIN s : \E x \in Early(r), m \in 1..5 :
                 /\ s[c].frame = x.from /\ Delay(r, x, m) \in delays
                 /\ Delay(r, x, m) + r.latency < MarkerInterval
            /\ \A x \in Train(r, near) : \E c \in DOMAIN s : s[c].frame = x.from
<1> DEFINE s == HeardOf(r)
           upper == RangeOf(r).upper
           marks == Reference(r).markers
           i == MarkerInterval
           p == PaddingFrames
<1>1. IsHeard(s, r, upper)
  BY HeardOfRuns
<1>2. upper \in Nat /\ upper >= p + 5 * i
  BY RangeIsWide
<1>3. p \in Nat /\ i \in Nat
  BY RateFacts
<1>4. marks[1] = p /\ IsSpaced(marks, i)
  BY MarkersOf
<1>5. ASSUME NEW m \in 1..5 PROVE marks[m] \in Int /\ marks[m] <= p + 4 * i
  <2>1. marks \in Seq(Int) /\ Len(marks) = 5
    BY <1>4 DEF IsSpaced
  <2>2. marks[m] \in Int
    BY <2>1, ElementsOf
  <2>3. marks[m] - marks[1] = (m - 1) * i
    <3>1. \A j, k \in 1..5 : marks[k] - marks[j] = (k - j) * i
      BY <1>4 DEF IsSpaced
    <3> DEFINE first == 1
    <3>2. first \in 1..5
      OBVIOUS
    <3> HIDE DEF first
    <3>3. marks[m] - marks[first] = (m - first) * i
      BY <3>1, <3>2
    <3> QED BY <3>3 DEF first
  <2> DEFINE d == m - 1
  <2>4. d \in Nat /\ d <= 4
    OBVIOUS
  <2> HIDE DEF d
  <2>5. d * i <= 4 * i /\ d * i \in Int
    <3>1. (4 - d) * i \in Nat /\ (4 - d) * i = 4 * i - d * i /\ d * i \in Int /\ 4 * i \in Int
      BY <1>3, <2>4
    <3> QED BY <3>1
  <2>6. marks[m] - p = d * i
    BY <1>4, <2>3 DEF d
  <2> QED BY <1>3, <2>2, <2>5, <2>6
<1>6. ASSUME NEW x \in Early(r) PROVE x.from \in Nat
  BY RunsAreInOrder DEF Early
<1>7. r.latency \in Nat
  BY DEF IsRecording
<1>8. Train(r, near) \subseteq Dominant(r) /\ Dominant(r) \subseteq Early(r)
  BY DEF Train, Dominant
<1>9. \A y \in Early(r) :
        y.peak > 5 /\ (\A x \in Train(r, near) : 2 * y.peak > x.peak) =>
          \E m \in 1..5 : /\ Delay(r, y, m) \in delays
                          /\ Delay(r, y, m) + r.latency < i
  BY DEF ArrivesAt, Markers, A!MarkerCount
<1> HIDE DEF s, upper, marks, i, p
<1>10. ASSUME NEW x \in Train(r, near) PROVE x.from < upper
  <2>1. x \in Early(r) /\ x.peak > 5 /\ \A y \in Train(r, near) : 2 * x.peak > y.peak
    BY <1>8 DEF Dominant
  <2>2. PICK m \in 1..5 : Delay(r, x, m) + r.latency < i
    BY <1>9, <2>1
  <2>3. Delay(r, x, m) = x.from - marks[m] - r.latency
    BY DEF Delay, marks
  <2> DEFINE a == x.from
             b == marks[m]
             d == Delay(r, x, m)
  <2>4. a \in Nat /\ b \in Int /\ b <= p + 4 * i /\ d = a - b - r.latency /\ d + r.latency < i
    BY <1>5, <1>6, <2>1, <2>2, <2>3
  <2> HIDE DEF a, b, d
  <2>5. a < upper
    BY <1>2, <1>3, <1>7, <2>4
  <2> QED BY <2>5 DEF a
<1>11. ASSUME NEW c \in DOMAIN s
       PROVE  \E x \in Early(r), m \in 1..5 :
                /\ s[c].frame = x.from /\ Delay(r, x, m) \in delays
                /\ Delay(r, x, m) + r.latency < i
  <2>1. PICK x \in Early(r) : /\ s[c].frame = x.from /\ x.peak > 5
                              /\ \A y \in Early(r) : y.from < upper => 2 * x.peak > y.peak
    BY <1>1 DEF IsHeard
  <2>2. \A y \in Train(r, near) : 2 * x.peak > y.peak
    BY <1>8, <1>10, <2>1
  <2>3. PICK m \in 1..5 : Delay(r, x, m) \in delays /\ Delay(r, x, m) + r.latency < i
    BY <1>9, <2>1, <2>2
  <2> QED BY <2>1, <2>3
<1>12. ASSUME NEW x \in Train(r, near) PROVE \E c \in DOMAIN s : s[c].frame = x.from
  BY <1>1, <1>8, <1>10 DEF IsHeard
<1> QED BY <1>11, <1>12 DEF s, i

\* When a train that is tried is strong evidence for a direct sound no later
\* than "first" frames, the one that is chosen is evidence enough, and has the
\* delay of a run no later than the tolerance after that.
LEMMA DirectDelay ==
  ASSUME RateIsSupported, NEW r, IsRecording(r), Len(r.runs) <= A!MaximumCandidates,
         NEW near, NEW delays, delays \subseteq Nat, ArrivesAt(r, near, delays),
         Train(r, near) # {}, NEW first \in Nat,
         first + A!ToleranceFrames(Rate) < MarkerInterval,
         \E train : /\ IsTried(train, A!SortedCandidates(HeardOf(r)), Reference(r).markers)
                    /\ train # A!NotFound /\ A!IsStrongDirect(train, 5)
                    /\ train.median <= r.latency + first
  PROVE  /\ A!HasEvidence(ChosenOf(r), A!MarkerCount) /\ ChosenOf(r).median \in Int
         /\ ChosenOf(r).median - r.latency \in 0..(first + A!ToleranceFrames(Rate))
         /\ \E x \in Early(r), m \in Markers :
              ChosenOf(r).median - r.latency = Delay(r, x, m) /\ Delay(r, x, m) \in delays
<1> DEFINE s == HeardOf(r)
           marks == Reference(r).markers
           i == MarkerInterval
           chosen == ChosenOf(r)
           tolerance == A!ToleranceFrames(Rate)
<1>1. i \in Nat /\ tolerance \in Nat
  BY RateFacts
<1>2. IsSpaced(marks, i)
  BY MarkersOf
<1>3. s \in Seq(Candidates) /\ IsRising(s) /\ Len(s) <= Len(r.runs)
  BY HeardOfRuns DEF IsHeard
<1>4. Len(s) <= A!MaximumCandidates
  <2>1. Len(s) \in Nat /\ Len(r.runs) \in Nat
    BY <1>3, RunsAreInOrder, ElementsOf
  <2>2. A!MaximumCandidates \in Nat
    BY DEF A!MaximumCandidates
  <2> HIDE DEF s
  <2> QED BY <1>3, <2>1, <2>2
<1>5. /\ \A c \in DOMAIN s : \E x \in Early(r), m \in 1..5 :
           /\ s[c].frame = x.from /\ Delay(r, x, m) \in delays
           /\ Delay(r, x, m) + r.latency < i
      /\ \A x \in Train(r, near) : \E c \in DOMAIN s : s[c].frame = x.from
  BY HeardArrives
<1>6. s # <<>>
  <2>1. PICK x \in Train(r, near) : TRUE
    OBVIOUS
  <2>2. PICK c \in DOMAIN s : s[c].frame = x.from
    BY <1>5, <2>1
  <2> HIDE DEF s
  <2> QED BY <2>2
<1>7. r.latency \in Nat
  BY DEF IsRecording
<1>8. marks \in Seq(Int) /\ Len(marks) = 5
  BY <1>2 DEF IsSpaced
<1>9. ASSUME NEW x \in Early(r) PROVE x.from \in Nat
  BY RunsAreInOrder DEF Early
<1>10. ASSUME NEW x, NEW m PROVE Delay(r, x, m) = x.from - marks[m] - r.latency
  BY DEF Delay
<1> HIDE DEF s, marks, i
<1>11. Follows(s, marks, r.latency, i, Nat)
  <2>1. ASSUME NEW c \in DOMAIN s
        PROVE  \E m \in 1..5 : /\ s[c].frame - marks[m] - r.latency \in Nat
                               /\ s[c].frame - marks[m] < i
    <3>1. PICK x \in Early(r), m \in 1..5 :
            /\ s[c].frame = x.from /\ Delay(r, x, m) \in delays
            /\ Delay(r, x, m) + r.latency < i
      BY <1>5
    <3> DEFINE a == x.from
               b == marks[m]
               d == Delay(r, x, m)
    <3>2. a \in Nat /\ b \in Int /\ d = a - b - r.latency /\ d \in Nat /\ d + r.latency < i
      BY <1>8, <1>9, <1>10, <3>1, ElementsOf
    <3>3. s[c].frame - marks[m] = a - b
      BY <3>1
    <3> HIDE DEF a, b, d
    <3>4. (a - b) - r.latency \in Nat /\ a - b < i
      BY <1>1, <1>7, <3>2
    <3> QED BY <3>3, <3>4
  <2> QED BY <2>1 DEF Follows
<1>12. /\ A!IsStrongDirect(chosen, 5) /\ chosen # A!NotFound
       /\ chosen.median \in Int /\ Len(chosen.pairs) \in Nat
       /\ chosen.median - r.latency \in 0..(first + tolerance)
       /\ \E c \in DOMAIN s, m \in 1..5 :
            /\ chosen.median = s[c].frame - marks[m]
            /\ s[c].frame - marks[m] < i
  <2> DEFINE found == A!SelectSequence(A!Sequences(s, marks, Rate), 5, Rate)
  <2>1. chosen = found
    BY DEF ChosenOf, A!MarkerCount, s, marks
  <2>2. \E train : /\ IsTried(train, A!SortedCandidates(s), marks)
                   /\ train # A!NotFound /\ A!IsStrongDirect(train, 5)
                   /\ train.median <= r.latency + first
    BY DEF s, marks
  <2>3. first + A!ToleranceFrames(Rate) < i
    BY DEF i
  <2>4. /\ A!IsStrongDirect(found, 5) /\ found # A!NotFound
        /\ found.median \in Int /\ Len(found.pairs) \in Nat
        /\ found.median - r.latency \in 0..(first + tolerance)
        /\ \E c \in DOMAIN s, m \in 1..5 :
             /\ found.median = s[c].frame - marks[m]
             /\ s[c].frame - marks[m] < i
    <3> HIDE DEF chosen
    <3> QED BY <1>1, <1>2, <1>3, <1>4, <1>6, <1>7, <1>11, <2>2, <2>3, DirectIsChosen
  <2> HIDE DEF found, chosen
  <2> QED BY <2>1, <2>4
<1> HIDE DEF chosen, tolerance
<1>13. A!HasEvidence(chosen, A!MarkerCount)
  <2>1. 4 * Len(chosen.pairs) >= 3 * 5
    BY <1>12 DEF A!IsStrongDirect
  <2> DEFINE n == Len(chosen.pairs)
  <2>2. 100 * n >= 45 * 5
    <3>1. n \in Nat
      BY <1>12
    <3> HIDE DEF n
    <3>2. 4 * n >= 15
      BY <2>1, <3>1 DEF n
    <3> QED BY <3>1, <3>2
  <2> QED BY <1>12, <2>2 DEF A!HasEvidence, A!MarkerCount
<1>14. PICK c \in DOMAIN s, m \in 1..5 : /\ chosen.median = s[c].frame - marks[m]
                                         /\ s[c].frame - marks[m] < i
  BY <1>12
<1>15. PICK x \in Early(r), k \in 1..5 :
         /\ s[c].frame = x.from /\ Delay(r, x, k) \in delays
         /\ Delay(r, x, k) + r.latency < i
  BY <1>5
<1> DEFINE a == x.from
           u == a - marks[m]
           v == a - marks[k]
           d == Delay(r, x, k)
<1>16. a \in Int /\ marks[m] \in Int /\ marks[k] \in Int
  <2>1. a \in Int
    BY <1>9
  <2>2. marks[m] \in Int
    BY <1>8, ElementsOf
  <2>3. marks[k] \in Int
    BY <1>8, ElementsOf
  <2> QED BY <2>1, <2>2, <2>3
<1>17. /\ u \in Int /\ v \in Int
       /\ m = k => u = v
       /\ m > k => u <= v - i
       /\ m < k => u >= v + i
  BY <1>1, <1>2, <1>16, DelayOfPair
<1>18. /\ chosen.median = u /\ u < i /\ chosen.median - r.latency \in 0..(first + tolerance)
       /\ d \in Nat /\ d = v - r.latency /\ d + r.latency < i
  <2>1. d = a - marks[k] - r.latency /\ d \in Nat
    BY <1>10, <1>15
  <2>2. d = v - r.latency
    BY <2>1
  <2> QED BY <1>12, <1>14, <1>15, <2>1, <2>2
<1> HIDE DEF a, u, v, d
<1>19. u - r.latency >= 0
  <2>1. 0 <= u - r.latency
    BY <1>7, <1>17, <1>18
  <2> QED BY <1>7, <1>17, <2>1
<1>20. ~(m > k) /\ ~(m < k)
  <2>1. v \in Int /\ v >= 0 /\ v < i
    BY <1>7, <1>17, <1>18
  <2>2. u \in Int /\ u >= 0 /\ u < i
    BY <1>7, <1>17, <1>18, <1>19
  <2>3. ~(u <= v - i) /\ ~(u >= v + i)
    BY <1>1, <2>1, <2>2
  <2> QED BY <1>17, <2>3
<1>21. u = v
  BY <1>17, <1>20
<1>22. chosen.median - r.latency = d
  BY <1>18, <1>21
<1>23. d \in delays
  BY <1>15 DEF d
<1>24. k \in Markers
  BY DEF Markers, A!MarkerCount
<1> QED BY <1>12, <1>13, <1>22, <1>23, <1>24 DEF chosen, tolerance, d

\* What is sorted arrives in the same way.
LEMMA SortedArrives ==
  ASSUME RateIsSupported, NEW r, IsRecording(r), NEW near, NEW delays,
         ArrivesAt(r, near, delays)
  PROVE  LET s == A!SortedCandidates(HeardOf(r))
             marks == Reference(r).markers
         IN /\ s \in Seq(Candidates) /\ IsRising(s)
            /\ \A c \in DOMAIN s : \E m \in 1..5 : After(s, marks, r.latency, c, m) \in delays
            /\ \A x \in Train(r, near) : \E c \in DOMAIN s : \A m \in 1..5 :
                 After(s, marks, r.latency, c, m) = Delay(r, x, m)
<1> DEFINE heard == HeardOf(r)
           s == A!SortedCandidates(heard)
           marks == Reference(r).markers
<1>1. heard \in Seq(Candidates) /\ IsRising(heard)
  BY HeardOfRuns DEF IsHeard
<1>2. /\ \A c \in DOMAIN heard : \E x \in Early(r), m \in 1..5 :
           heard[c].frame = x.from /\ Delay(r, x, m) \in delays
      /\ \A x \in Train(r, near) : \E c \in DOMAIN heard : heard[c].frame = x.from
  BY HeardArrives
<1>3. s \in Seq(Candidates) /\ IsRising(s) /\ HoldSame(s, heard)
  <2> HIDE DEF heard
  <2> QED BY <1>1, SortedStays
<1>4. ASSUME NEW x, NEW m PROVE Delay(r, x, m) = x.from - marks[m] - r.latency
  BY DEF Delay
<1> HIDE DEF heard, s, marks
<1>5. ASSUME NEW c \in DOMAIN s PROVE \E m \in 1..5 : After(s, marks, r.latency, c, m) \in delays
  <2>1. PICK b \in DOMAIN heard : s[c] = heard[b]
    BY <1>3 DEF HoldSame
  <2>2. PICK x \in Early(r), m \in 1..5 :
          heard[b].frame = x.from /\ Delay(r, x, m) \in delays
    BY <1>2
  <2>3. After(s, marks, r.latency, c, m) = Delay(r, x, m)
    BY <1>4, <2>1, <2>2 DEF After
  <2> QED BY <2>2, <2>3
<1>6. ASSUME NEW x \in Train(r, near)
      PROVE  \E c \in DOMAIN s : \A m \in 1..5 :
               After(s, marks, r.latency, c, m) = Delay(r, x, m)
  <2>1. PICK b \in DOMAIN heard : heard[b].frame = x.from
    BY <1>2
  <2>2. PICK c \in DOMAIN s : s[c] = heard[b]
    BY <1>3 DEF HoldSame
  <2>3. ASSUME NEW m \in 1..5 PROVE After(s, marks, r.latency, c, m) = Delay(r, x, m)
    BY <1>4, <2>1, <2>2 DEF After
  <2> QED BY <2>3
<1> QED BY <1>3, <1>5, <1>6 DEF s, heard, marks

\* Four of five markers heard within ten frames of their time.
LEMMA SteadyIsChosen ==
  ASSUME RateIsSupported, NEW r, IsRecording(r), Len(r.runs) <= A!MaximumCandidates,
         NEW steady, steady = 0..10, NEW delays,
         delays = steady \cup
           (A!ToleranceFrames(Rate) + 11)..(MarkerInterval - A!ToleranceFrames(Rate) - 1),
         Cardinality(TrainMarkers(r, steady)) >= 4, ArrivesAt(r, steady, delays)
  PROVE  /\ A!HasEvidence(ChosenOf(r), A!MarkerCount) /\ ChosenOf(r).median \in Int
         /\ ChosenOf(r).median - r.latency >= 0
         /\ \E x \in Early(r), m \in Markers :
              ChosenOf(r).median - r.latency = Delay(r, x, m) /\ Delay(r, x, m) \in steady
<1> DEFINE s == A!SortedCandidates(HeardOf(r))
           marks == Reference(r).markers
           i == MarkerInterval
           tolerance == A!ToleranceFrames(Rate)
           E == TrainMarkers(r, steady)
<1>1. /\ i \in Nat /\ tolerance \in Nat /\ tolerance >= 10 /\ tolerance + 10 < i
  <2> HIDE DEF i, tolerance
  <2>1. i \in Nat /\ tolerance \in Nat /\ tolerance >= 35 /\ tolerance + 20 < i
    BY RateFacts DEF i, tolerance
  <2> QED BY <2>1
<1>2. IsSpaced(marks, i)
  BY MarkersOf
<1>3. /\ s \in Seq(Candidates) /\ IsRising(s)
      /\ \A c \in DOMAIN s : \E m \in 1..5 : After(s, marks, r.latency, c, m) \in delays
      /\ \A x \in Train(r, steady) : \E c \in DOMAIN s : \A m \in 1..5 :
           After(s, marks, r.latency, c, m) = Delay(r, x, m)
  BY SortedArrives
<1>4. r.latency \in Nat
  BY DEF IsRecording
<1>5. E \in SUBSET (1..5)
  BY DEF TrainMarkers, Markers, A!MarkerCount
<1>6. ASSUME NEW d
      PROVE  /\ d \in steady => d \in Nat /\ d >= 0 /\ d <= 10
             /\ d \in Int /\ d >= 0 /\ d <= 10 => d \in steady
  <2> DEFINE b == 10
  <2>1. steady = 0..b /\ b \in Nat
    OBVIOUS
  <2> HIDE DEF b
  <2>2. /\ d \in steady => d \in Nat /\ d >= 0 /\ d <= b
        /\ d \in Int /\ d >= 0 /\ d <= b => d \in steady
    BY <2>1
  <2> QED BY <2>2 DEF b
<1>7. ASSUME NEW d \in delays
      PROVE  /\ d \in Nat
             /\ \/ d >= 0 /\ d <= 10
                \/ d > tolerance + 10 /\ d < i - tolerance
  <2> DEFINE a == tolerance + 11
             b == i - tolerance - 1
  <2>1. d \in steady \/ d \in a..b
    OBVIOUS
  <2>2. a \in Nat /\ b \in Int /\ a > tolerance + 10 /\ b < i - tolerance
    <3> HIDE DEF i, tolerance
    <3> QED BY <1>1
  <2> HIDE DEF a, b, i, tolerance
  <2>3. d \in a..b => d \in Nat /\ d > tolerance + 10 /\ d < i - tolerance
    BY <1>1, <2>2
  <2> QED BY <1>6, <2>1, <2>3
<1>8. delays \subseteq Nat
  BY <1>7
<1> HIDE DEF s, marks
<1>9. ASSUME NEW c \in DOMAIN s
      PROVE  \E m \in 1..5 :
               \/ /\ After(s, marks, r.latency, c, m) >= 0
                  /\ After(s, marks, r.latency, c, m) <= 10
               \/ /\ After(s, marks, r.latency, c, m) > tolerance + 10
                  /\ After(s, marks, r.latency, c, m) < i - tolerance
  BY <1>3, <1>7
<1>10. ASSUME NEW m \in E
       PROVE  /\ Train(r, steady) # {}
              /\ \E c \in DOMAIN s : /\ After(s, marks, r.latency, c, m) >= 0
                                     /\ After(s, marks, r.latency, c, m) <= 10
  <2>1. PICK x \in Dominant(r) : Delay(r, x, m) \in steady
    BY DEF TrainMarkers
  <2>2. m \in 1..5 /\ m \in Markers
    BY <1>5 DEF TrainMarkers
  <2>3. x \in Train(r, steady)
    BY <2>1, <2>2 DEF Train
  <2>4. PICK c \in DOMAIN s : After(s, marks, r.latency, c, m) = Delay(r, x, m)
    BY <1>3, <2>2, <2>3
  <2>5. Delay(r, x, m) >= 0 /\ Delay(r, x, m) <= 10
    BY <1>6, <2>1
  <2> QED BY <2>3, <2>4, <2>5
<1>11. \E train : /\ IsTried(train, s, marks) /\ train # A!NotFound
                  /\ A!IsStrongDirect(train, 5) /\ train.median <= r.latency + 10
  <2>1. tolerance = A!ToleranceFrames(Rate)
    OBVIOUS
  <2>2. Cardinality(E) >= 4
    OBVIOUS
  <2>3. AreClear(s, marks, r.latency, i, tolerance)
    BY <1>9 DEF AreClear
  <2>4. AreHeard(s, marks, r.latency, E)
    BY <1>10 DEF AreHeard
  <2> HIDE DEF tolerance, i, E
  <2> QED BY <1>1, <1>2, <1>3, <1>4, <1>5, <2>1, <2>2, <2>3, <2>4, SteadyTrain
<1>12. Train(r, steady) # {}
  <2>1. E # {}
    <3>1. Cardinality({}) = 0
      BY FS_EmptySet
    <3>2. Cardinality(E) >= 4
      OBVIOUS
    <3>3. ~(0 >= 4)
      OBVIOUS
    <3> HIDE DEF E
    <3> QED BY <3>1, <3>2, <3>3
  <2> QED BY <1>10, <2>1
<1> DEFINE first == 10
           chosen == ChosenOf(r)
<1>13. /\ A!HasEvidence(chosen, A!MarkerCount) /\ chosen.median \in Int
       /\ chosen.median - r.latency \in 0..(first + tolerance)
       /\ \E x \in Early(r), m \in Markers :
            chosen.median - r.latency = Delay(r, x, m) /\ Delay(r, x, m) \in delays
  <2>1. first \in Nat /\ first + A!ToleranceFrames(Rate) < MarkerInterval
    BY <1>1
  <2>2. \E train : /\ IsTried(train, A!SortedCandidates(HeardOf(r)), Reference(r).markers)
                   /\ train # A!NotFound /\ A!IsStrongDirect(train, 5)
                   /\ train.median <= r.latency + first
    BY <1>11 DEF s, marks
  <2> HIDE DEF first
  <2> QED BY <1>8, <1>12, <2>1, <2>2, DirectDelay
<1>14. PICK x \in Early(r), m \in Markers :
         chosen.median - r.latency = Delay(r, x, m) /\ Delay(r, x, m) \in delays
  BY <1>13
<1> DEFINE d == Delay(r, x, m)
           y == chosen.median
<1>15. d \in Nat /\ d <= 10
  <2>1. /\ d \in Nat
        /\ \/ d >= 0 /\ d <= 10
           \/ d > tolerance + 10 /\ d < i - tolerance
    BY <1>7, <1>14
  <2>2. d = y - r.latency /\ y \in Int /\ y - r.latency \in 0..(10 + tolerance)
    BY <1>13, <1>14
  <2> HIDE DEF d, y, i, tolerance
  <2>3. d <= 10 + tolerance
    BY <1>1, <1>4, <2>2
  <2> QED BY <1>1, <2>1, <2>3
<1>16. d \in steady
  BY <1>6, <1>15
<1>17. chosen.median - r.latency >= 0
  BY <1>14, <1>15
<1> QED BY <1>13, <1>14, <1>16, <1>17

\* All markers heard at one delay within the tolerance, and nothing later.
LEMMA ExactIsChosen ==
  ASSUME RateIsSupported, NEW r, IsRecording(r), Len(r.runs) <= A!MaximumCandidates,
         NEW tolerance, tolerance = A!ToleranceFrames(Rate), NEW d \in 0..tolerance,
         NEW delays \in SUBSET (0..tolerance),
         TrainMarkers(r, {d}) = Markers, ArrivesAt(r, {d}, delays)
  PROVE  /\ A!HasEvidence(ChosenOf(r), A!MarkerCount) /\ ChosenOf(r).median \in Int
         /\ ChosenOf(r).median - r.latency \in delays
<1> DEFINE s == A!SortedCandidates(HeardOf(r))
           marks == Reference(r).markers
           i == MarkerInterval
           near == {d}
<1>1. /\ i \in Nat \ {0} /\ tolerance \in Nat /\ 2 * tolerance < i
  <2>1. i \in Nat /\ i >= 100 /\ tolerance \in Nat /\ 2 * tolerance < i
    BY RateFacts
  <2> HIDE DEF i
  <2> QED BY <2>1
<1>2. IsSpaced(marks, i)
  BY MarkersOf
<1>3. /\ s \in Seq(Candidates) /\ IsRising(s)
      /\ \A x \in Train(r, near) : \E c \in DOMAIN s : \A m \in 1..5 :
           After(s, marks, r.latency, c, m) = Delay(r, x, m)
  BY SortedArrives
<1>4. r.latency \in Nat /\ d \in Nat /\ d <= tolerance
  BY <1>1 DEF IsRecording
<1> DEFINE later == r.latency + d
<1>5. later \in Nat
  BY <1>4
<1>6. marks \in Seq(Int) /\ Len(marks) = 5
  BY <1>2 DEF IsSpaced
<1> HIDE DEF s, marks, i, later
<1>7. ASSUME NEW m \in 1..5
      PROVE  Train(r, near) # {} /\ \E c \in DOMAIN s : After(s, marks, later, c, m) = 0
  <2>1. m \in Markers
    BY DEF Markers, A!MarkerCount
  <2>2. PICK x \in Dominant(r) : Delay(r, x, m) = d
    BY <2>1 DEF TrainMarkers
  <2>3. x \in Train(r, near)
    BY <2>1, <2>2 DEF Train
  <2>4. PICK c \in DOMAIN s : After(s, marks, r.latency, c, m) = d
    BY <1>3, <2>2, <2>3
  <2>5. /\ s[c].frame \in Int /\ marks[m] \in Int
        /\ After(s, marks, r.latency, c, m) = s[c].frame - marks[m] - r.latency
    <3>1. r.latency \in Int
      BY <1>4
    <3> QED BY <1>3, <1>6, <3>1, AfterIsMeasured
  <2>6. After(s, marks, later, c, m) = s[c].frame - marks[m] - later
    BY DEF After
  <2> DEFINE a == s[c].frame
             b == marks[m]
  <2>7. a - b - later = 0
    <3>1. a \in Int /\ b \in Int /\ a - b - r.latency = d
      BY <2>4, <2>5
    <3> HIDE DEF a, b
    <3> QED BY <1>4, <3>1 DEF later
  <2> QED BY <2>3, <2>6, <2>7
<1>8. \E train : /\ IsTried(train, s, marks) /\ train # A!NotFound
                 /\ A!IsStrongDirect(train, 5) /\ train.median <= later
  <2>1. AreExact(s, marks, later)
    BY <1>7 DEF AreExact
  <2> QED BY <1>1, <1>2, <1>3, <1>5, <2>1, ExactTrain
<1>9. Train(r, near) # {}
  <2> DEFINE m == 1
  <2>1. m \in 1..5
    OBVIOUS
  <2> HIDE DEF m
  <2> QED BY <1>7, <2>1
<1> DEFINE chosen == ChosenOf(r)
<1>10. /\ A!HasEvidence(chosen, A!MarkerCount) /\ chosen.median \in Int
       /\ \E x \in Early(r), m \in Markers :
            chosen.median - r.latency = Delay(r, x, m) /\ Delay(r, x, m) \in delays
  <2>1. d + A!ToleranceFrames(Rate) < MarkerInterval
    BY <1>1, <1>4 DEF i
  <2>2. \E train : /\ IsTried(train, A!SortedCandidates(HeardOf(r)), Reference(r).markers)
                   /\ train # A!NotFound /\ A!IsStrongDirect(train, 5)
                   /\ train.median <= r.latency + d
    BY <1>8 DEF s, marks, later
  <2>3. delays \subseteq Nat
    BY <1>1
  <2>4. ArrivesAt(r, near, delays) /\ d \in Nat
    BY <1>4
  <2> HIDE DEF near, chosen
  <2> QED BY <1>9, <2>1, <2>2, <2>3, <2>4, DirectDelay DEF chosen
<1> QED BY <1>10

------------------------------
(* The recording of the fake device.                                       *)

Sources == [declared : Nat, delivered : Nat]

Chunks == [start : Nat, buffer : Seq(Nat), failed : BOOLEAN]

\* The frames of a chunk are those of the source; a chunk that failed is of a
\* source that ends early.
IsLoaded(chunk, source) ==
  /\ L!End(chunk) <= source.declared
  /\ \A j \in DOMAIN chunk.buffer : chunk.buffer[j] = chunk.start + j
  /\ chunk.failed => source.delivered < source.declared
  /\ ~chunk.failed => L!End(chunk) <= source.delivered

\* A chunk that is loaded for a frame holds it.
LEMMA ChunkHolds ==
  ASSUME NEW source \in Sources, NEW size \in Nat \ {0}, NEW chunk \in Chunks,
         NEW frame \in Nat, frame < source.declared
  PROVE  LET next == L!LoadSourceChunk(chunk, frame, source, size)
         IN /\ next \in Chunks
            /\ ~next.failed => next.start <= frame /\ frame < L!End(next)
            /\ ~chunk.failed /\ chunk.start <= frame /\ frame <= L!End(chunk)
                 /\ IsLoaded(chunk, source) => IsLoaded(next, source)
            /\ chunk.failed => next = chunk
<1> DEFINE left == source.declared - frame
           requested == IF left < size THEN left ELSE size
           held == chunk.start <= frame /\ frame < L!End(chunk)
           isOut == frame # L!End(chunk)
           isShort == source.delivered < frame + requested
           buffer == [j \in 1..requested |-> frame + j]
           loaded == [start |-> frame, buffer |-> buffer, failed |-> FALSE]
           broken == [chunk EXCEPT !.failed = TRUE]
           next == L!LoadSourceChunk(chunk, frame, source, size)
<1>0. SUFFICES
         /\ next \in Chunks
         /\ ~next.failed => next.start <= frame /\ frame < L!End(next)
         /\ ~chunk.failed /\ chunk.start <= frame /\ frame <= L!End(chunk)
              /\ IsLoaded(chunk, source) => IsLoaded(next, source)
         /\ chunk.failed => next = chunk
  OBVIOUS
<1>1. /\ source.declared \in Nat /\ source.delivered \in Nat
      /\ chunk.start \in Nat /\ chunk.buffer \in Seq(Nat) /\ chunk.failed \in BOOLEAN
      /\ chunk = [start |-> chunk.start, buffer |-> chunk.buffer, failed |-> chunk.failed]
  BY DEF Sources, Chunks
<1>2. next = IF chunk.failed \/ held THEN chunk
             ELSE IF isOut \/ isShort THEN broken ELSE loaded
  BY DEF L!LoadSourceChunk
<1>3. requested \in Nat /\ requested >= 1 /\ frame + requested <= source.declared
  BY <1>1
<1>4. Len(chunk.buffer) \in Nat /\ L!End(chunk) = chunk.start + Len(chunk.buffer)
  BY <1>1 DEF L!End
<1> HIDE DEF requested
<1>5. buffer \in Seq(Nat) /\ Len(buffer) = requested
      /\ \A j \in DOMAIN buffer : buffer[j] = frame + j
  <2>1. \A j \in 1..requested : buffer[j] \in Nat /\ buffer[j] = frame + j
    BY <1>3
  <2>2. DOMAIN buffer = 1..requested /\ buffer = [j \in 1..requested |-> buffer[j]]
    OBVIOUS
  <2> HIDE DEF buffer
  <2>3. IsSequence(buffer, requested, Nat)
    BY <1>3, <2>1, <2>2, SequenceOf
  <2> QED BY <2>1, <2>2, <2>3 DEF IsSequence
<1> HIDE DEF buffer
<1>6. /\ loaded \in Chunks /\ loaded.start = frame /\ loaded.buffer = buffer
      /\ loaded.failed = FALSE
  BY <1>5 DEF Chunks
<1>7. /\ broken \in Chunks /\ broken.start = chunk.start /\ broken.buffer = chunk.buffer
      /\ broken.failed = TRUE
  BY <1>1 DEF Chunks
<1>8. L!End(loaded) = frame + requested /\ L!End(broken) = L!End(chunk)
  BY <1>5, <1>6, <1>7 DEF L!End
<1> HIDE DEF loaded, broken, next, isOut, isShort
<1>9. CASE chunk.failed
  <2>1. next = chunk
    BY <1>2, <1>9
  <2> QED BY <1>1, <1>9, <2>1
<1>10. CASE ~chunk.failed /\ held
  <2>1. next = chunk
    BY <1>2, <1>10
  <2>2. chunk.start <= frame /\ frame < L!End(chunk)
    BY <1>10
  <2> QED BY <1>10, <2>1, <2>2
<1>11. CASE ~chunk.failed /\ ~held /\ (isOut \/ isShort)
  <2>1. next = broken
    BY <1>2, <1>11
  <2>2. ASSUME chunk.start <= frame, frame <= L!End(chunk), IsLoaded(chunk, source)
        PROVE  IsLoaded(next, source)
    <3>1. frame = L!End(chunk)
      BY <1>1, <1>4, <1>11, <2>2
    <3>2. isShort
      BY <1>11, <3>1 DEF isOut
    <3>3. source.delivered < source.declared
      BY <1>1, <1>3, <3>2 DEF isShort
    <3>4. L!End(next) <= source.declared
      BY <1>8, <2>1, <2>2 DEF IsLoaded
    <3>5. \A j \in DOMAIN next.buffer : next.buffer[j] = next.start + j
      BY <1>7, <2>1, <2>2 DEF IsLoaded
    <3>6. next.failed = TRUE
      BY <1>7, <2>1
    <3> QED BY <3>3, <3>4, <3>5, <3>6 DEF IsLoaded
  <2> QED BY <1>7, <1>11, <2>1, <2>2
<1>12. CASE ~chunk.failed /\ ~held /\ ~(isOut \/ isShort)
  <2>1. next = loaded
    BY <1>2, <1>12
  <2>2. frame < frame + requested
    BY <1>3
  <2>3. frame + requested <= source.delivered
    BY <1>1, <1>3, <1>12 DEF isShort
  <2>4. IsLoaded(next, source)
    <3>1. L!End(next) <= source.declared /\ L!End(next) <= source.delivered
      BY <1>3, <1>8, <2>1, <2>3
    <3>2. \A j \in DOMAIN next.buffer : next.buffer[j] = next.start + j
      BY <1>5, <1>6, <2>1
    <3>3. next.failed = FALSE
      BY <1>6, <2>1
    <3> QED BY <3>1, <3>2, <3>3 DEF IsLoaded
  <2> QED BY <1>6, <1>8, <1>12, <2>1, <2>2, <2>4
<1> QED BY <1>9, <1>10, <1>11, <1>12

\* The chunks of the rest of a source.
Drains(chunk, source, size) ==
  CHOOSE after : after = [i \in 0..source.declared |->
    IF i = 0 THEN chunk
    ELSE IF L!End(after[i - 1]) < source.declared
           THEN L!LoadSourceChunk(after[i - 1], L!End(after[i - 1]), source, size)
         ELSE after[i - 1]]

\* The rest of a source fails to be read exactly when it ends early.
LEMMA RestIsRead ==
  ASSUME NEW source \in Sources, NEW size \in Nat \ {0}, NEW chunk \in Chunks,
         IsLoaded(chunk, source)
  PROVE  L!Drain(chunk, source, size).failed <=> source.delivered < source.declared
<1> DEFINE n == source.declared
           More(i, c) == IF L!End(c) < n THEN L!LoadSourceChunk(c, L!End(c), source, size)
                         ELSE c
           Step == [p \in (1..n) \X Chunks |-> More(p[1], p[2])]
           Is(g) == g = [i \in 0..n |-> IF i = 0 THEN chunk ELSE More(i, g[i - 1])]
           q == Drains(chunk, source, size)
<1>1. n \in Nat /\ source.delivered \in Nat
  BY DEF Sources
<1>2. q = CHOOSE h : Is(h)
  BY DEF Drains
<1>3. L!Drain(chunk, source, size) = q[n]
  BY DEF L!Drain, Drains
<1>4. ASSUME NEW c \in Chunks PROVE L!End(c) \in Nat
  <2>1. c.start \in Nat /\ c.buffer \in Seq(Nat)
    BY DEF Chunks
  <2> QED BY <2>1 DEF L!End
<1>5. ASSUME NEW i \in 1..n, NEW c \in Chunks PROVE More(i, c) \in Chunks
  BY <1>4, ChunkHolds
<1> HIDE DEF n, q, More
<1>6. Step \in [(1..n) \X Chunks -> Chunks]
  BY <1>5
<1>7. PICK g : Iterated(g, n, Chunks, chunk, Step)
  <2> HIDE DEF Step
  <2> QED BY <1>1, <1>6, Iterates
<1>8. ASSUME NEW i \in 1..n PROVE g[i] = More(i, g[i - 1])
  <2>1. g[i - 1] \in Chunks
    BY <1>1, <1>7 DEF Iterated
  <2>2. <<i, g[i - 1]>> \in (1..n) \X Chunks
    BY <2>1
  <2>3. g[i] = Step[<<i, g[i - 1]>>]
    BY <1>7 DEF Iterated
  <2> QED BY <2>2, <2>3
<1>9. Is(g)
  <2>1. g = [i \in 0..n |-> g[i]] /\ g[0] = chunk
    BY <1>7 DEF Iterated
  <2>2. ASSUME NEW i \in 0..n
        PROVE  g[i] = IF i = 0 THEN chunk ELSE More(i, g[i - 1])
    <3>1. i # 0 => i \in 1..n
      BY <1>1
    <3> QED BY <1>8, <2>1, <3>1
  <2> QED BY <2>1, <2>2
<1>10. Is(q)
  <2> HIDE DEF Is
  <2> QED BY <1>2, <1>9
<1>11. q[0] = chunk /\ \A i \in 1..n : q[i] = More(i, q[i - 1])
  <2>1. 0 \in 0..n
    BY <1>1
  <2>2. ASSUME NEW i \in 1..n PROVE q[i] = More(i, q[i - 1])
    <3>1. i \in 0..n /\ i # 0
      BY <1>1
    <3> QED BY <1>10, <3>1
  <2> QED BY <1>10, <2>1, <2>2
<1> DEFINE T == {i \in 0..n : /\ q[i] \in Chunks /\ IsLoaded(q[i], source)
                              /\ ~q[i].failed => i <= L!End(q[i])}
<1>12. 0 \in T
  BY <1>1, <1>4, <1>11
<1>13. ASSUME NEW i \in 1..n, i - 1 \in T PROVE i \in T
  <2> DEFINE c == q[i - 1]
             d == L!LoadSourceChunk(c, L!End(c), source, size)
  <2>1. /\ c \in Chunks /\ IsLoaded(c, source) /\ (~c.failed => i - 1 <= L!End(c))
        /\ L!End(c) \in Nat /\ L!End(c) <= n /\ i \in 0..n
    BY <1>1, <1>4, <1>13 DEF IsLoaded, n
  <2>2. q[i] = IF L!End(c) < n THEN d ELSE c
    BY <1>11 DEF More
  <2>3. CASE L!End(c) < n
    <3>1. c.start <= L!End(c)
      <4>1. c.start \in Nat /\ c.buffer \in Seq(Nat)
        BY <2>1 DEF Chunks
      <4> QED BY <4>1 DEF L!End
    <3>2. /\ d \in Chunks /\ (~d.failed => L!End(c) < L!End(d))
          /\ (~c.failed => IsLoaded(d, source)) /\ (c.failed => d = c)
      BY <2>1, <2>3, <3>1, ChunkHolds DEF n
    <3> HIDE DEF d
    <3>3. IsLoaded(d, source)
      BY <2>1, <3>2
    <3>4. ~d.failed => i <= L!End(d)
      BY <1>1, <1>4, <2>1, <3>2
    <3> HIDE DEF c
    <3> QED BY <2>1, <2>2, <2>3, <3>2, <3>3, <3>4
  <2>4. CASE ~(L!End(c) < n)
    <3>1. q[i] = c /\ i <= L!End(c)
      BY <1>1, <2>1, <2>2, <2>4
    <3> QED BY <2>1, <3>1
  <2> QED BY <2>3, <2>4
<1>14. n \in T
  <2> HIDE DEF T
  <2>1. 0..n \subseteq T
    BY <1>1, <1>12, <1>13, SetInduction
  <2> QED BY <1>1, <2>1
<1>15. /\ q[n].failed => source.delivered < n
       /\ ~q[n].failed => n <= L!End(q[n]) /\ L!End(q[n]) <= source.delivered
       /\ L!End(q[n]) \in Nat
  BY <1>4, <1>14 DEF IsLoaded, n
<1> QED BY <1>1, <1>3, <1>15 DEF n

\* What has been played after each frame.
Plays(count, source, size) ==
  CHOOSE after : after = [k \in 0..count |->
    IF k = 0 THEN [chunk |-> L!EmptyChunk, frames |-> <<>>]
    ELSE LET chunk == L!LoadSourceChunk(after[k - 1].chunk, k - 1, source, size)
         IN IF chunk.failed THEN [after[k - 1] EXCEPT !.chunk = chunk]
            ELSE [chunk |-> chunk,
                  frames |-> Append(after[k - 1].frames, chunk.buffer[k - chunk.start])]]

Counted(n) == [k \in 1..n |-> k]

------------------------------
\* The frames up to one, with the next one after them.
LEMMA CountedGrows ==
  ASSUME NEW k \in Nat \ {0}
  PROVE  Append(Counted(k - 1), k) = Counted(k)
<1> DEFINE s == Counted(k - 1)
           t == Append(s, k)
<1>1. k - 1 \in Nat /\ k \in Nat /\ (k - 1) + 1 = k
  OBVIOUS
<1>2. DOMAIN s = 1..(k - 1) /\ \A j \in 1..(k - 1) : s[j] = j /\ s[j] \in Nat
  BY DEF Counted
<1>3. s \in Seq(Nat) /\ Len(s) = k - 1
  <2>1. s = [j \in 1..(k - 1) |-> s[j]]
    BY <1>2 DEF Counted
  <2> HIDE DEF s
  <2>2. IsSequence(s, k - 1, Nat)
    BY <1>1, <1>2, <2>1, SequenceOf
  <2> QED BY <2>2 DEF IsSequence
<1> HIDE DEF s
<1>4. /\ t \in Seq(Nat) /\ Len(t) = k /\ DOMAIN t = 1..k
      /\ \A j \in 1..k : t[j] = IF j <= k - 1 THEN s[j] ELSE k
  BY <1>1, <1>3
<1>5. \A j \in 1..k : t[j] = j
  BY <1>1, <1>2, <1>4
<1> HIDE DEF t
<1>6. t = [j \in 1..k |-> t[j]]
  BY <1>4
<1>7. t = [j \in 1..k |-> j]
  BY <1>5, <1>6
<1> QED BY <1>7 DEF Counted, s, t

\* The device begins with a chunk that holds nothing.
LEMMA NothingIsLoaded ==
  ASSUME NEW source \in Sources
  PROVE  /\ L!EmptyChunk \in Chunks /\ IsLoaded(L!EmptyChunk, source)
         /\ L!EmptyChunk.start = 0 /\ L!End(L!EmptyChunk) = 0
         /\ L!EmptyChunk.failed = FALSE
<1>1. source.declared \in Nat /\ source.delivered \in Nat
  BY DEF Sources
<1>2. << >> \in Seq(Nat) /\ Len(<< >>) = 0
  OBVIOUS
<1>3. L!EmptyChunk \in Chunks
  BY <1>2 DEF L!EmptyChunk, Chunks
<1>4. /\ L!EmptyChunk.start = 0 /\ L!EmptyChunk.buffer = << >>
      /\ L!EmptyChunk.failed = FALSE
  BY DEF L!EmptyChunk
<1>5. L!End(L!EmptyChunk) = 0
  BY <1>2, <1>4 DEF L!End
<1>6. DOMAIN L!EmptyChunk.buffer = {}
  BY <1>4
<1> QED BY <1>1, <1>3, <1>4, <1>5, <1>6 DEF IsLoaded

\* Unless the source fails, its frames are played one after the other.
LEMMA PlayedInOrder ==
  ASSUME NEW source \in Sources, NEW size \in Nat \ {0}, NEW count \in Nat,
         count <= source.declared
  PROVE  LET played == L!Played(count, source, size)
         IN /\ played.chunk \in Chunks /\ IsLoaded(played.chunk, source)
            /\ ~played.chunk.failed => played.frames = Counted(count)
<1> DEFINE D == [chunk : Chunks, frames : Seq(Nat)]
           Loaded(k, c) == L!LoadSourceChunk(c.chunk, k - 1, source, size)
           More(k, c) == IF Loaded(k, c).failed THEN [c EXCEPT !.chunk = Loaded(k, c)]
                         ELSE [chunk |-> Loaded(k, c),
                               frames |-> Append(c.frames,
                                            Loaded(k, c).buffer[k - Loaded(k, c).start])]
           base == [chunk |-> L!EmptyChunk, frames |-> <<>>]
           Step == [p \in (1..count) \X D |-> More(p[1], p[2])]
           Is(g) == g = [k \in 0..count |-> IF k = 0 THEN base ELSE More(k, g[k - 1])]
           q == Plays(count, source, size)
<1>1. source.declared \in Nat /\ source.delivered \in Nat
  BY DEF Sources
<1>2. q = CHOOSE h : Is(h)
  BY DEF Plays
<1>3. L!Played(count, source, size) = q[count]
  BY DEF L!Played, Plays
<1>4. base \in D /\ base.chunk = L!EmptyChunk /\ base.frames = << >>
  <2>0. << >> \in Seq(Nat)
    OBVIOUS
  <2>1. L!EmptyChunk \in Chunks
    BY NothingIsLoaded
  <2> DEFINE none == L!EmptyChunk
  <2> HIDE DEF none
  <2>2. base = [chunk |-> none, frames |-> << >>]
    BY DEF none
  <2> HIDE DEF base
  <2>3. base.chunk = none /\ base.frames = << >> /\ base \in D
    BY <2>0, <2>1, <2>2 DEF none
  <2> QED BY <2>3 DEF none
<1>5. ASSUME NEW k \in 1..count, NEW c \in D
      PROVE  LET next == Loaded(k, c)
             IN /\ next \in Chunks
                /\ ~next.failed => next.buffer[k - next.start] \in Nat
                /\ ~next.failed => next.start <= k /\ k <= L!End(next)
                                     /\ k - next.start \in DOMAIN next.buffer
                /\ ~c.chunk.failed /\ c.chunk.start <= k - 1 /\ k - 1 <= L!End(c.chunk)
                     /\ IsLoaded(c.chunk, source) => IsLoaded(next, source)
                /\ c.chunk.failed => next = c.chunk
  <2> DEFINE next == Loaded(k, c)
             from == next.start
             buffer == next.buffer
  <2>0. SUFFICES
          /\ next \in Chunks
          /\ ~next.failed => buffer[k - from] \in Nat
          /\ ~next.failed => from <= k /\ k <= L!End(next) /\ k - from \in DOMAIN buffer
          /\ ~c.chunk.failed /\ c.chunk.start <= k - 1 /\ k - 1 <= L!End(c.chunk)
               /\ IsLoaded(c.chunk, source) => IsLoaded(next, source)
          /\ c.chunk.failed => next = c.chunk
    OBVIOUS
  <2>1. c.chunk \in Chunks /\ k - 1 \in Nat /\ k - 1 < source.declared /\ k \in Nat
    BY <1>1
  <2>2. /\ next \in Chunks
        /\ ~next.failed => next.start <= k - 1 /\ k - 1 < L!End(next)
        /\ ~c.chunk.failed /\ c.chunk.start <= k - 1 /\ k - 1 <= L!End(c.chunk)
             /\ IsLoaded(c.chunk, source) => IsLoaded(next, source)
        /\ c.chunk.failed => next = c.chunk
    BY <2>1, ChunkHolds
  <2> HIDE DEF next
  <2>3. from \in Nat /\ buffer \in Seq(Nat) /\ L!End(next) = from + Len(buffer)
    BY <2>2 DEF Chunks, L!End
  <2>4. Len(buffer) \in Nat /\ DOMAIN buffer = 1..Len(buffer)
        /\ \A j \in DOMAIN buffer : buffer[j] \in Nat
    BY <2>3
  <2> HIDE DEF buffer
  <2>5. ~next.failed => from <= k - 1 /\ k - 1 < from + Len(buffer)
    BY <2>2, <2>3
  <2> HIDE DEF from
  <2>6. ASSUME ~next.failed
        PROVE  from <= k /\ k <= L!End(next) /\ k - from \in DOMAIN buffer
    BY <2>1, <2>3, <2>4, <2>5, <2>6
  <2> QED BY <2>2, <2>4, <2>6
<1>6. ASSUME NEW k \in 1..count, NEW c \in D PROVE More(k, c) \in D
  <2> DEFINE next == Loaded(k, c)
  <2>1. next \in Chunks /\ (~next.failed => next.buffer[k - next.start] \in Nat)
    BY <1>5
  <2>2. c.chunk \in Chunks /\ c.frames \in Seq(Nat)
        /\ c = [chunk |-> c.chunk, frames |-> c.frames]
    OBVIOUS
  <2>3. More(k, c) = IF next.failed THEN [c EXCEPT !.chunk = next]
                     ELSE [chunk |-> next,
                           frames |-> Append(c.frames, next.buffer[k - next.start])]
    OBVIOUS
  <2> HIDE DEF next, More
  <2>4. CASE next.failed
    BY <2>1, <2>2, <2>3, <2>4
  <2>5. CASE ~next.failed
    <3>1. Append(c.frames, next.buffer[k - next.start]) \in Seq(Nat)
      BY <2>1, <2>2, <2>5
    <3> QED BY <2>1, <2>3, <2>5, <3>1
  <2> QED BY <2>4, <2>5
<1> HIDE DEF base, q, More, D
<1>7. Step \in [(1..count) \X D -> D]
  BY <1>6
<1>8. PICK g : Iterated(g, count, D, base, Step)
  <2> HIDE DEF Step
  <2> QED BY <1>4, <1>7, Iterates
<1>9. ASSUME NEW k \in 1..count PROVE g[k] = More(k, g[k - 1])
  <2>1. g[k - 1] \in D
    BY <1>8 DEF Iterated
  <2>2. <<k, g[k - 1]>> \in (1..count) \X D
    BY <2>1
  <2>3. g[k] = Step[<<k, g[k - 1]>>]
    BY <1>8 DEF Iterated
  <2> QED BY <2>2, <2>3
<1>10. Is(g)
  <2>1. g = [k \in 0..count |-> g[k]] /\ g[0] = base
    BY <1>8 DEF Iterated
  <2>2. ASSUME NEW k \in 0..count
        PROVE  g[k] = IF k = 0 THEN base ELSE More(k, g[k - 1])
    <3>1. CASE k = 0
      BY <2>1, <3>1
    <3>2. CASE k # 0
      <4>1. k \in 1..count
        BY <3>2
      <4> QED BY <4>1, <1>9, <3>2
    <3> QED BY <3>1, <3>2
  <2> QED BY <2>1, <2>2
<1>11. Is(q)
  <2> HIDE DEF Is
  <2> QED BY <1>2, <1>10
<1>12. q[0] = base /\ \A k \in 1..count : q[k] = More(k, q[k - 1])
  <2>1. 0 \in 0..count
    OBVIOUS
  <2>2. ASSUME NEW k \in 1..count PROVE q[k] = More(k, q[k - 1])
    <3>1. k \in 0..count /\ k # 0
      OBVIOUS
    <3> QED BY <1>11, <3>1
  <2> QED BY <1>11, <2>1, <2>2
<1> DEFINE Good(k, c) == /\ c \in D /\ IsLoaded(c.chunk, source)
                         /\ ~c.chunk.failed => /\ c.chunk.start <= k
                                               /\ k <= L!End(c.chunk)
                                               /\ c.frames = Counted(k)
           T == {k \in 0..count : Good(k, q[k])}
<1>13. 0 \in T
  <2>1. Counted(0) = << >>
    BY DEF Counted
  <2>2. Good(0, base)
    <3>1. /\ IsLoaded(base.chunk, source) /\ base.chunk.start = 0
          /\ L!End(base.chunk) = 0
      BY <1>4, NothingIsLoaded
    <3> QED BY <1>4, <2>1, <3>1
  <2>3. 0 \in 0..count
    OBVIOUS
  <2> HIDE DEF Good
  <2> QED BY <1>12, <2>2, <2>3
<1>14. ASSUME NEW k \in 1..count, k - 1 \in T PROVE k \in T
  <2> DEFINE c == q[k - 1]
             next == Loaded(k, c)
  <2>1. Good(k - 1, c) /\ k \in 0..count /\ k \in Nat \ {0}
    BY <1>14
  <2>2. c \in D
    BY <2>1
  <2>3. /\ next \in Chunks
        /\ ~next.failed => next.start <= k /\ k <= L!End(next)
                             /\ k - next.start \in DOMAIN next.buffer
        /\ ~c.chunk.failed /\ c.chunk.start <= k - 1 /\ k - 1 <= L!End(c.chunk)
             /\ IsLoaded(c.chunk, source) => IsLoaded(next, source)
        /\ c.chunk.failed => next = c.chunk
    BY <1>5, <2>2
  <2>4. IsLoaded(next, source) /\ (~next.failed => ~c.chunk.failed)
    BY <2>1, <2>3
  <2>5. q[k] = IF next.failed THEN [c EXCEPT !.chunk = next]
               ELSE [chunk |-> next,
                     frames |-> Append(c.frames, next.buffer[k - next.start])]
    BY <1>12 DEF More
  <2>6. q[k] \in D
    BY <1>6, <1>12, <2>2
  <2> HIDE DEF next
  <2>7. q[k].chunk = next
    <3>1. c = [chunk |-> c.chunk, frames |-> c.frames]
      BY <2>2 DEF D
    <3> HIDE DEF c
    <3> QED BY <2>5, <3>1
  <2>8. ASSUME ~next.failed PROVE q[k].frames = Counted(k)
    <3>1. next.buffer[k - next.start] = next.start + (k - next.start)
      BY <2>3, <2>4, <2>8 DEF IsLoaded
    <3>2. next.start \in Nat
      BY <2>3 DEF Chunks
    <3>3. next.buffer[k - next.start] = k
      BY <3>1, <3>2
    <3>4. c.frames = Counted(k - 1)
      BY <2>1, <2>4, <2>8
    <3>5. q[k].frames = Append(c.frames, next.buffer[k - next.start])
      BY <2>5, <2>8
    <3>6. q[k].frames = Append(Counted(k - 1), k)
      BY <3>3, <3>4, <3>5
    <3> QED BY <2>1, <3>6, CountedGrows
  <2>9. Good(k, q[k])
    BY <2>3, <2>4, <2>6, <2>7, <2>8
  <2> HIDE DEF Good
  <2> QED BY <2>1, <2>9
<1>15. Good(count, q[count])
  <2> HIDE DEF T
  <2>1. 0..count \subseteq T
    BY <1>13, <1>14, SetInduction
  <2>2. count \in 0..count
    OBVIOUS
  <2> QED BY <2>1, <2>2 DEF T
<1>16. q[count].chunk \in Chunks
  BY <1>15 DEF D
<1> HIDE DEF T
<1> QED BY <1>3, <1>15, <1>16

------------------------------
(* The tape of the fake device, and the recording made of it.              *)

SourceOf(l) == [declared |-> l.sourceFrames, delivered |-> l.delivered]

TapeOf(l) == L!Capture(PlaybackPlan(l), PaddingFrames, l.latency, SourceOf(l), l.chunk)

\* How much of the source is on the tape.
HeardOn(l) == L!HeardFrames(PlaybackPlan(l), PaddingFrames, l.latency)

\* A playback needs no supported rate to be planned.
LEMMA PlanIsCounted ==
  ASSUME NEW l, l.sourceFrames \in Nat
  PROVE  /\ PaddingFrames \in Nat /\ PlaybackPlan(l).sourceStart \in Nat
         /\ PlaybackPlan(l).sourceFrames = l.sourceFrames
<1>1. Rate \in Nat
  BY InputsAssumption
<1>2. PaddingFrames \in Nat
  BY <1>1 DEF PaddingFrames
<1> DEFINE interval == A!AtLeast(1, A!Rounded(Rate, 100))
           gap == A!AtLeast(1, A!Rounded(Rate, 2000))
           markers == [k \in 1..5 |-> (k - 1) * interval]
           plan == PlaybackPlan(l)
<1>3. interval \in Nat /\ gap \in Nat
  BY <1>1 DEF A!AtLeast, A!Rounded
<1>4. plan = [markers |-> markers, sourceStart |-> markers[5] + gap,
              sourceFrames |-> l.sourceFrames]
  BY DEF PlaybackPlan, A!PlaybackPlan, A!MarkerCount
<1> HIDE DEF interval, gap
<1>5. markers[5] = 4 * interval
  BY <1>3
<1> HIDE DEF markers, plan
<1>6. plan.sourceStart = markers[5] + gap /\ plan.sourceFrames = l.sourceFrames
  BY <1>4
<1>7. plan.sourceStart \in Nat
  BY <1>3, <1>5, <1>6
<1> QED BY <1>2, <1>6, <1>7 DEF plan

\* A tape holds the frames of its source in order, all of them when the latency
\* is no longer than the padding; it fails exactly when the source ends early.
LEMMA TapeIsPlayed ==
  ASSUME NEW l \in Loopbacks
  PROVE  /\ TapeOf(l).failed <=> l.delivered < l.sourceFrames
         /\ HeardOn(l) \in 0..l.sourceFrames
         /\ l.latency <= PaddingFrames => HeardOn(l) = l.sourceFrames
         /\ ~TapeOf(l).failed => TapeOf(l).frames = Counted(HeardOn(l))
         /\ TapeOf(l).total = 2 * PaddingFrames + PlaybackPlan(l).sourceStart + l.sourceFrames
         /\ TapeOf(l).offset = PaddingFrames + l.latency + PlaybackPlan(l).sourceStart
         /\ TapeOf(l).markers =
              LET onsets == [k \in DOMAIN PlaybackPlan(l).markers |->
                               PaddingFrames + l.latency + PlaybackPlan(l).markers[k]]
              IN SubSeq(onsets, 1,
                   L!Cardinality({k \in DOMAIN onsets : onsets[k] < TapeOf(l).total}))
<1> DEFINE plan == PlaybackPlan(l)
           p == PaddingFrames
           source == SourceOf(l)
           count == HeardOn(l)
           played == L!Played(count, source, l.chunk)
           rest == L!Drain(played.chunk, source, l.chunk)
           onsets == [k \in DOMAIN plan.markers |-> p + l.latency + plan.markers[k]]
           total == 2 * p + plan.sourceStart + plan.sourceFrames
           tape == TapeOf(l)
<1>1. /\ l.sourceFrames \in Nat /\ l.delivered \in Nat /\ l.latency \in Nat
      /\ l.chunk \in Nat \ {0}
  BY InputsAssumption
<1>2. /\ p \in Nat /\ plan.sourceStart \in Nat /\ plan.sourceFrames = l.sourceFrames
  BY <1>1, PlanIsCounted
<1>3. source \in Sources /\ source.declared = l.sourceFrames
      /\ source.delivered = l.delivered
  BY <1>1 DEF SourceOf, Sources
<1>4. count \in 0..l.sourceFrames /\ (l.latency <= p => count = l.sourceFrames)
  <2> DEFINE room == 2 * p + plan.sourceStart + plan.sourceFrames
                       - (p + l.latency + plan.sourceStart)
  <2>1. count = IF room < 0 THEN 0
                ELSE IF room < plan.sourceFrames THEN room ELSE plan.sourceFrames
    BY DEF HeardOn, L!HeardFrames
  <2>2. room = p + l.sourceFrames - l.latency /\ room \in Int
    <3> HIDE DEF p, plan
    <3> QED BY <1>1, <1>2
  <2> HIDE DEF room, p, plan, count
  <2>3. count \in Nat /\ count <= l.sourceFrames
    BY <1>1, <1>2, <2>1, <2>2
  <2> QED BY <1>1, <1>2, <2>1, <2>2, <2>3
<1>5. tape = [failed |-> rest.failed, total |-> total,
              markers |-> SubSeq(onsets, 1,
                            L!Cardinality({k \in DOMAIN onsets : onsets[k] < total})),
              offset |-> p + l.latency + plan.sourceStart,
              frames |-> played.frames]
  BY DEF TapeOf, L!Capture, HeardOn
<1> HIDE DEF source, count, tape, onsets, total, rest
<1>6. /\ played.chunk \in Chunks /\ IsLoaded(played.chunk, source)
      /\ ~played.chunk.failed => played.frames = Counted(count)
  <2>1. count \in Nat /\ count <= source.declared
    BY <1>1, <1>3, <1>4
  <2> QED BY <1>1, <1>3, <2>1, PlayedInOrder
<1>7. rest.failed <=> source.delivered < source.declared
  BY <1>1, <1>3, <1>6, RestIsRead DEF rest
<1>8. played.chunk.failed => source.delivered < source.declared
  BY <1>6 DEF IsLoaded
<1> HIDE DEF played, plan, p
<1>9. /\ tape.failed = rest.failed /\ tape.total = total /\ tape.frames = played.frames
      /\ tape.offset = p + l.latency + plan.sourceStart
      /\ tape.markers = SubSeq(onsets, 1,
           L!Cardinality({k \in DOMAIN onsets : onsets[k] < tape.total}))
  BY <1>5
<1>10. total = 2 * p + plan.sourceStart + l.sourceFrames
  BY <1>2 DEF total
<1>11. tape.failed <=> l.delivered < l.sourceFrames
  BY <1>3, <1>7, <1>9
<1>12. ~tape.failed => tape.frames = Counted(count)
  BY <1>6, <1>7, <1>8, <1>9
<1> QED BY <1>4, <1>9, <1>10, <1>11, <1>12 DEF tape, plan, p, count, onsets

\* The markers on a tape stand where they are expected, later by the latency;
\* all five do when the latency is below their distance.
LEMMA MarkersOnTape ==
  ASSUME RateIsSupported, NEW l \in Loopbacks
  PROVE  LET marks == Reference(l).markers
             heard == TapeOf(l).markers
             n == Len(heard)
         IN /\ n \in 0..5 /\ DOMAIN heard = 1..n
            /\ \A k \in 1..n : heard[k] = marks[k] + l.latency
            /\ l.latency < MarkerInterval => n = 5
            /\ TapeOf(l).offset = Reference(l).sourceStart + l.latency
            /\ TapeOf(l).total = RequiredFrames(l)
<1> DEFINE plan == PlaybackPlan(l)
           p == PaddingFrames
           i == MarkerInterval
           marks == Reference(l).markers
           tape == TapeOf(l)
           onsets == [k \in DOMAIN plan.markers |-> p + l.latency + plan.markers[k]]
           early == {k \in DOMAIN onsets : onsets[k] < tape.total}
           n == Cardinality(early)
           start == Reference(l).sourceStart
<1>1. l.sourceFrames \in Nat /\ l.latency \in Nat
  BY InputsAssumption
<1>2. /\ Rate \in Nat /\ Rate >= 1000 /\ i \in Nat /\ p \in Nat /\ 10 * i <= Rate + 5
  BY RateFacts, SMT
<1>3. /\ marks \in Seq(Int) /\ Len(marks) = 5
      /\ \A j, k \in 1..5 : marks[k] - marks[j] = (k - j) * i
      /\ marks[1] = p /\ marks[5] = p + 4 * i
      /\ start = p + 4 * i + 2 * Rate /\ start = p + plan.sourceStart
  BY MarkersOf DEF IsSpaced
<1>4. plan.sourceStart \in Nat
  BY <1>1, PlanIsCounted
<1>5. /\ tape.total = 2 * p + plan.sourceStart + l.sourceFrames
      /\ tape.offset = p + l.latency + plan.sourceStart
      /\ tape.markers = SubSeq(onsets, 1, L!Cardinality(early))
  BY TapeIsPlayed
<1>6. /\ marks = [k \in DOMAIN plan.markers |-> plan.markers[k] + p]
      /\ DOMAIN plan.markers = 1..5
      /\ \A k \in 1..5 : plan.markers[k] \in Int
  <2>1. plan = [markers |-> plan.markers, sourceStart |-> plan.sourceStart,
                sourceFrames |-> plan.sourceFrames]
    BY DEF PlaybackPlan, A!PlaybackPlan
  <2>2. plan.markers = [k \in 1..5 |-> (k - 1) * i]
    <3>1. i = A!AtLeast(1, A!Rounded(Rate, 100))
      BY RateFacts
    <3> HIDE DEF i
    <3> QED BY <3>1 DEF PlaybackPlan, A!PlaybackPlan, A!MarkerCount
  <2> HIDE DEF plan, i
  <2>3. Reference(l) = [plan EXCEPT !.markers = [k \in DOMAIN @ |-> @[k] + PaddingFrames],
                                    !.sourceStart = @ + PaddingFrames]
    BY DEF Reference, plan
  <2>4. \A k \in 1..5 : plan.markers[k] \in Int
    BY <1>2, <2>2
  <2> QED BY <2>1, <2>2, <2>3, <2>4
<1>7. n = L!Cardinality(early)
  BY DEF L!Cardinality, Cardinality
<1>8. ASSUME NEW k \in 1..5
      PROVE  /\ marks[k] \in Int /\ marks[k] <= p + 4 * i
             /\ onsets[k] = marks[k] + l.latency
  <2> HIDE DEF marks, plan, p, i
  <2>1. marks[k] \in Int
    <3>1. \A m \in 1..Len(marks) : marks[m] \in Int
      BY <1>3, ElementsOf
    <3> QED BY <1>3, <3>1
  <2>2. marks[5] - marks[k] = (5 - k) * i
    <3> DEFINE m == 5
    <3>1. m \in 1..5
      OBVIOUS
    <3> HIDE DEF m
    <3>2. marks[m] - marks[k] = (m - k) * i
      BY <1>3, <3>1
    <3> QED BY <3>2 DEF m
  <2>3. (5 - k) * i >= 0
    <3>1. k = 1 \/ k = 2 \/ k = 3 \/ k = 4 \/ k = 5
      OBVIOUS
    <3> QED BY <1>2, <3>1
  <2>4. marks[k] <= p + 4 * i
    <3> DEFINE a == marks[k]
               b == marks[5]
               c == (5 - k) * i
               e == p + 4 * i
    <3>1. a \in Int /\ e \in Int /\ b = e /\ b - a = c /\ c >= 0
      BY <1>2, <1>3, <2>1, <2>2, <2>3
    <3> HIDE DEF a, b, c, e
    <3>2. a <= e
      BY <3>1
    <3> QED BY <3>2 DEF a, e
  <2>5. marks[k] = plan.markers[k] + p /\ plan.markers[k] \in Int
    BY <1>6
  <2>6. onsets[k] = p + l.latency + plan.markers[k]
    BY <1>6
  <2> DEFINE x == plan.markers[k]
  <2>7. p + l.latency + x = (x + p) + l.latency
    <3>1. x \in Int
      BY <2>5
    <3> HIDE DEF x
    <3> QED BY <1>1, <1>2, <3>1
  <2> QED BY <2>1, <2>4, <2>5, <2>6, <2>7
<1>9. DOMAIN onsets = 1..5 /\ onsets \in Seq(Int) /\ Len(onsets) = 5
  <2> DEFINE m == 5
  <2>1. DOMAIN onsets = 1..m /\ onsets = [k \in 1..m |-> onsets[k]] /\ m \in Nat
    BY <1>6
  <2>2. \A k \in 1..m : onsets[k] \in Int
    BY <1>1, <1>8
  <2> HIDE DEF m, onsets
  <2>3. IsSequence(onsets, m, Int)
    BY <2>1, <2>2, SequenceOf
  <2> QED BY <2>3 DEF IsSequence, m
<1> HIDE DEF onsets
<1>10. early \subseteq 1..5 /\ IsFiniteSet(1..5) /\ Cardinality(1..5) = 5
  <2>1. 1 \in Int /\ 5 \in Int
    OBVIOUS
  <2>2. IsFiniteSet(1..5) /\ Cardinality(1..5) = (IF 1 > 5 THEN 0 ELSE 5 - 1 + 1)
    BY <2>1, FS_Interval
  <2> QED BY <1>9, <2>2
<1>11. n \in 0..5
  <2>1. IsFiniteSet(early) /\ n <= 5
    BY <1>10, FS_Subset
  <2>2. n \in Nat
    BY <2>1, FS_CardinalityType
  <2> QED BY <2>1, <2>2
<1> HIDE DEF early, n, tape
<1>12. /\ Len(tape.markers) = n /\ DOMAIN tape.markers = 1..n
       /\ \A k \in 1..n : tape.markers[k] = onsets[k]
  <2> DEFINE z == 0
             part == SubSeq(onsets, z + 1, z + n)
  <2>1. z \in Nat /\ n \in Nat /\ z + n <= Len(onsets) /\ z + 1 = 1 /\ z + n = n
    BY <1>9, <1>11
  <2>2. tape.markers = part
    BY <1>5, <1>7, <2>1
  <2> HIDE DEF z
  <2>3. /\ Len(part) = n /\ DOMAIN part = 1..n
        /\ \A k \in 1..n : part[k] = onsets[z + k]
    BY <1>9, <2>1, PartOf
  <2> HIDE DEF part
  <2> QED BY <2>2, <2>3 DEF z
<1>13. ASSUME NEW k \in 1..n PROVE tape.markers[k] = marks[k] + l.latency
  <2>1. k \in 1..5
    BY <1>11
  <2> QED BY <1>8, <1>12, <2>1
<1>14. /\ tape.total = RequiredFrames(l) /\ tape.offset = start + l.latency
       /\ tape.total \in Nat /\ tape.total >= start
  <2>1. RequiredFrames(l) = p + plan.sourceStart + l.sourceFrames + p
    BY DEF RequiredFrames
  <2> DEFINE a == plan.sourceStart
             b == l.sourceFrames
             c == l.latency
  <2>2. /\ a \in Nat /\ b \in Nat /\ c \in Nat /\ p \in Nat /\ start = p + a
        /\ tape.total = 2 * p + a + b /\ tape.offset = p + c + a
        /\ RequiredFrames(l) = p + a + b + p
    BY <1>1, <1>2, <1>3, <1>4, <1>5, <2>1, SMT
  <2> HIDE DEF a, b, c, p, plan, start
  <2>3. /\ 2 * p + a + b = p + a + b + p /\ p + c + a = start + c
        /\ 2 * p + a + b \in Nat /\ 2 * p + a + b >= start
    BY <2>2
  <2> QED BY <2>2, <2>3 DEF c
<1>15. ASSUME l.latency < i PROVE n = 5
  <2>1. ASSUME NEW k \in 1..5 PROVE k \in early
    <3>1. marks[k] \in Int /\ marks[k] <= p + 4 * i /\ onsets[k] = marks[k] + l.latency
      BY <1>8
    <3> DEFINE a == marks[k]
               b == l.latency
    <3>2. start = p + 4 * i + 2 * Rate /\ a \in Int /\ a <= p + 4 * i /\ b \in Nat /\ b < i
      BY <1>1, <1>3, <1>15, <3>1
    <3> HIDE DEF a, b, i, p, start
    <3>3. a + b < start /\ start \in Nat
      BY <1>2, <3>2, SMT
    <3>4. a + l.latency < tape.total
      BY <1>14, <3>2, <3>3 DEF b
    <3> QED BY <1>9, <3>1, <3>4 DEF early, a
  <2>2. early = 1..5
    BY <1>10, <2>1
  <2> QED BY <1>10, <2>2 DEF n
<1> QED BY <1>11, <1>12, <1>13, <1>14, <1>15 DEF tape, marks, i, start

RecordingOf(l) == Recorded(l, TapeOf(l))

\* What a recording keeps of its tape.
LEMMA RecordingKeeps ==
  ASSUME NEW l \in Loopbacks
  PROVE  LET r == RecordingOf(l)
             tape == TapeOf(l)
         IN /\ r.declared = tape.total /\ r.actual = tape.total /\ r.onDisk = TRUE
            /\ r.sourceFrames = l.sourceFrames /\ r.short = l.short
            /\ r.latency = l.latency /\ r.delivered = l.delivered
            /\ r.offset = tape.offset /\ r.frames = tape.frames
            /\ Reference(r) = Reference(l) /\ PlaybackPlan(r) = PlaybackPlan(l)
            /\ RequiredFrames(r) = RequiredFrames(l)
<1> DEFINE r == RecordingOf(l)
           tape == TapeOf(l)
<1>1. /\ r.declared = tape.total /\ r.actual = tape.total /\ r.onDisk = TRUE
      /\ r.sourceFrames = l.sourceFrames /\ r.short = l.short
      /\ r.latency = l.latency /\ r.delivered = l.delivered
      /\ r.offset = tape.offset /\ r.frames = tape.frames
  <2> HIDE DEF tape
  <2> QED BY DEF RecordingOf, Recorded, tape
<1> HIDE DEF r, tape
<1>2. PlaybackPlan(r) = PlaybackPlan(l)
  BY <1>1 DEF PlaybackPlan
<1>3. Reference(r) = Reference(l) /\ RequiredFrames(r) = RequiredFrames(l)
  BY <1>1, <1>2 DEF Reference, RequiredFrames
<1> QED BY <1>1, <1>2, <1>3 DEF r, tape

\* The first runs of r are n markers in their time; a last one is the source.
IsOnTape(r, n, peak) ==
  /\ n \in 0..5 /\ r.runs \in Seq([from : Nat, to : Nat, peak : Nat])
  /\ Len(r.runs) = n \/ Len(r.runs) = n + 1
  /\ \A k \in 1..n : /\ r.runs[k].from = Reference(r).markers[k] + r.latency
                     /\ r.runs[k].to = r.runs[k].from + 1
                     /\ r.runs[k].peak = peak
  /\ Len(r.runs) = n + 1 => /\ r.runs[n + 1].from = r.offset
                            /\ r.runs[n + 1].to > r.offset

\* Its runs are the markers that were heard and, when it is loud, the source.
LEMMA RecordingRuns ==
  ASSUME RateIsSupported, NEW l \in Loopbacks, ~TapeOf(l).failed
  PROVE  IsOnTape(RecordingOf(l), Len(TapeOf(l).markers), l.peak)
<1> DEFINE r == RecordingOf(l)
           tape == TapeOf(l)
           n == Len(tape.markers)
           marks == Reference(l).markers
           RunSet == [from : Nat, to : Nat, peak : Nat]
           At(from, frames) == [from |-> from, to |-> from + frames, peak |-> l.peak]
           heard == [k \in DOMAIN tape.markers |-> At(tape.markers[k], 1)]
           last == At(tape.offset, Len(tape.frames))
           loud == l.loud /\ tape.frames # <<>>
<1>1. /\ n \in 0..5 /\ DOMAIN tape.markers = 1..n
      /\ \A k \in 1..n : tape.markers[k] = marks[k] + l.latency
      /\ tape.offset = Reference(l).sourceStart + l.latency
  BY MarkersOnTape
<1>2. l.latency \in Nat /\ l.sourceFrames \in Nat /\ l.peak \in Nat
  BY InputsAssumption
<1>3. r.runs = IF loud THEN Append(heard, last) ELSE heard
  <2> HIDE DEF tape
  <2> QED BY DEF RecordingOf, Recorded, tape
<1>4. r.latency = l.latency /\ r.offset = tape.offset /\ Reference(r) = Reference(l)
  BY RecordingKeeps
<1> HIDE DEF r, tape, n
<1>5. ASSUME NEW k \in 1..5 PROVE marks[k] \in Nat
  <2>1. /\ marks \in Seq(Int) /\ Len(marks) = 5 /\ marks[1] = PaddingFrames
        /\ PaddingFrames \in Nat /\ MarkerInterval \in Nat
        /\ \A j, m \in 1..5 : marks[m] - marks[j] = (m - j) * MarkerInterval
    BY RateFacts, MarkersOf DEF IsSpaced
  <2> HIDE DEF marks
  <2>2. \A m \in 1..Len(marks) : marks[m] \in Int
    BY <2>1, ElementsOf
  <2>3. marks[k] \in Int
    BY <2>1, <2>2
  <2>4. marks[k] - marks[1] = (k - 1) * MarkerInterval
    <3> DEFINE j == 1
    <3>1. j \in 1..5
      OBVIOUS
    <3> HIDE DEF j
    <3>2. marks[k] - marks[j] = (k - j) * MarkerInterval
      BY <2>1, <3>1
    <3> QED BY <3>2 DEF j
  <2>5. (k - 1) * MarkerInterval >= 0 /\ (k - 1) * MarkerInterval \in Int
    <3>1. k = 1 \/ k = 2 \/ k = 3 \/ k = 4 \/ k = 5
      OBVIOUS
    <3> QED BY <2>1, <3>1
  <2> DEFINE a == marks[k]
             b == marks[1]
             c == (k - 1) * MarkerInterval
  <2>6. a \in Int /\ b \in Nat /\ a - b = c /\ c >= 0 /\ c \in Int
    BY <2>1, <2>3, <2>4, <2>5
  <2> HIDE DEF a, b, c
  <2>7. a \in Nat
    BY <2>6
  <2> QED BY <2>7 DEF a
<1>6. ASSUME NEW k \in 1..n
      PROVE  /\ heard[k] = At(marks[k] + l.latency, 1)
             /\ heard[k] \in RunSet
             /\ heard[k].from = marks[k] + l.latency /\ heard[k].to = heard[k].from + 1
             /\ heard[k].peak = l.peak
  <2>1. marks[k] \in Nat
    BY <1>1, <1>5
  <2>2. heard[k] = At(marks[k] + l.latency, 1)
    BY <1>1
  <2> DEFINE x == marks[k] + l.latency
  <2>3. x \in Nat /\ x + 1 \in Nat
    BY <1>2, <2>1
  <2> HIDE DEF x
  <2>4. /\ At(x, 1) \in RunSet /\ At(x, 1).from = x /\ At(x, 1).to = x + 1
        /\ At(x, 1).peak = l.peak
    BY <1>2, <2>3
  <2> HIDE DEF At, heard
  <2> QED BY <2>2, <2>4 DEF x
<1>7. heard \in Seq(RunSet) /\ Len(heard) = n /\ DOMAIN heard = 1..n
  <2>1. DOMAIN heard = 1..n /\ heard = [k \in 1..n |-> heard[k]] /\ n \in Nat
    BY <1>1
  <2>2. \A k \in 1..n : heard[k] \in RunSet
    BY <1>6
  <2> HIDE DEF heard, RunSet
  <2>3. IsSequence(heard, n, RunSet)
    BY <2>1, <2>2, SequenceOf
  <2> QED BY <2>3 DEF IsSequence
<1>8. CASE ~loud
  <2> HIDE DEF heard, RunSet
  <2>1. r.runs = heard
    BY <1>3, <1>8
  <2>2. Len(r.runs) = n /\ r.runs \in Seq(RunSet) /\ Len(r.runs) # n + 1
    BY <1>1, <1>7, <2>1
  <2>3. \A k \in 1..n : r.runs[k] = heard[k]
    BY <2>1
  <2> HIDE DEF loud
  <2> QED BY <1>1, <1>4, <1>6, <2>2, <2>3 DEF r, n, tape, RunSet, IsOnTape
<1>9. CASE loud
  <2> DEFINE all == Append(heard, last)
             count == HeardOn(l)
  <2>1. r.runs = all
    BY <1>3, <1>9
  <2>2. tape.frames = Counted(count) /\ count \in 0..l.sourceFrames
    BY TapeIsPlayed DEF tape
  <2>3. Len(tape.frames) = count /\ count \in Nat \ {0}
    <3>1. count \in Nat
      BY <1>2, <2>2
    <3> HIDE DEF count
    <3>2. Len(Counted(count)) = count
      BY <3>1 DEF Counted
    <3>3. count # 0
      <4>1. Counted(0) = << >>
        BY DEF Counted
      <4> QED BY <1>9, <2>2, <4>1
    <3> QED BY <2>2, <3>1, <3>2, <3>3
  <2>4. tape.offset \in Nat
    <3>1. Reference(l).sourceStart \in Nat
      <4>1. /\ Reference(l).sourceStart = PaddingFrames + PlaybackPlan(l).sourceStart
            /\ PaddingFrames \in Nat /\ PlaybackPlan(l).sourceStart \in Nat
        BY <1>2, MarkersOf, PlanIsCounted
      <4> QED BY <4>1
    <3> QED BY <1>1, <1>2, <3>1
  <2>5. last.from = tape.offset /\ last.to = tape.offset + count /\ last.peak = l.peak
    BY <2>3
  <2>6. last \in RunSet /\ last.to > tape.offset
    <3> DEFINE x == tape.offset
               y == tape.offset + count
    <3>1. x \in Nat /\ y \in Nat /\ y > x
      BY <2>3, <2>4
    <3>2. last = [from |-> x, to |-> y, peak |-> l.peak]
      BY <2>3
    <3> HIDE DEF x, y, last
    <3>3. last \in RunSet
      BY <1>2, <3>1, <3>2
    <3> QED BY <2>5, <3>1, <3>3 DEF x, y
  <2> HIDE DEF heard, last, RunSet
  <2>7. /\ all \in Seq(RunSet) /\ Len(all) = n + 1
        /\ all[n + 1] = last /\ \A k \in 1..n : all[k] = heard[k]
    BY <1>7, <2>6, OneMore
  <2> HIDE DEF all, count
  <2>8. r.runs[n + 1].from = r.offset /\ r.runs[n + 1].to > r.offset
    BY <1>4, <2>1, <2>5, <2>6, <2>7
  <2>9. \A k \in 1..n : r.runs[k] = heard[k]
    BY <2>1, <2>7
  <2>10. r.runs \in Seq(RunSet) /\ Len(r.runs) = n + 1
    BY <2>1, <2>7
  <2> HIDE DEF loud
  <2> QED BY <1>1, <1>4, <1>6, <2>8, <2>9, <2>10 DEF r, n, tape, RunSet, IsOnTape
<1> QED BY <1>8, <1>9

\* Where the markers and the source of a recording stand, for its proofs.
LEMMA MarksAreSpaced ==
  ASSUME RateIsSupported, NEW r
  PROVE  LET marks == Reference(r).markers
             start == Reference(r).sourceStart
         IN /\ start \in Nat
            /\ \A k \in 1..5 : /\ marks[k] \in Int /\ marks[k] + 1 < start
                              /\ marks[k] + MarkerInterval < start
            /\ \A k \in 1..5 : k > 1 => marks[k - 1] + 1 < marks[k]
<1> DEFINE marks == Reference(r).markers
           start == Reference(r).sourceStart
           i == MarkerInterval
           p == PaddingFrames
<1>1. /\ Rate \in Nat /\ Rate >= 1000 /\ i \in Nat /\ i >= 100 /\ p \in Nat
      /\ 10 * i <= Rate + 5
  BY RateFacts, SMT
<1>2. /\ marks \in Seq(Int) /\ Len(marks) = 5
      /\ \A j, k \in 1..5 : marks[k] - marks[j] = (k - j) * i
      /\ marks[5] = p + 4 * i /\ start = p + 4 * i + 2 * Rate
  BY MarkersOf DEF IsSpaced
<1> HIDE DEF marks, start, i, p
<1>3. ASSUME NEW k \in 1..5 PROVE marks[k] \in Int
  <2>1. \A m \in 1..Len(marks) : marks[m] \in Int
    BY <1>2, ElementsOf
  <2> QED BY <1>2, <2>1
<1>4. start \in Nat /\ p + 4 * i + i < start
  BY <1>1, <1>2, SMT
<1>5. ASSUME NEW k \in 1..5 PROVE marks[k] + 1 < start /\ marks[k] + i < start
  <2> DEFINE m == 5
             a == marks[k]
             b == marks[m]
             c == (m - k) * i
  <2>1. m \in 1..5
    OBVIOUS
  <2>2. c >= 0 /\ c \in Int
    <3>1. k = 1 \/ k = 2 \/ k = 3 \/ k = 4 \/ k = 5
      OBVIOUS
    <3> QED BY <1>1, <3>1
  <2>3. a \in Int /\ b \in Int /\ b = p + 4 * i
    BY <1>2, <1>3, <2>1
  <2> HIDE DEF m
  <2>4. b - a = c
    BY <1>2, <2>1
  <2> HIDE DEF a, b, c
  <2>5. a <= b
    BY <2>2, <2>3, <2>4
  <2>6. a + 1 < start /\ a + i < start
    <3> DEFINE e == p + 4 * i
    <3>0. i \in Nat /\ i >= 100
      BY <1>1, SMT
    <3>1. e \in Int /\ e + i < start /\ b = e
      BY <1>1, <1>4, <2>3, SMT
    <3> HIDE DEF e
    <3> QED BY <1>4, <2>3, <2>5, <3>0, <3>1
  <2> QED BY <2>6 DEF a
<1>6. ASSUME NEW k \in 1..5, k > 1 PROVE marks[k - 1] + 1 < marks[k]
  <2>1. k - 1 \in 1..5 /\ k \in 1..5
    BY <1>6
  <2>2. marks[k] - marks[k - 1] = (k - (k - 1)) * i
    BY <1>2, <2>1
  <2>3. (k - (k - 1)) * i = i
    <3>1. k - (k - 1) = 1
      OBVIOUS
    <3>2. 1 * i = i
      BY <1>1, SMT
    <3> HIDE DEF i
    <3> QED BY <3>1, <3>2
  <2> DEFINE a == marks[k]
             b == marks[k - 1]
  <2>4. a \in Int /\ b \in Int /\ a - b = i
    BY <1>3, <2>1, <2>2, <2>3
  <2> HIDE DEF a, b
  <2>5. b + 1 < a
    BY <1>1, <2>4, SMT
  <2> QED BY <2>5 DEF a, b
<1> QED BY <1>3, <1>4, <1>5, <1>6 DEF marks, start, i

\* What the fake device records is a recording of at most six runs.
LEMMA RecordingIsOne ==
  ASSUME RateIsSupported, NEW l \in Loopbacks, ~TapeOf(l).failed
  PROVE  IsRecording(RecordingOf(l)) /\ Len(RecordingOf(l).runs) <= 6
<1> DEFINE r == RecordingOf(l)
           n == Len(TapeOf(l).markers)
           marks == Reference(r).markers
           start == Reference(r).sourceStart
           RunSet == [from : Nat, to : Nat, peak : Nat]
<1>1. /\ n \in 0..5 /\ r.runs \in Seq(RunSet)
      /\ Len(r.runs) = n \/ Len(r.runs) = n + 1
      /\ \A k \in 1..n : /\ r.runs[k].from = marks[k] + r.latency
                         /\ r.runs[k].to = r.runs[k].from + 1
      /\ Len(r.runs) = n + 1 => /\ r.runs[n + 1].from = r.offset
                                /\ r.runs[n + 1].to > r.offset
  <2>1. IsOnTape(r, n, l.peak)
    BY RecordingRuns
  <2> HIDE DEF r, n
  <2> QED BY <2>1 DEF IsOnTape
<1>2. /\ r.latency \in Nat /\ r.sourceFrames \in Nat
      /\ r.offset = start + r.latency /\ r.declared = RequiredFrames(r)
  <2>1. l.latency \in Nat /\ l.sourceFrames \in Nat
    BY InputsAssumption
  <2>2. r.latency = l.latency /\ r.sourceFrames = l.sourceFrames
    BY RecordingKeeps
  <2>3. /\ r.offset = TapeOf(l).offset /\ r.declared = TapeOf(l).total
        /\ Reference(r) = Reference(l) /\ RequiredFrames(r) = RequiredFrames(l)
    BY RecordingKeeps
  <2>4. /\ TapeOf(l).offset = Reference(l).sourceStart + l.latency
        /\ TapeOf(l).total = RequiredFrames(l)
    BY MarkersOnTape
  <2> HIDE DEF r
  <2> QED BY <2>1, <2>2, <2>3, <2>4
<1>3. /\ start \in Nat
      /\ \A k \in 1..5 : marks[k] \in Int /\ marks[k] + 1 < start
      /\ \A k \in 1..5 : k > 1 => marks[k - 1] + 1 < marks[k]
  BY MarksAreSpaced
<1>4. r.declared \in Nat
  <2>1. /\ RequiredFrames(r) = PaddingFrames + PlaybackPlan(r).sourceStart
                                 + r.sourceFrames + PaddingFrames
        /\ PaddingFrames \in Nat /\ PlaybackPlan(r).sourceStart \in Nat
    BY <1>2, PlanIsCounted DEF RequiredFrames
  <2> HIDE DEF r
  <2> QED BY <1>2, <2>1
<1> HIDE DEF r, n, marks, start, RunSet
<1>5. DOMAIN r.runs = 1..Len(r.runs) /\ Len(r.runs) <= 6
  <2>1. DOMAIN r.runs = 1..Len(r.runs)
    BY <1>1, ElementsOf
  <2> QED BY <1>1, <2>1
<1>6. ASSUME NEW k \in DOMAIN r.runs, k <= n
      PROVE  /\ r.runs[k].from < r.runs[k].to
             /\ k > 1 => r.runs[k - 1].to < r.runs[k].from
  <2>1. k \in 1..n /\ k \in 1..5
    BY <1>1, <1>5, <1>6
  <2> DEFINE a == marks[k]
             x == r.runs[k].from
             y == r.runs[k].to
  <2>2. a \in Int /\ x = a + r.latency /\ y = x + 1
    BY <1>1, <1>3, <2>1
  <2> HIDE DEF a, x, y
  <2>3. x < y
    BY <1>2, <2>2
  <2>4. ASSUME k > 1 PROVE r.runs[k - 1].to < x
    <3>0. n \in Nat
      BY <1>1
    <3>1. k - 1 \in 1..n /\ k - 1 \in 1..5
      BY <2>1, <2>4, <3>0
    <3> DEFINE b == marks[k - 1]
               z == r.runs[k - 1].to
    <3>2. b \in Int /\ z = (b + r.latency) + 1 /\ b + 1 < a
      BY <1>1, <1>3, <2>1, <2>4, <3>1 DEF a
    <3> HIDE DEF b, z
    <3>3. z < x
      BY <1>2, <2>2, <3>2
    <3> QED BY <3>3 DEF z
  <2> QED BY <2>3, <2>4 DEF x, y
<1>7. ASSUME NEW k \in DOMAIN r.runs, ~(k <= n)
      PROVE  /\ r.runs[k].from < r.runs[k].to
             /\ k > 1 => r.runs[k - 1].to < r.runs[k].from
  <2>1. k = n + 1 /\ Len(r.runs) = n + 1
    BY <1>1, <1>5, <1>7
  <2>2. r.runs[k].from = r.offset /\ r.runs[k].to > r.offset
    BY <1>1, <2>1
  <2>3. ASSUME k > 1 PROVE r.runs[k - 1].to < r.runs[k].from
    <3>1. n \in 1..n /\ n \in 1..5 /\ k - 1 = n
      BY <1>1, <2>1, <2>3
    <3> DEFINE b == marks[n]
               z == r.runs[n].to
    <3>2. b \in Int /\ z = (b + r.latency) + 1 /\ b + 1 < start
      BY <1>1, <1>3, <3>1
    <3> HIDE DEF b, z
    <3>3. z < r.offset
      BY <1>2, <1>3, <3>2
    <3> QED BY <2>2, <3>1, <3>3 DEF z
  <2>4. r.runs[k].from \in Int /\ r.runs[k].to \in Int
    <3>1. r.runs[k] \in RunSet
      BY <1>1, <1>5, ElementsOf
    <3> QED BY <3>1 DEF RunSet
  <2> QED BY <2>2, <2>3, <2>4
<1>8. r.declared >= RequiredFrames(r)
  BY <1>2, <1>4
<1>9. IsRecording(r)
  BY <1>1, <1>2, <1>4, <1>6, <1>7, <1>8 DEF IsRecording, RunSet
<1> QED BY <1>5, <1>9 DEF r

\* When its markers can be heard the search finds the latency.
LEMMA RecordingIsAligned ==
  ASSUME RateIsSupported, NEW l \in Loopbacks, ~TapeOf(l).failed,
         l.latency < MarkerInterval,
         \A j \in DOMAIN RecordingOf(l).runs : RecordingOf(l).runs[j].peak > 5
  PROVE  /\ A!HasEvidence(ChosenOf(RecordingOf(l)), A!MarkerCount)
         /\ ChosenOf(RecordingOf(l)).median = l.latency
<1> DEFINE r == RecordingOf(l)
           n == Len(TapeOf(l).markers)
           marks == Reference(r).markers
           start == Reference(r).sourceStart
           i == MarkerInterval
           near == {0}
<1>1. /\ r.runs \in Seq([from : Nat, to : Nat, peak : Nat]) /\ n \in 0..5
      /\ Len(r.runs) = n \/ Len(r.runs) = n + 1
      /\ \A k \in 1..n : /\ r.runs[k].from = marks[k] + r.latency
                         /\ r.runs[k].peak = l.peak
      /\ Len(r.runs) = n + 1 => r.runs[n + 1].from = r.offset
  <2>1. IsOnTape(r, n, l.peak)
    BY RecordingRuns
  <2> HIDE DEF r, n
  <2> QED BY <2>1 DEF IsOnTape
<1>2. n = 5
  BY MarkersOnTape
<1>3. /\ r.latency = l.latency /\ l.latency \in Nat /\ l.peak \in Nat
      /\ r.offset = start + r.latency
  BY InputsAssumption, RecordingKeeps, MarkersOnTape
<1>4. /\ start \in Nat
      /\ \A k \in 1..5 : marks[k] \in Int /\ marks[k] + i < start
  BY MarksAreSpaced
<1>5. IsRecording(r) /\ Len(r.runs) <= 6
  BY RecordingIsOne
<1>6. /\ \A j \in DOMAIN r.runs : r.runs[j].peak > 5
      /\ l.latency < i /\ i \in Nat
  BY RateFacts
<1> HIDE DEF r, n, marks, start, i
<1>7. DOMAIN r.runs = 1..Len(r.runs) /\ \A k \in 1..5 : k \in DOMAIN r.runs
  <2>1. DOMAIN r.runs = 1..Len(r.runs)
    BY <1>1, ElementsOf
  <2> DEFINE m == Len(r.runs)
  <2>2. m = 5 \/ m = 6
    BY <1>1, <1>2
  <2> HIDE DEF m
  <2>3. ASSUME NEW k \in 1..5 PROVE k \in 1..m
    <3>1. CASE m = 5
      BY <3>1
    <3>2. CASE m = 6
      BY <3>2
    <3> QED BY <2>2, <3>1, <3>2
  <2> QED BY <2>1, <2>3 DEF m
<1>8. l.peak > 5
  <2> DEFINE k == 1
  <2>1. k \in 1..5
    OBVIOUS
  <2> HIDE DEF k
  <2> QED BY <1>1, <1>2, <1>6, <1>7, <2>1
<1> DEFINE Onset(k) == r.runs[k]
<1>9. ASSUME NEW k \in 1..5
      PROVE  Onset(k).peak = l.peak /\ Delay(r, Onset(k), k) = 0
  <2> DEFINE a == marks[k]
  <2>1. a \in Int /\ Onset(k).from = a + r.latency /\ Onset(k).peak = l.peak
    BY <1>1, <1>2, <1>4
  <2>2. Delay(r, Onset(k), k) = Onset(k).from - a - r.latency
    BY DEF Delay, marks
  <2> HIDE DEF a, Onset
  <2> DEFINE x == Onset(k).from
  <2>3. x = a + r.latency /\ Delay(r, Onset(k), k) = x - a - r.latency
    BY <2>1, <2>2
  <2> HIDE DEF x
  <2>4. x - a - r.latency = 0
    BY <1>3, <2>1, <2>3
  <2> QED BY <2>1, <2>3, <2>4
<1>10. ASSUME NEW y \in Early(r) PROVE \E k \in 1..5 : y = Onset(k)
  <2>1. PICK k \in DOMAIN r.runs : y = Onset(k) /\ r.runs[k].from < start
    BY DEF Early, start
  <2>2. k # n + 1
    <3>1. ~(r.offset < start)
      BY <1>3, <1>4
    <3>2. k = n + 1 => Len(r.runs) = n + 1
      BY <1>1, <1>7
    <3>3. k = n + 1 => r.runs[k].from = r.offset
      BY <1>1, <3>2
    <3> QED BY <2>1, <3>1, <3>3
  <2>3. k \in 1..5
    <3>1. Len(r.runs) = 5 \/ Len(r.runs) = 6
      BY <1>1, <1>2
    <3> DEFINE m == Len(r.runs)
    <3>2. k \in 1..m /\ k # 6
      BY <1>2, <1>7, <2>2
    <3> HIDE DEF m
    <3> QED BY <3>1, <3>2 DEF m
  <2> QED BY <2>1, <2>3
<1>11. ASSUME NEW k \in 1..5 PROVE Onset(k) \in Dominant(r)
  <2>1. Onset(k).from < start
    <3> DEFINE a == marks[k]
               x == Onset(k).from
    <3>1. a \in Int /\ a + i < start /\ x = a + r.latency /\ r.latency < i /\ r.latency \in Nat
      BY <1>1, <1>2, <1>3, <1>4, <1>6
    <3> HIDE DEF a, x
    <3>2. x < start
      BY <1>4, <1>6, <3>1
    <3> QED BY <3>2 DEF x
  <2>2. Onset(k) \in Early(r)
    BY <1>7, <2>1 DEF Early, start
  <2>3. ASSUME NEW y \in Early(r) PROVE 2 * Onset(k).peak > y.peak
    <3>1. y.peak = l.peak /\ Onset(k).peak = l.peak
      BY <1>9, <1>10
    <3> HIDE DEF Onset
    <3> QED BY <1>3, <1>8, <3>1
  <2>4. Onset(k).peak > 5
    BY <1>8, <1>9
  <2> HIDE DEF Onset
  <2> QED BY <2>2, <2>3, <2>4 DEF Dominant
<1> HIDE DEF Onset
<1>12. TrainMarkers(r, near) = Markers
  <2>1. ASSUME NEW m \in Markers PROVE m \in TrainMarkers(r, near)
    <3>1. m \in 1..5
      BY DEF Markers, A!MarkerCount
    <3> QED BY <1>9, <1>11, <3>1 DEF TrainMarkers
  <2> QED BY <2>1 DEF TrainMarkers
<1>13. ArrivesAt(r, near, near)
  <2>1. ASSUME NEW y \in Early(r)
        PROVE  \E m \in Markers : Delay(r, y, m) \in near /\ Delay(r, y, m) + r.latency < i
    <3>1. PICK k \in 1..5 : y = Onset(k)
      BY <1>10
    <3>2. Delay(r, y, k) = 0 /\ k \in Markers
      BY <1>9, <3>1 DEF Markers, A!MarkerCount
    <3>3. 0 + r.latency < i
      BY <1>3, <1>6
    <3> QED BY <3>2, <3>3
  <2> HIDE DEF near
  <2> QED BY <2>1 DEF ArrivesAt, i
<1> DEFINE tolerance == A!ToleranceFrames(Rate)
           d == 0
           chosen == ChosenOf(r)
<1>14. tolerance \in Nat
  BY RateFacts
<1> HIDE DEF tolerance
<1>15. /\ Len(r.runs) <= A!MaximumCandidates /\ d \in 0..tolerance
       /\ near \in SUBSET (0..tolerance) /\ near = {d}
  <2>1. 6 <= 512
    OBVIOUS
  <2>2. Len(r.runs) \in Nat
    BY <1>1, ElementsOf
  <2>3. Len(r.runs) <= A!MaximumCandidates
    BY <1>5, <2>1, <2>2 DEF A!MaximumCandidates
  <2> QED BY <1>14, <2>3
<1>16. /\ A!HasEvidence(chosen, A!MarkerCount) /\ chosen.median \in Int
       /\ chosen.median - r.latency \in near
  <2>1. TrainMarkers(r, {d}) = Markers /\ ArrivesAt(r, {d}, near)
    BY <1>12, <1>13, <1>15
  <2> HIDE DEF near, chosen, d
  <2> QED BY <1>5, <1>15, <2>1, ExactIsChosen DEF chosen, tolerance
<1> DEFINE y == chosen.median
<1>17. y \in Int /\ y - r.latency = 0
  BY <1>16
<1> HIDE DEF y
<1>18. y = l.latency
  BY <1>3, <1>17
<1> QED BY <1>16, <1>18 DEF y, r

------------------------------
(* A capture as a worker runs it.                                          *)

\* A loopback waits for its recording or has failed for want of frames; a
\* capture is of a given recording or of one the fake device made.
JobsInv ==
  /\ job.kind = "loopback" => /\ stage \in {"begin", "source_stream_failure"}
                              /\ stage # "begin" => TapeOf(job.input).failed
  /\ job.kind = "capture" =>
       \/ job.input \in Recordings
       \/ \E l \in Loopbacks : ~TapeOf(l).failed /\ job.input = RecordingOf(l)

\* What is known at every stage of a capture of how far the alignment is.
TrainInv ==
  job.kind = "capture" =>
    LET r == job.input
        hasEvidence == A!HasEvidence(ChosenOf(r), A!MarkerCount)
    IN /\ stage \in Aligning \cup {"invalid_result", "alignment_failed", "open", "write",
                                   "done", "invalid_payload"}
       /\ stage = "invalid_result" => ~IsComplete(r)
       /\ stage \notin {"begin", "invalid_result"} => IsComplete(r)
       /\ stage = "pair" => answer = HeardOf(r)
       /\ stage = "select" => answer = A!Sequences(HeardOf(r), Reference(r).markers, Rate)
       /\ stage = "cut" => answer = ChosenOf(r) /\ hasEvidence
       /\ stage = "alignment_failed" => ~hasEvidence
       /\ stage \in {"open", "write", "done", "invalid_payload"} =>
            /\ answer = A!AlignedPayload(ChosenOf(r), r.declared, Reference(r))
            /\ hasEvidence

\* The jobs stay what they are.
LEMMA JobsAreKept == Spec => []JobsInv
<1>1. Init => JobsInv
  <2> SUFFICES ASSUME Init PROVE JobsInv
    OBVIOUS
  <2>1. stage = "begin" /\ (job.kind = "capture" => job.input \in Recordings)
    BY DEF Init, Jobs
  <2> QED BY <2>1 DEF JobsInv
<1>2. InputsInv /\ JobsInv /\ [Next]_vars => JobsInv'
  <2> SUFFICES ASSUME InputsInv, JobsInv, [Next]_vars PROVE JobsInv'
    OBVIOUS
  <2>1. CASE RecordLoopback
    <3> DEFINE l == job.input
               tape == L!Capture(PlaybackPlan(l), PaddingFrames, l.latency,
                                 [declared |-> l.sourceFrames, delivered |-> l.delivered],
                                 l.chunk)
    <3>1. tape = TapeOf(l)
      BY DEF TapeOf, SourceOf
    <3>2. /\ job.kind = "loopback" /\ stage = "begin" /\ l \in Loopbacks
          /\ IF tape.failed THEN stage' = "source_stream_failure" /\ UNCHANGED job
             ELSE /\ job' = [kind |-> "capture", input |-> Recorded(l, tape)]
                  /\ UNCHANGED stage
      BY <2>1 DEF RecordLoopback, InputsInv
    <3> HIDE DEF tape
    <3>3. CASE tape.failed
      <4>1. /\ stage' = "source_stream_failure" /\ job' = job /\ TapeOf(l).failed
        BY <3>1, <3>2, <3>3
      <4> QED BY <3>2, <4>1 DEF JobsInv
    <3>4. CASE ~tape.failed
      <4>1. /\ job'.kind = "capture" /\ job'.input = RecordingOf(l) /\ ~TapeOf(l).failed
        <5>1. job' = [kind |-> "capture", input |-> RecordingOf(l)]
          BY <3>1, <3>2, <3>4 DEF RecordingOf
        <5> QED BY <3>1, <3>4, <5>1
      <4>2. \E k \in Loopbacks : ~TapeOf(k).failed /\ job'.input = RecordingOf(k)
        BY <3>2, <4>1
      <4> HIDE DEF l
      <4> QED BY <4>1, <4>2 DEF JobsInv
    <3> QED BY <3>3, <3>4
  <2>2. CASE ~RecordLoopback /\ Next
    <3>1. job' = job /\ (job.kind = "loopback" => UNCHANGED stage)
      BY <2>2 DEF Next, ValidateRecording, DetectMarkers, TryLatencies, SelectTrain,
         CutPayload, MakeReader, WriteChunk, PairMarkers, VerifySweep, ConvertSamples,
         WriteFile, InspectFile, RunCommand, Finished, Answer, vars
    <3> QED BY <3>1 DEF JobsInv
  <2>3. CASE UNCHANGED vars
    BY <2>3 DEF vars, JobsInv
  <2> QED BY <2>1, <2>2, <2>3
<1> QED BY <1>1, <1>2, InputsAreGiven, PTL DEF Spec

\* A capture computes what its recording says, stage by stage.
LEMMA TrainIsKept == Spec => []TrainInv
<1>1. Init => TrainInv
  BY DEF Init, TrainInv, Aligning
<1>2. TrainInv /\ [Next]_vars => TrainInv'
  <2> SUFFICES ASSUME TrainInv, [Next]_vars PROVE TrainInv'
    OBVIOUS
  <2> DEFINE r == job.input
  <2>1. CASE RecordLoopback
    BY <2>1 DEF RecordLoopback, TrainInv, Aligning
  <2>2. CASE ValidateRecording
    BY <2>2 DEF ValidateRecording, TrainInv, Aligning
  <2>3. CASE DetectMarkers
    <3>1. job' = job /\ stage = "align" /\ stage' = "pair" /\ answer' = HeardOf(r)
      BY <2>3 DEF DetectMarkers, HeardOf
    <3> QED BY <3>1 DEF TrainInv, Aligning
  <2>4. CASE TryLatencies
    <3>1. /\ job' = job /\ stage = "pair" /\ stage' = "select" /\ job.kind = "capture"
          /\ answer' = A!Sequences(answer, Reference(r).markers, Rate)
      BY <2>4 DEF TryLatencies
    <3>2. answer = HeardOf(r) /\ IsComplete(r)
      BY <3>1 DEF TrainInv
    <3> QED BY <3>1, <3>2 DEF TrainInv, Aligning
  <2>5. CASE SelectTrain
    <3>1. /\ job' = job /\ stage = "select" /\ job.kind = "capture"
          /\ answer' = A!SelectSequence(answer, A!MarkerCount, Rate)
          /\ stage' = IF A!HasEvidence(answer', A!MarkerCount) THEN "cut"
                      ELSE "alignment_failed"
      BY <2>5 DEF SelectTrain
    <3>2. /\ answer = A!Sequences(HeardOf(r), Reference(r).markers, Rate)
          /\ IsComplete(r)
      BY <3>1 DEF TrainInv
    <3>3. answer' = ChosenOf(r)
      BY <3>1, <3>2 DEF ChosenOf
    <3> QED BY <3>1, <3>2, <3>3 DEF TrainInv, Aligning
  <2>6. CASE CutPayload
    <3>1. /\ job' = job /\ stage = "cut" /\ stage' = "open" /\ job.kind = "capture"
          /\ answer' = A!AlignedPayload(answer, r.declared, Reference(r))
      BY <2>6 DEF CutPayload
    <3>2. /\ answer = ChosenOf(r) /\ A!HasEvidence(ChosenOf(r), A!MarkerCount)
          /\ IsComplete(r)
      BY <3>1 DEF TrainInv
    <3> QED BY <3>1, <3>2 DEF TrainInv, Aligning
  <2>7. CASE MakeReader \/ WriteChunk
    <3>1. /\ job' = job /\ answer' = answer /\ stage \in {"open", "write"}
          /\ stage' \in {"write", "done", "invalid_payload"}
      BY <2>7 DEF MakeReader, WriteChunk
    <3> QED BY <3>1 DEF TrainInv, Aligning
  <2>8. CASE PairMarkers \/ VerifySweep \/ ConvertSamples \/ WriteFile \/ InspectFile
               \/ RunCommand
    <3>1. job' = job /\ job.kind # "capture"
      BY <2>8 DEF PairMarkers, VerifySweep, ConvertSamples, WriteFile, InspectFile,
                  RunCommand, Answer
    <3> QED BY <3>1 DEF TrainInv
  <2>9. CASE UNCHANGED vars
    BY <2>9 DEF vars, TrainInv
  <2> QED BY <2>1, <2>2, <2>3, <2>4, <2>5, <2>6, <2>7, <2>8, <2>9 DEF Next, Finished
<1> QED BY <1>1, <1>2, PTL DEF Spec

\* At a supported rate a complete recording is typed and long enough.
LEMMA CapturesAreRecordings ==
  ASSUME RateIsSupported, JobsInv, job.kind = "capture", IsComplete(job.input)
  PROVE  IsRecording(job.input)
<1>1. CASE job.input \in Recordings
  BY <1>1, InputsAssumption DEF IsRecording, IsComplete
<1>2. CASE \E l \in Loopbacks : ~TapeOf(l).failed /\ job.input = RecordingOf(l)
  BY <1>2, RecordingIsOne
<1> QED BY <1>1, <1>2 DEF JobsInv

\* Whichever marker is missing and whatever echoes stay clear of the direct
\* ones, at every supported rate and for every recording, align_payload cuts the
\* source out where the direct sound says, and does not give up.
THEOREM DirectSoundIsFound == Spec => []DirectTrainWins
<1>1. JobsInv /\ TrainInv => DirectTrainWins
  <2> DEFINE r == job.input
             tolerance == A!ToleranceFrames(Rate)
             start == Reference(r).sourceStart
             late == answer.start - start - r.latency
             steady == 0..10
             clear == steady \cup (tolerance + 11)..(MarkerInterval - tolerance - 1)
             chosen == ChosenOf(r)
             y == chosen.median
             z == r.latency
  <2> SUFFICES ASSUME JobsInv, TrainInv, Aligned(r)
               PROVE  /\ /\ Cardinality(TrainMarkers(r, steady)) >= 4
                         /\ ArrivesAt(r, steady, clear)
                         => /\ stage # "alignment_failed"
                            /\ \E x \in Early(r), m \in Markers :
                                 late = Delay(r, x, m) /\ late \in steady
                      /\ \A d \in 0..tolerance :
                           TrainMarkers(r, {d}) = Markers /\ ArrivesAt(r, {d}, 0..tolerance)
                           => stage # "alignment_failed" /\ late \in 0..tolerance
    BY DEF DirectTrainWins
  <2>1. /\ job.kind = "capture" /\ stage \in {"open", "alignment_failed"}
        /\ RateIsSupported /\ Len(r.runs) <= A!MaximumCandidates
    <3>1. /\ job = [kind |-> "capture", input |-> r] /\ stage \in {"open", "alignment_failed"}
          /\ RateIsSupported /\ Len(r.runs) <= A!MaximumCandidates
      BY DEF Aligned
    <3>2. [kind |-> "capture", input |-> r].kind = "capture"
      OBVIOUS
    <3> HIDE DEF r
    <3> QED BY <3>1, <3>2
  <2>2. /\ IsComplete(r)
        /\ stage = "alignment_failed" => ~A!HasEvidence(chosen, A!MarkerCount)
        /\ stage = "open" => answer = A!AlignedPayload(chosen, r.declared, Reference(r))
    BY <2>1 DEF TrainInv
  <2>3. IsRecording(r) /\ z \in Nat /\ start \in Nat
    BY <2>1, <2>2, CapturesAreRecordings, MarksAreSpaced DEF IsRecording
  <2> HIDE DEF r, start, chosen, y
  <2>4. ASSUME y \in Int, y - z >= 0, stage = "open"
        PROVE  late = y - z
    <3>1. answer.start = A!AtLeast(0, Reference(r).sourceStart + chosen.median)
      BY <2>2, <2>4 DEF A!AlignedPayload
    <3>2. answer.start = A!AtLeast(0, start + y)
      BY <3>1 DEF start, y
    <3> HIDE DEF z
    <3>3. A!AtLeast(0, start + y) = start + y
      BY <2>3, <2>4 DEF A!AtLeast
    <3>4. (start + y) - start - z = y - z
      BY <2>3, <2>4
    <3> QED BY <3>2, <3>3, <3>4 DEF z
  <2>5. ASSUME Cardinality(TrainMarkers(r, steady)) >= 4, ArrivesAt(r, steady, clear)
        PROVE  /\ stage # "alignment_failed"
               /\ \E x \in Early(r), m \in Markers : late = Delay(r, x, m) /\ late \in steady
    <3> DEFINE s == steady
               c == clear
    <3>1. /\ s = 0..10 /\ Cardinality(TrainMarkers(r, s)) >= 4 /\ ArrivesAt(r, s, c)
          /\ c = s \cup (A!ToleranceFrames(Rate) + 11)..(MarkerInterval - A!ToleranceFrames(Rate) - 1)
      BY <2>5
    <3> HIDE DEF s, c
    <3>2. /\ A!HasEvidence(ChosenOf(r), A!MarkerCount) /\ ChosenOf(r).median \in Int
          /\ ChosenOf(r).median - r.latency >= 0
          /\ \E x \in Early(r), m \in Markers :
               ChosenOf(r).median - r.latency = Delay(r, x, m) /\ Delay(r, x, m) \in s
      BY <2>1, <2>3, <3>1, SteadyIsChosen
    <3>3. /\ A!HasEvidence(chosen, A!MarkerCount) /\ y \in Int /\ y - z >= 0
          /\ \E x \in Early(r), m \in Markers : y - z = Delay(r, x, m) /\ y - z \in s
      BY <3>2 DEF chosen, y
    <3>4. stage = "open"
      BY <2>1, <2>2, <3>3
    <3>5. late = y - z
      BY <2>4, <3>3, <3>4
    <3> HIDE DEF late
    <3> QED BY <3>3, <3>4, <3>5 DEF s
  <2>6. ASSUME NEW d \in 0..tolerance, TrainMarkers(r, {d}) = Markers,
               ArrivesAt(r, {d}, 0..tolerance)
        PROVE  stage # "alignment_failed" /\ late \in 0..tolerance
    <3> DEFINE delays == 0..tolerance
    <3>1. /\ A!HasEvidence(ChosenOf(r), A!MarkerCount) /\ ChosenOf(r).median \in Int
          /\ ChosenOf(r).median - r.latency \in delays
      <4>1. delays \in SUBSET (0..tolerance) /\ ArrivesAt(r, {d}, delays)
        BY <2>6
      <4> HIDE DEF delays
      <4> QED BY <2>1, <2>3, <2>6, <4>1, ExactIsChosen
    <3>2. A!HasEvidence(chosen, A!MarkerCount) /\ y \in Int /\ y - z \in 0..tolerance
      BY <3>1 DEF chosen, y
    <3>3. tolerance \in Nat
      BY <2>1, RateFacts
    <3> HIDE DEF tolerance
    <3>4. y - z >= 0
      BY <3>2, <3>3
    <3>5. stage = "open"
      BY <2>1, <2>2, <3>2
    <3>6. late = y - z
      BY <2>4, <3>2, <3>4, <3>5
    <3> QED BY <3>2, <3>5, <3>6
  <2> QED BY <2>5, <2>6
<1> QED BY <1>1, JobsAreKept, TrainIsKept, PTL

\* The padding is longer than the distance of two markers.
LEMMA PaddingIsLonger ==
  ASSUME RateIsSupported PROVE MarkerInterval <= PaddingFrames
<1> DEFINE i == MarkerInterval
           p == (Rate + 1) \div 2
<1>1. /\ Rate \in Nat /\ Rate >= 1000 /\ i \in Nat /\ 10 * i <= Rate + 5
  BY RateFacts, SMT
<1>2. p \in Nat /\ Rate <= 2 * p
  BY <1>1, SMT
<1> HIDE DEF i, p
<1>3. i <= p
  BY <1>1, <1>2, SMT
<1> QED BY <1>3 DEF i, p, PaddingFrames

\* So many frames are counted.
LEMMA CountedFrames ==
  ASSUME NEW n \in Nat
  PROVE  Len(Counted(n)) = n /\ \A k \in 1..n : Counted(n)[k] = k
BY DEF Counted

\* A recording of the fake device: it holds its source when the latency is no
\* longer than the padding, and is long enough.
LEMMA RecordingHolds ==
  ASSUME NEW l \in Loopbacks, ~TapeOf(l).failed
  PROVE  LET r == RecordingOf(l)
         IN /\ IsComplete(r)
            /\ r.latency <= PaddingFrames => r.frames = Counted(r.sourceFrames)
<1> DEFINE r == RecordingOf(l)
           p == PaddingFrames
           a == PlaybackPlan(l).sourceStart
           n == l.sourceFrames
<1>1. /\ n \in Nat /\ l.latency \in Nat /\ p \in Nat /\ a \in Nat
  BY InputsAssumption, PlanIsCounted
<1>2. /\ r.declared = TapeOf(l).total /\ r.actual = TapeOf(l).total /\ r.onDisk = TRUE
      /\ r.frames = TapeOf(l).frames /\ r.latency = l.latency /\ r.sourceFrames = n
      /\ RequiredFrames(r) = RequiredFrames(l)
  BY RecordingKeeps
<1>3. /\ TapeOf(l).total = 2 * p + a + n
      /\ TapeOf(l).frames = Counted(HeardOn(l)) /\ (l.latency <= p => HeardOn(l) = n)
  BY TapeIsPlayed
<1>4. RequiredFrames(l) = p + a + n + p
  BY DEF RequiredFrames
<1> HIDE DEF r, p, a, n
<1>5. r.declared >= RequiredFrames(r) /\ r.actual = r.declared
  BY <1>1, <1>2, <1>3, <1>4
<1>6. IsComplete(r)
  BY <1>2, <1>5 DEF IsComplete
<1>7. r.latency <= p => r.frames = Counted(r.sourceFrames)
  BY <1>2, <1>3
<1> QED BY <1>6, <1>7 DEF r, p

\* The file is the source: nothing is refused, and every frame is the one of
\* the source.
LEMMA RecordingIsCutOut ==
  ASSUME InputsInv, JobsInv, TrainInv, PayloadInv, job.kind = "capture", Ended,
         NEW l \in Loopbacks, ~TapeOf(l).failed, job.input = RecordingOf(l),
         RateIsSupported, l.latency < MarkerInterval,
         \A j \in DOMAIN RecordingOf(l).runs : RecordingOf(l).runs[j].peak > 5
  PROVE  /\ stage = "done"
         /\ \A k \in 1..job.input.sourceFrames :
              job.input.frames[output[k] - job.input.offset + 1] = k
<1> DEFINE r == job.input
           n == r.sourceFrames
           start == Reference(r).sourceStart
           p == PaddingFrames
           chosen == ChosenOf(r)
           c == r.declared
           z == l.latency
<1>1. /\ IsComplete(r) /\ (r.latency <= p => r.frames = Counted(n))
  BY RecordingHolds
<1>2. /\ A!HasEvidence(chosen, A!MarkerCount) /\ chosen.median = z
  BY RecordingIsAligned
<1>3. /\ r.latency = z /\ z \in Nat /\ n \in Nat
      /\ r.offset = start + z /\ c = RequiredFrames(r)
  <2> DEFINE q == RecordingOf(l)
  <2>1. /\ q.declared = TapeOf(l).total /\ q.sourceFrames = l.sourceFrames
        /\ q.latency = l.latency /\ q.offset = TapeOf(l).offset
        /\ Reference(q) = Reference(l) /\ RequiredFrames(q) = RequiredFrames(l)
    BY RecordingKeeps
  <2>2. /\ TapeOf(l).offset = Reference(l).sourceStart + l.latency
        /\ TapeOf(l).total = RequiredFrames(l)
    BY MarkersOnTape
  <2>3. l.latency \in Nat /\ l.sourceFrames \in Nat
    BY InputsAssumption
  <2>4. r = q
    OBVIOUS
  <2> HIDE DEF q, r
  <2> QED BY <2>1, <2>2, <2>3, <2>4
<1>4. /\ start \in Nat /\ p \in Nat /\ c = start + n + p /\ z <= p
  <2>1. start \in Nat
    BY MarksAreSpaced
  <2>2. /\ MarkerInterval \in Nat /\ p \in Nat
    BY RateFacts
  <2>3. RequiredFrames(r) = start + n + p
    BY MarkersOf DEF RequiredFrames
  <2>4. MarkerInterval <= p
    BY PaddingIsLonger
  <2> HIDE DEF start, n, p, c, z, r
  <2>5. z <= p
    BY <1>3, <2>2, <2>4 DEF z
  <2> QED BY <1>3, <2>1, <2>2, <2>3, <2>5
<1>5. stage \in {"done", "invalid_payload"}
  <2>1. stage \in {"invalid_result", "alignment_failed", "done", "invalid_payload"}
    BY DEF TrainInv, Ended, Aligning
  <2>2. stage # "invalid_result" /\ stage # "alignment_failed"
    BY <1>1, <1>2 DEF TrainInv
  <2> QED BY <2>1, <2>2
<1>6. answer.start = start + z
  <2>1. answer = A!AlignedPayload(chosen, r.declared, Reference(r))
    BY <1>5 DEF TrainInv
  <2>2. answer.start = A!AtLeast(0, start + chosen.median)
    BY <2>1 DEF A!AlignedPayload
  <2> HIDE DEF start, chosen, z
  <2> QED BY <1>2, <1>3, <1>4, <2>2 DEF A!AtLeast
<1> HIDE DEF r, n, start, p, chosen, c, z
<1>7. P!StartIsInside(answer.start, c)
  BY <1>3, <1>4, <1>6 DEF P!StartIsInside
<1>8. stage = "done"
  BY <1>5, <1>7 DEF PayloadInv, c, r
<1>9. output = Expected(start + z, c, n)
  <2>1. /\ IsWritten(output, reader, answer.start, c, answer.target)
        /\ Len(output) = answer.target /\ answer.target = n
    BY <1>8 DEF PayloadInv, c, r, n
  <2> QED BY <1>6, <2>1 DEF IsWritten
<1>10. ASSUME NEW k \in 1..n PROVE r.frames[output[k] - r.offset + 1] = k
  <2>1. output[k] = IF (start + z) + k - 1 < c THEN (start + z) + k - 1 ELSE P!Silence
    BY <1>9 DEF Expected
  <2>2. (start + z) + k - 1 < c
    BY <1>3, <1>4
  <2>3. output[k] - r.offset + 1 = k
    <3>1. output[k] = (start + z) + k - 1
      BY <2>1, <2>2
    <3>2. ((start + z) + k - 1) - (start + z) + 1 = k
      BY <1>3, <1>4
    <3> QED BY <1>3, <3>1, <3>2
  <2>4. r.frames = Counted(n)
    BY <1>1, <1>3, <1>4
  <2> QED BY <1>3, <2>3, <2>4, CountedFrames
<1> QED BY <1>8, <1>10 DEF r, n

\* Whatever the length of the source, the chunks of both sides and the latency
\* below the distance of two markers: played, recorded, searched for and cut
\* out, the source is the same, and one that ends early is never recorded.
THEOREM LoopbackKeepsTheSource == Spec => []LoopbackIsTheSource
<1>1. InputsInv /\ JobsInv /\ TrainInv /\ PayloadInv => LoopbackIsTheSource
  <2> SUFFICES ASSUME InputsInv, JobsInv, TrainInv, PayloadInv PROVE LoopbackIsTheSource
    OBVIOUS
  <2> DEFINE i == job.input
  <2>1. ASSUME job.kind = "loopback", stage = "source_stream_failure"
        PROVE  i.delivered < i.sourceFrames
    <3>1. i \in Loopbacks /\ TapeOf(i).failed
      BY <2>1 DEF InputsInv, JobsInv
    <3> QED BY <3>1, TapeIsPlayed
  <2>2. ASSUME job.kind = "capture" PROVE i.delivered >= i.sourceFrames
    <3>1. CASE i \in Recordings
      BY <3>1, InputsAssumption
    <3>2. CASE \E l \in Loopbacks : ~TapeOf(l).failed /\ i = RecordingOf(l)
      <4>1. PICK l \in Loopbacks : ~TapeOf(l).failed /\ i = RecordingOf(l)
        BY <3>2
      <4>2. i.delivered = l.delivered /\ i.sourceFrames = l.sourceFrames
        BY <4>1, RecordingKeeps
      <4>3. l.delivered \in Nat /\ l.sourceFrames \in Nat
        BY InputsAssumption
      <4>4. ~(l.delivered < l.sourceFrames)
        BY <4>1, TapeIsPlayed
      <4> QED BY <4>2, <4>3, <4>4
    <3> QED BY <2>2, <3>1, <3>2 DEF JobsInv
  <2>3. ASSUME job.kind = "capture", Ended, i.offset # 0
        PROVE  /\ i.latency <= PaddingFrames => Len(i.frames) = i.sourceFrames
               /\ /\ RateIsSupported /\ i.latency < MarkerInterval
                  /\ \A j \in DOMAIN i.runs : i.runs[j].peak > 5
                  => /\ stage = "done"
                     /\ \A k \in 1..i.sourceFrames : i.frames[output[k] - i.offset + 1] = k
    <3>1. i \notin Recordings
      BY <2>3, InputsAssumption
    <3>2. PICK l \in Loopbacks : ~TapeOf(l).failed /\ i = RecordingOf(l)
      BY <2>3, <3>1 DEF JobsInv
    <3>3. /\ i.latency <= PaddingFrames => i.frames = Counted(i.sourceFrames)
          /\ i.latency = l.latency /\ i.sourceFrames \in Nat
      <4> DEFINE q == RecordingOf(l)
      <4>1. /\ q.latency <= PaddingFrames => q.frames = Counted(q.sourceFrames)
            /\ q.latency = l.latency /\ q.sourceFrames = l.sourceFrames
        BY <3>2, RecordingHolds, RecordingKeeps
      <4>2. l.sourceFrames \in Nat /\ i = q
        BY <3>2, InputsAssumption
      <4> HIDE DEF q, i
      <4> QED BY <4>1, <4>2
    <3>4. i.latency <= PaddingFrames => Len(i.frames) = i.sourceFrames
      <4> HIDE DEF i
      <4> QED BY <3>3, CountedFrames
    <3>5. ASSUME RateIsSupported, i.latency < MarkerInterval,
                 \A j \in DOMAIN i.runs : i.runs[j].peak > 5
          PROVE  /\ stage = "done"
                 /\ \A k \in 1..i.sourceFrames : i.frames[output[k] - i.offset + 1] = k
      <4>1. /\ l.latency < MarkerInterval
            /\ \A j \in DOMAIN RecordingOf(l).runs : RecordingOf(l).runs[j].peak > 5
        <5> HIDE DEF i
        <5> QED BY <3>2, <3>3, <3>5
      <4> QED BY <2>3, <3>2, <3>5, <4>1, RecordingIsCutOut
    <3> QED BY <3>4, <3>5
  <2> QED BY <2>1, <2>2, <2>3 DEF LoopbackIsTheSource
<1> QED BY <1>1, InputsAreGiven, JobsAreKept, TrainIsKept, PayloadIsKept, PTL

=============================================================================
