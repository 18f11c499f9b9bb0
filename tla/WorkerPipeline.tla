---------------------------- MODULE WorkerPipeline ----------------------------
(***************************************************************************)
(* What a worker process does with data, from its command line over the    *)
(* conversion of samples and the alignment of the recording to the files   *)
(* it writes and reads.  Every behaviour is one job: a recording goes      *)
(* through the stages of CaptureService::capture, the other jobs are one   *)
(* call of the function they are named after.                              *)
(***************************************************************************)
EXTENDS WavFormat, FiniteSets

CONSTANTS
  Rate,          \* frames per second
  Recordings,    \* [runs, declared, actual, onDisk, sourceFrames, short]; the
                 \* latency of the device and how many frames the source had
                 \* delivered, [latency, delivered]; where the source stands in
                 \* it when the fake device made it, [offset, frames]
  Loopbacks,     \* [latency, peak, loud, sourceFrames, delivered, chunk, short]
  Pairings,      \* [candidates, expected, latency, tolerance]
  Checks,        \* [channels, inputPeak, peak, event, leadPeak, leadRms]
  Conversions,   \* [interleaved, frames, channels]
  Requests,      \* [frames, channels, bits, rate, levels]
  Files,         \* [length, riff, chunks]
  CommandLines,  \* [args, service]
  ChunkFrames    \* frames write_wav asks for at once

FormatBodies ==
  [tag : {"pcm", "float", "extensible", "other"},
   sub : {"none", "pcm", "float", "other"}, guid : BOOLEAN, extension : Nat,
   channels : Nat, rate : Nat, align : Nat, bits : Nat, valid : Nat]

ASSUME InputsAssumption ==
  /\ Rate \in Nat
  /\ ChunkFrames \in Nat \ {0}
  /\ \A r \in Recordings :   \* runs are maximal, and a backend reads the whole source
       /\ r.runs \in Seq([from : Nat, to : Nat, peak : Nat])
       /\ \A k \in DOMAIN r.runs : /\ r.runs[k].from < r.runs[k].to
                                   /\ k > 1 => r.runs[k - 1].to < r.runs[k].from
       /\ r.declared \in Nat /\ r.sourceFrames \in Nat /\ r.short \in Nat \ {0}
       /\ r.latency \in Nat /\ r.delivered \in Nat /\ r.delivered >= r.sourceFrames
       /\ r.offset = 0
  /\ \A l \in Loopbacks :
       /\ l.sourceFrames \in Nat /\ l.short \in Nat \ {0}
       /\ l.peak \in Nat /\ l.loud \in BOOLEAN
       /\ l.latency \in Nat /\ l.delivered \in Nat /\ l.chunk \in Nat \ {0}
  /\ Pairings \subseteq
       [candidates : Seq([frame : Int, peak : Int]), expected : Seq(Int),
        latency : Int, tolerance : Int]
  /\ Checks \subseteq
       [channels : Seq(SUBSET [frame : Nat, score : 0..100]), inputPeak : Int,
        peak : Nat, event : Nat, leadPeak : Nat, leadRms : Nat]
  /\ Conversions \subseteq
       [interleaved : Seq(Int), frames : Nat,
        channels : Seq([type : [name : STRING, order : STRING], bytes : Seq(Nat)])]
  /\ Requests \subseteq
       [frames : Nat, channels : Nat, bits : Nat, rate : Nat, levels : Seq(Int)]
  /\ Files \subseteq
       [length : Nat, riff : Nat,
        chunks : Seq([id : {"fmt"}, size : Nat, body : FormatBodies]
                       \cup [id : {"data", "other"}, size : Nat])]
  /\ CommandLines \subseteq
       [args : Seq([text : STRING, value : STRING]),
        service : [events : Nat,
                   outcome : {"passed", "failed", "capture_error", "runtime_error"}]]

A == INSTANCE MarkerAlignment
V == INSTANCE SweepVerification
P == INSTANCE PayloadReaders
S == INSTANCE SampleConverter
C == INSTANCE CommandLine
L == INSTANCE FakeLoopback

ASSUME OptionsAssumption == \A option \in C!ValueOptions : C!StartsWith(option, "--")

VARIABLES
  job,      \* [kind, input]
  stage,    \* what is done next with it
  answer,   \* what the call returned
  reader,   \* the reader of the aligned payload
  output    \* the frames read from it

vars == <<job, stage, answer, reader, output>>

Jobs(kind, inputs) == {[kind |-> kind, input |-> i] : i \in inputs}

Init ==
  /\ job \in Jobs("capture", Recordings) \cup Jobs("loopback", Loopbacks)
            \cup Jobs("pair", Pairings) \cup Jobs("verify", Checks)
            \cup Jobs("convert", Conversions)
            \cup Jobs("write", Requests) \cup Jobs("inspect", Files)
            \cup Jobs("command", CommandLines)
  /\ stage = "begin"
  /\ answer = <<>>
  /\ reader = <<>>
  /\ output = <<>>

----------------------------------------------------------------------------
(* A capture, from the return of the backend to the last frame written.    *)
(* The recording is given, or the fake backend makes it.                   *)

PaddingFrames == (Rate + 1) \div 2   \* half a second before and after the playback

PlaybackPlan(r) == A!PlaybackPlan(Rate, r.sourceFrames)

\* The positions of the plan in the recording, which begins with the padding.
Reference(r) ==
  LET plan == PlaybackPlan(r)
  IN [plan EXCEPT !.markers = [i \in DOMAIN @ |-> @[i] + PaddingFrames],
                  !.sourceStart = @ + PaddingFrames]

RequiredFrames(r) ==
  PaddingFrames + PlaybackPlan(r).sourceStart + r.sourceFrames + PaddingFrames

\* The markers are heard, and the source as well when it is loud.
Recorded(i, tape) ==
  LET Run(from, frames) == [from |-> from, to |-> from + frames, peak |-> i.peak]
      markers == [k \in DOMAIN tape.markers |-> Run(tape.markers[k], 1)]
      loud == i.loud /\ tape.frames # <<>>
  IN [runs |-> IF loud THEN Append(markers, Run(tape.offset, Len(tape.frames)))
               ELSE markers,
      declared |-> tape.total, actual |-> tape.total, onDisk |-> TRUE,
      sourceFrames |-> i.sourceFrames, short |-> i.short, latency |-> i.latency,
      delivered |-> i.delivered, offset |-> tape.offset, frames |-> tape.frames]

RecordLoopback ==
  /\ job.kind = "loopback" /\ stage = "begin"
  /\ LET i == job.input
         tape == L!Capture(PlaybackPlan(i), PaddingFrames, i.latency,
                           [declared |-> i.sourceFrames, delivered |-> i.delivered],
                           i.chunk)
     IN IF tape.failed
          THEN stage' = "source_stream_failure" /\ UNCHANGED job
          ELSE /\ job' = [kind |-> "capture", input |-> Recorded(i, tape)]
               /\ UNCHANGED stage
  /\ UNCHANGED <<answer, reader, output>>

\* validate_raw_capture_result: a file is held to its size, what is not in a
\* file is read to its end.
IsComplete(r) ==
  /\ r.declared >= RequiredFrames(r)
  /\ IF r.onDisk THEN r.actual = r.declared
     ELSE P!PeakScanSucceeds(r.declared, r.actual)

ValidateRecording ==
  /\ job.kind = "capture" /\ stage = "begin"
  /\ stage' = IF IsComplete(job.input) THEN "align" ELSE "invalid_result"
  /\ UNCHANGED <<job, answer, reader, output>>

\* align_payload
DetectMarkers ==
  /\ job.kind = "capture" /\ stage = "align"
  /\ answer' = A!HeardMarkers(job.input.runs, job.input.declared,
                              Reference(job.input), Rate)
  /\ stage' = "pair"
  /\ UNCHANGED <<job, reader, output>>

TryLatencies ==
  /\ job.kind = "capture" /\ stage = "pair"
  /\ answer' = A!Sequences(answer, Reference(job.input).markers, Rate)
  /\ stage' = "select"
  /\ UNCHANGED <<job, reader, output>>

SelectTrain ==
  /\ job.kind = "capture" /\ stage = "select"
  /\ answer' = A!SelectSequence(answer, A!MarkerCount, Rate)
  /\ stage' = IF A!HasEvidence(answer', A!MarkerCount) THEN "cut"
              ELSE "alignment_failed"
  /\ UNCHANGED <<job, reader, output>>

CutPayload ==
  /\ job.kind = "capture" /\ stage = "cut"
  /\ answer' = A!AlignedPayload(answer, job.input.declared, Reference(job.input))
  /\ stage' = "open"
  /\ UNCHANGED <<job, reader, output>>

MakeReader ==
  /\ job.kind = "capture" /\ stage = "open"
  /\ IF P!StartIsInside(answer.start, job.input.declared)
       THEN /\ reader' = P!OpenPayload(answer.start, answer.target)
            /\ stage' = "write"
       ELSE /\ stage' = "invalid_payload"
            /\ UNCHANGED reader
  /\ UNCHANGED <<job, answer, output>>

WriteChunk ==
  /\ job.kind = "capture" /\ stage = "write"
  /\ IF Len(output) = answer.target
       THEN stage' = "done" /\ UNCHANGED <<reader, output>>
       ELSE LET size == P!AtMost(answer.target - Len(output), ChunkFrames)
                read == P!ReadFrames(reader, size, job.input.declared,
                                     job.input.short)
            IN /\ output' = output \o read.frames
               /\ reader' = read.reader
               /\ stage' = IF Len(read.frames) = size THEN "write"
                           ELSE "invalid_payload"
  /\ UNCHANGED <<job, answer>>

----------------------------------------------------------------------------
(* One call each.                                                          *)

Answer(kind, value) ==
  /\ job.kind = kind /\ stage = "begin"
  /\ answer' = value
  /\ stage' = "done"
  /\ UNCHANGED <<job, reader, output>>

PairMarkers == Answer("pair", A!BestPairing(job.input))

VerifySweep ==
  LET signal == V!VerificationSignal(Rate)
  IN Answer("verify", V!Evaluate(job.input, signal.total, signal))

\* to the driver's buffers and back, as a device in loopback does
ConvertSamples ==
  LET i == job.input
      sent == S!InterleavedFloatToAsio(i.interleaved, i.frames, i.channels)
      heard == S!AsioToInterleavedFloat(sent.channels, i.frames, i.interleaved)
  IN Answer("convert", [sent |-> sent, heard |-> heard])

WriteFile ==
  LET file == WriteWav(job.input)
      accepted == ValidateCapacity(job.input)
      scale == Scale(job.input.bits)
      Stored(k) == Decode(Encoded(Quantize(k, scale), scale), scale, 1)
  IN Answer("write",
       [accepted |-> accepted, file |-> file,
        worker |-> IF accepted THEN ReadWav(file) ELSE Unreadable,
        levels |-> [i \in DOMAIN job.input.levels |-> Stored(job.input.levels[i])]])

InspectFile ==
  Answer("inspect", [worker |-> ReadWav(job.input),
                     panel |-> PanelReads(job.input),
                     picked |-> PanelPicks(job.input)])

RunCommand == Answer("command", C!RunCli(job.input.args, job.input.service))

Aligning == {"begin", "align", "pair", "select", "cut"}

Ended == stage \notin Aligning \cup {"open", "write"}

Finished == Ended /\ UNCHANGED vars

Next ==
  \/ RecordLoopback \/ ValidateRecording
  \/ DetectMarkers \/ TryLatencies \/ SelectTrain \/ CutPayload
  \/ MakeReader \/ WriteChunk
  \/ PairMarkers \/ VerifySweep \/ ConvertSamples
  \/ WriteFile \/ InspectFile \/ RunCommand
  \/ Finished

Spec == Init /\ [][Next]_vars

----------------------------------------------------------------------------
(* Properties.                                                             *)

Answered(kind) == job.kind = kind /\ stage = "done"

AtMostApart(a, b, distance) == a - b <= distance /\ b - a <= distance

\* make_marker_sequence fills a table of cells; the pairing it ends with is
\* one that could have been chosen at all, and no other way to pair some of the
\* markers in order with candidates within the tolerance has more markers, or
\* as many with a smaller residual, or both alike with more energy.
MatchIsOptimal ==
  Answered("pair") =>
    LET i == job.input
        markers == DOMAIN i.expected
        Square(e, c) == A!Residual(i, e, c) * A!Residual(i, e, c)
        Peak(e, c) == i.candidates[c].peak
        Fits(e, c) == AtMostApart(A!Residual(i, e, c), 0, i.tolerance)
        pairs == answer.pairs
        Sum(Cost(_, _)) ==
          A!Total([k \in DOMAIN pairs |-> Cost(pairs[k][1], pairs[k][2])])
        SumOf(other, Cost(_, _)) ==
          A!Total([e \in markers |-> IF e \in DOMAIN other THEN Cost(e, other[e]) ELSE 0])
    IN /\ \A k \in DOMAIN pairs :
            /\ Fits(pairs[k][1], pairs[k][2])
            /\ k > 1 => /\ pairs[k - 1][1] < pairs[k][1]
                        /\ pairs[k - 1][2] < pairs[k][2]
       /\ answer.residual = Sum(Square) /\ answer.peaks = Sum(Peak)
       /\ \A E \in SUBSET markers : \A other \in [E -> DOMAIN i.candidates] :
            /\ \A e \in E : Fits(e, other[e])
            /\ \A d, e \in E : d < e => other[d] < other[e]
            => /\ Cardinality(E) <= Len(pairs)
               /\ Cardinality(E) = Len(pairs) =>
                    \/ SumOf(other, Square) > answer.residual
                    \/ /\ SumOf(other, Square) = answer.residual
                       /\ SumOf(other, Peak) <= answer.peaks

\* constants::audio, the range of validate_sample_rate
RateIsSupported == Rate >= 1000 /\ Rate <= 768000

MarkerInterval == A!PlaybackPlan(Rate, 0).markers[2]

\* Loud runs before the source, and those no threshold hides.
Early(r) == {r.runs[k] : k \in {j \in DOMAIN r.runs : r.runs[j].from < Reference(r).sourceStart}}

Dominant(r) == {x \in Early(r) : x.peak > 5 /\ \A y \in Early(r) : 2 * x.peak > y.peak}

\* How much later than the direct sound of a marker a run begins.
Delay(r, run, m) == run.from - Reference(r).markers[m] - r.latency

Markers == 1..A!MarkerCount

\* Dominant runs that begin one of these delays after a marker; the markers
\* they are of.
Train(r, delays) == {x \in Dominant(r) : \E m \in Markers : Delay(r, x, m) \in delays}

TrainMarkers(r, delays) ==
  {m \in Markers : \E x \in Dominant(r) : Delay(r, x, m) \in delays}

\* Every run that can be heard beside the train at "near" begins one of the
\* delays after a marker, and before the next one.
ArrivesAt(r, near, delays) ==
  \A y \in Early(r) :
    y.peak > 5 /\ (\A x \in Train(r, near) : 2 * y.peak > x.peak) =>
      \E m \in Markers : /\ Delay(r, y, m) \in delays
                        /\ Delay(r, y, m) + r.latency < MarkerInterval

Aligned(r) ==
  /\ job = [kind |-> "capture", input |-> r] /\ stage \in {"open", "alignment_failed"}
  /\ RateIsSupported /\ Len(r.runs) <= A!MaximumCandidates

\* "A later reflected train must not win merely because the first direct
\* marker was noise-gated" (alignment.cpp:623).  With four of the five markers
\* heard within ten frames of their time, whichever is missing, and echoes in
\* any number and of any loudness, complete or not, that stay clear of these
\* markers and of the next ones by the tolerance of the search, the source is
\* cut out where one of the direct markers says.  When a complete train is
\* heard within the tolerance and nothing later, it is cut out within the
\* tolerance.
DirectTrainWins ==
  LET r == job.input
      tolerance == A!ToleranceFrames(Rate)
      late == answer.start - Reference(r).sourceStart - r.latency
      steady == 0..10
  IN Aligned(r) =>
       /\ /\ Cardinality(TrainMarkers(r, steady)) >= 4
          /\ ArrivesAt(r, steady, steady \cup (tolerance + 11)..(MarkerInterval - tolerance - 1))
          => /\ stage # "alignment_failed"
             /\ \E x \in Early(r), m \in Markers : late = Delay(r, x, m) /\ late \in steady
       /\ \A d \in 0..tolerance :
            TrainMarkers(r, {d}) = Markers /\ ArrivesAt(r, {d}, 0..tolerance)
            => stage # "alignment_failed" /\ late \in 0..tolerance

\* The file has exactly as many frames as the source, in the order and from
\* the place the alignment found, silence only after the end of the
\* recording; what the result reports as trimmed is what was recorded.  A
\* payload is refused only when it would start outside the recording: once it
\* is open, no read of it fails.
PayloadIsTheSource ==
  job.kind = "capture" /\ stage \in {"write", "done", "invalid_payload"} =>
    LET Frame(k) == IF answer.start + k - 1 < job.input.declared
                      THEN answer.start + k - 1 ELSE P!Silence
    IN /\ stage = "invalid_payload" =>
            output = <<>> /\ ~P!StartIsInside(answer.start, job.input.declared)
       /\ output = [k \in 1..Len(output) |-> Frame(k)]
       /\ stage = "done" =>
            /\ Len(output) = job.input.sourceFrames
            /\ answer.trimmed = Cardinality({k \in DOMAIN output :
                                               output[k] # P!Silence})

\* Recorded by the fake device with markers that can be heard and a latency
\* below their distance, the file is the source, frame by frame, whatever the
\* sizes of the chunks on the way and however loud the source is.  And no
\* recording is made of a source that ended before its declared length, also
\* when the latency has moved all of it out of the recording.
LoopbackIsTheSource ==
  /\ job.kind = "loopback" =>
       (stage = "source_stream_failure" => job.input.delivered < job.input.sourceFrames)
  /\ job.kind = "capture" => job.input.delivered >= job.input.sourceFrames
  /\ job.kind = "capture" /\ Ended /\ job.input.offset # 0 =>
       LET i == job.input
           Content(frame) == i.frames[frame - i.offset + 1]
       IN /\ i.latency <= PaddingFrames => Len(i.frames) = i.sourceFrames
          /\ /\ RateIsSupported /\ i.latency < MarkerInterval
             /\ \A j \in DOMAIN i.runs : i.runs[j].peak > 5
             => /\ stage = "done"
                /\ \A k \in 1..i.sourceFrames : Content(output[k]) = k

\* The score, and so the verdict, comes from the right channel: the setup
\* passes exactly when nothing clipped, there is a signal and some channel
\* has its strongest direct match in time; and of the channels in time the
\* one that counts is at most five hundredths weaker than the strongest,
\* although "better" is not transitive.
RightChannelCounts ==
  Answered("verify") =>
    LET signal == V!VerificationSignal(Rate)
        tolerance == V!TimingTolerance(Rate)
        Heard(c) == V!MatchChannel(job.input.channels[c], signal.total, signal)
        InTime == {c \in DOMAIN job.input.channels :
                     Heard(c) # V!NoMatch /\ V!HasAcceptableTiming(Heard(c), tolerance)}
    IN /\ answer.failures = {} <=>
            /\ job.input.inputPeak < V!ClippingThreshold
            /\ job.input.peak > 1
            /\ InTime # {}
       /\ answer.sweep # V!NoMatch =>
            \A c \in InTime :
              Heard(c).score - answer.sweep.score <= V!MinimumDirectScore

\* Every channel of a route has its own type, depth and byte order.  What is
\* played and recorded again is the sample of the same frame and channel,
\* rounded to half a step of that channel's depth (a whole one at positive
\* full scale); bytes beyond the frames stay as they were, and a call that
\* reports an error has changed nothing.
RouteKeepsItsSamples ==
  Answered("convert") =>
    LET i == job.input
        count == Len(i.channels)
        Type(k) == i.channels[1 + ((k - 1) % count)].type
        Near(k, a, b) ==
          IF S!IsInteger(Type(k))
            THEN /\ AtMostApart(a, b, S!Step(S!ValidBits(Type(k))))
                 /\ AtMostApart(2 * a, 2 * b, S!Step(S!ValidBits(Type(k))))
                      \/ a + S!Step(S!ValidBits(Type(k))) = S!FullScale
            ELSE a = b
    IN /\ answer.sent.outcome = answer.heard.outcome
       /\ IF answer.sent.outcome = "success"
            THEN /\ \A k \in DOMAIN i.interleaved :
                       Near(k, answer.heard.interleaved[k],
                            S!Normalized(i.interleaved[k]))
                 /\ \A c \in 1..count :
                      \A b \in DOMAIN i.channels[c].bytes :
                        b > i.frames * S!ByteCount(i.channels[c].type) =>
                          answer.sent.channels[c].bytes[b] = i.channels[c].bytes[b]
            ELSE /\ answer.sent.channels = i.channels
                 /\ answer.heard.interleaved = i.interleaved

\* A file the writer agreed to write is one the reader accepts, with the same
\* frames: none of the 32-bit sizes of the header has wrapped around, and
\* every sample comes back within half a step of its depth (a whole one at
\* positive full scale).
WrittenIsReadable ==
  Answered("write") /\ answer.accepted =>
    LET w == job.input
        scale == Scale(w.bits)
    IN /\ answer.worker.frames = w.frames
       /\ answer.worker.channels = w.channels
       /\ answer.worker.bits = w.bits
       /\ answer.worker.rate = w.rate
       /\ answer.file.riff + 8 = answer.file.length
       /\ \A k \in DOMAIN w.levels :
            \/ AtMostApart(2 * answer.levels[k], w.levels[k], 1)
            \/ w.levels[k] < -2 * scale /\ answer.levels[k] = -scale
            \/ w.levels[k] >= 2 * scale - 1 /\ answer.levels[k] = scale - 1

\* The panel reads WAV files with code of its own.  It takes a picked file
\* exactly when the worker would capture from it: when the worker reads a frame
\* of it, at a rate that is supported.  Of a result, whose rate it compares with
\* that of the source, it accepts any rate that an int holds.  Whatever it reads
\* is what the worker reads, and the samples lie inside the file.
PanelAgreesWithWorker ==
  Answered("inspect") =>
    /\ answer.picked # Unreadable <=> IsCaptureSource(answer.worker)
    /\ answer.panel # Unreadable <=>
         answer.worker.frames > 0 /\ answer.worker.rate <= MaxPanelRate
    /\ answer.picked \in {Unreadable, answer.panel}
    /\ answer.panel # Unreadable =>
         /\ answer.panel.frames = answer.worker.frames
         /\ answer.panel.channels = answer.worker.channels
         /\ answer.panel.bits = answer.worker.bits
         /\ answer.panel.rate = answer.worker.rate
    /\ answer.worker # Unreadable =>
         answer.worker.offset + answer.worker.size <= job.input.length

\* "stdout contains no non-protocol text in this mode"
\* (Docs/WINDOWS_ARCHITECTURE.md): with --json among the arguments, wherever it
\* stands and whatever the other arguments are, stdout is events and then one
\* closing line, stderr is empty, and the exit code agrees with the closing
\* line.  A command line that is refused has touched no device, and one in which
\* an option stands where the value of another is due is refused: "a leading
\* double dash always denotes an option" (cli.cpp:528).
StructuredOutput ==
  Answered("command") =>
    LET args == job.input.args
        json == \E i \in DOMAIN args :
                  args[i].text = "--json" /\ args[i].value = C!NoValue
        TakesNext(i) ==
          /\ args[i].value = C!NoValue
          /\ C!OptionOf(args[i], C!CommandName(args[1].text)) \in C!ValueOptions
        out == answer.out
        closing == out[Len(out)]
    IN /\ IF json
            THEN /\ ~answer.err
                 /\ out # <<>>
                 /\ closing \notin {"event", "text"}
                 /\ \A i \in 1..(Len(out) - 1) : out[i] = "event"
                 /\ answer.code = 0 => closing # "error"
                 /\ answer.code = 1 => closing \in {"error", "test_result"}
                 /\ answer.code = 2 => out = <<"error">>
            ELSE /\ \A i \in DOMAIN out : out[i] = "text"
                 /\ answer.err <=>
                      \/ answer.code = 2
                      \/ answer.code = 1 /\ job.input.service.outcome # "failed"
       /\ answer.code # 2 =>
            \A i \in 2..Len(args) : TakesNext(i) =>
              i < Len(args) /\ ~C!StartsWith(args[i + 1].text, "--")

\* README.md: "Save a WAV aligned to the beginning and duration of the
\* source", for every round trip the marker search allows for.
AlignedToSource ==
  job.kind = "capture" /\ TrainMarkers(job.input, {0}) = Markers /\ stage = "open" =>
    answer.start = Reference(job.input).sourceStart + job.input.latency
=============================================================================
