--------------------------- MODULE MCWorkerPipeline ---------------------------
(***************************************************************************)
(* Inputs for the jobs of WorkerPipeline, at 1000 frames per second: the   *)
(* markers are 100 frames apart, the search radius is 600 and its          *)
(* tolerance 35 frames.                                                    *)
(***************************************************************************)
EXTENDS WorkerPipeline, TLC

CONSTANTS Latencies, SourceFrames

MCRate == 1000

----------------------------------------------------------------------------
\* A train of impulses, without the markers of "gone", "shaken" frames late
\* at the third one, and its echo.
MadeTrain(latency, gone, shaken, peak) ==
  LET Onset(i) == PaddingFrames + (i - 1) * 100 + latency + (IF i = 3 THEN shaken ELSE 0)
  IN [i \in 1..(5 - Cardinality(gone)) |->
        LET marker == A!SetToSortSeq((1..5) \ gone, <)[i]
        IN [from |-> Onset(marker), to |-> Onset(marker) + 2, peak |-> peak]]

\* What stays of two trains that overlap: runs do not touch.
Merged(direct, echo) ==
  LET Touches(e) == \E i \in DOMAIN direct :
                      direct[i].from <= e.to /\ e.from <= direct[i].to
  IN A!SortSeq(direct \o A!SelectSeq(echo, LAMBDA e: ~Touches(e)),
               LAMBDA r, s: r.from < s.from)

NoEcho == [delay |-> 0, gone |-> {}, peak |-> 0]

Recording(latency, gone, shaken, echo, source, short) ==
  LET direct == MadeTrain(latency, gone, shaken, 500)
      later == IF echo = NoEcho THEN <<>>
               ELSE MadeTrain(latency + echo.delay, echo.gone, 0, echo.peak)
      length == 3400 + source
  IN [runs |-> Merged(direct, later), latency |-> latency,
      declared |-> length, actual |-> length, onDisk |-> TRUE,
      sourceFrames |-> source, delivered |-> source, short |-> short,
      offset |-> 0, frames |-> <<>>]

Clean == {Recording(l, gone, shaken, NoEcho, source, short) :
            l \in Latencies, gone \in {{}, {1}, {3}, {5}, {1, 5}, {2, 3}},
            shaken \in {0, 4}, source \in SourceFrames, short \in {7}}

Echo(delay, gone, peak) == [delay |-> delay, gone |-> gone, peak |-> peak]

\* Complete echoes, and one that lacks a marker.
Echoing == {Recording(l, gone, 0, Echo(delay, {}, peak), 20, 100) :
              l \in Latencies, gone \in {{}, {1}, {4}},
              delay \in {6, 20, 46, 58, 64, 160}, peak \in {260, 900, 1200}}
           \cup {Recording(l, gone, 4, Echo(delay, {2}, 900), 20, 100) :
                    l \in Latencies, gone \in {{}, {1}, {4}}, delay \in {46, 58, 64}}

\* A recording whose payload reaches past its end, one whose payload starts
\* behind it, one that fails the checks of the result, and one with nothing to
\* hear in it.
Late == {Recording(650, {}, 0, NoEcho, 60, short) : short \in {1, 7, 100}}
        \cup {Recording(580, {1, 2}, 0, NoEcho, 60, 7)}

Truncated == {[Recording(40, {}, 0, NoEcho, 60, 7)
                 EXCEPT !.onDisk = onDisk, !.actual = @ - less,
                        !.declared = @ - (less + short)] :
                onDisk \in BOOLEAN, less \in {0, 1}, short \in {0, 1}}

Silent == {[Recording(40, {}, 0, NoEcho, 60, 7) EXCEPT !.runs = <<>>]}

MCRecordings == Clean \cup Echoing \cup Late \cup Truncated \cup Silent

\* 500 is the last latency that keeps the whole source in the recording, 510
\* moves the end of it out, 1000 all of it.
MCLoopbacks ==
  {[latency |-> latency, peak |-> peak, loud |-> loud, sourceFrames |-> source,
    delivered |-> source - missing, chunk |-> chunk, short |-> 9] :
     latency \in {0, 99, 500, 510, 1000}, peak \in {5, 250},
     loud \in BOOLEAN, source \in {1, 9, 20}, missing \in {0, 1},
     chunk \in {3, 9, 30}}

MCLateRecordings == {Recording(l, {}, 0, NoEcho, 20, 100) : l \in Latencies}

----------------------------------------------------------------------------
CandidatesAt(frames, loud) ==
  LET sorted == A!SetToSortSeq(frames, <)
  IN [k \in DOMAIN sorted |->
        [frame |-> sorted[k], peak |-> IF sorted[k] \in loud THEN 2 ELSE 1]]

MCPairings ==
  {[candidates |-> CandidatesAt(frames, loud), expected |-> <<0, 3, 6>>,
    latency |-> latency, tolerance |-> tolerance] :
     frames \in {f \in SUBSET (0..7) : Cardinality(f) \in 1..4},
     loud \in {{}, {4, 6}}, latency \in {0, 1}, tolerance \in {1, 3}}

----------------------------------------------------------------------------
Place(frame, score) == [frame |-> frame, score |-> score]

Channel(offset, score, echo) ==
  {Place(100 + offset, score)} \cup (IF echo = 0 THEN {} ELSE {Place(300, echo)})

Channels == {Channel(offset, score, echo) :
               offset \in {0, 11}, score \in {4, 50, 55, 56}, echo \in {0, 60}}
            \cup {Channel(-10, 61, 0), {}}

Loud == [inputPeak |-> -60, peak |-> 500, event |-> 400, leadPeak |-> 1,
         leadRms |-> 0]

Heard(channels, levels) ==
  [channels |-> channels, inputPeak |-> levels.inputPeak, peak |-> levels.peak,
   event |-> levels.event, leadPeak |-> levels.leadPeak,
   leadRms |-> levels.leadRms]

MCChecks ==
  {Heard(channels, Loud) : channels \in Channels \X Channels \X Channels}
    \cup {Heard(<<channel>>, levels) : channel \in Channels,
            levels \in {[Loud EXCEPT !.inputPeak = -1],
                        [Loud EXCEPT !.inputPeak = -2, !.leadRms = 60],
                        [Loud EXCEPT !.peak = 1], [Loud EXCEPT !.peak = 2]}}

----------------------------------------------------------------------------
Types == [name : DOMAIN S!Layouts, order : {"msb", "lsb"}]

Unsupported == [name |-> "dsd", order |-> "lsb"]

Buffer(type, size) == [type |-> type, bytes |-> [i \in 1..size |-> 9]]

Levels == << -40000, -32768, -32767, -1, 0, 3, 129, 16385, 32767, 32768,
             S!NotANumber, -300 >>

MCConversions ==
  {[interleaved |-> Levels, frames |-> 12 \div Len(types),
    channels |-> [c \in DOMAIN types |->
                    Buffer(types[c], (12 \div Len(types))
                                       * S!ByteCount(types[c]) + 1)]] :
     types \in (Types \X Types) \cup {<<t>> : t \in Types}}
  \cup
  {[interleaved |-> SubSeq(Levels, 1, samples), frames |-> frames,
    channels |-> <<Buffer([name |-> "int24", order |-> "msb"], size),
                   Buffer(type, 8)>>] :
     samples \in {2, 4}, frames \in {0, 1, 2}, size \in {5, 6},
     type \in {Unsupported, [name |-> "int32", order |-> "lsb"]}}
  \cup
  {[interleaved |-> <<>>, frames |-> frames, channels |-> <<>>] : frames \in {0, 1}}

----------------------------------------------------------------------------
LevelsOf(bits) ==
  LET scale == Scale(bits)
  IN << -3 * scale, -2 * scale, 1 - 2 * scale, -3, -2, -1, 0, 1, 2, 3,
        2 * scale - 3, 2 * scale - 2, 2 * scale - 1, 2 * scale >>

MCRequests ==
  {[frames |-> frames, channels |-> channels, bits |-> bits, rate |-> rate,
    levels |-> LevelsOf(bits)] :
     frames \in 0..130, channels \in 0..3, bits \in {16, 24, 32},
     rate \in {0, 20, 130}}

----------------------------------------------------------------------------
Pcm == [tag |-> "pcm", sub |-> "none", guid |-> TRUE, extension |-> 0,
        channels |-> 2, rate |-> 44, align |-> 4, bits |-> 16, valid |-> 0]

Bodies ==
  {Pcm, [Pcm EXCEPT !.align = 3], [Pcm EXCEPT !.channels = 0],
   [Pcm EXCEPT !.tag = "float"], [Pcm EXCEPT !.tag = "float", !.bits = 32],
   [Pcm EXCEPT !.tag = "float", !.bits = 32, !.align = 8],
   [Pcm EXCEPT !.rate = 0], [Pcm EXCEPT !.rate = 127], [Pcm EXCEPT !.rate = 128],
   [Pcm EXCEPT !.rate = 39], [Pcm EXCEPT !.rate = 40],
   [Pcm EXCEPT !.rate = 100], [Pcm EXCEPT !.rate = 101],
   [Pcm EXCEPT !.bits = 8, !.align = 2],
   [Pcm EXCEPT !.tag = "other"]}
  \cup
  {[Pcm EXCEPT !.tag = "extensible", !.extension = extension, !.sub = sub,
               !.guid = guid, !.bits = 32, !.align = 8, !.valid = valid] :
     extension \in {0, 22}, sub \in {"pcm", "float", "other"},
     guid \in BOOLEAN, valid \in {0, 24, 33}}

Fmt(body, size) == [id |-> "fmt", size |-> size, body |-> body]

Chunk(id, size) == [id |-> id, size |-> size]

FileOf(chunks, length, missing) ==
  [length |-> length, riff |-> length - missing, chunks |-> chunks]

LengthOf(chunks) ==
  12 + A!Total([k \in DOMAIN chunks |->
                  8 + chunks[k].size + Padding(chunks[k].size)])

Layout(fmt, data) ==
  {<<fmt, data>>, <<data, fmt>>, <<fmt>>, <<data>>, <<>>,
   <<Chunk("other", 3), fmt, data>>, <<fmt, Chunk("other", 3), data>>,
   <<fmt, fmt, data>>, <<fmt, data, Chunk("data", 4)>>}

MCFiles ==
  {FileOf(chunks, LengthOf(chunks) - cut, missing) :
     chunks \in UNION {Layout(Fmt(body, size), Chunk("data", data)) :
                         body \in Bodies, size \in {14, 16, 40},
                         data \in {0, 6, 7, 8}},
     cut \in {0, 1}, missing \in {7, 8, 9}}

----------------------------------------------------------------------------
Plain(text) == [text |-> text, value |-> C!NoValue]

With(text, value) == [text |-> text, value |-> value]

Arguments ==
  {Plain(t) : t \in {"--json", "--help", "-v", "-i", "-o", "good", "bad",
                     "--driver", "--inputs", "--sample-rate", "--x", ""}}
  \cup {With("--driver", "good"), With("--input-trim", "bad"),
        With("--bit-depth", ""), With("--json", "good"), With("good", "bad")}

Verbs == {"devices", "channels", "test", "run", "help", "version", "--license", "x"}

Complete ==   \* all that "run" and "test" have to be given
  <<With("--driver", "good"), With("--play-channel", "good"),
    Plain("--record-channel"), Plain("good")>>

Files2 == <<Plain("-i"), Plain("bad"), With("--output", "bad")>>

Services == [events : {0, 2},
             outcome : {"passed", "failed", "capture_error", "runtime_error"}]

Normal == [events |-> 2, outcome |-> "passed"]

MCCommandLines ==
  {[args |-> <<Plain(verb)>> \o rest, service |-> Normal] :
     verb \in Verbs,
     rest \in {<<>>} \cup {<<a>> : a \in Arguments} \cup (Arguments \X Arguments)}
  \cup
  {[args |-> <<Plain(verb)>> \o start \o Complete \o files \o end,
    service |-> service] :
     verb \in {"test", "run"}, start \in {<<>>, <<Plain("--json")>>},
     files \in {<<>>, Files2},
     end \in {<<>>, <<Plain("--json")>>, <<Plain("--help")>>,
              <<Plain("--driver"), Plain("--json")>>},
     service \in Services}
  \cup
  {[args |-> <<Plain(verb)>> \o end, service |-> service] :
     verb \in {"devices", "channels"},
     end \in {<<>>, <<With("--driver", "good"), Plain("--json")>>,
              <<Plain("--json")>>, <<Plain("good")>>},
     service \in Services}
  \cup
  {[args |-> <<>>, service |-> service] : service \in Services}
=============================================================================
