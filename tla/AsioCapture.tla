---------------------------- MODULE AsioCapture ----------------------------
(***************************************************************************)
(* One ASIO capture: the control thread (AsioAudioBackend::capture and     *)
(* CaptureResourceGuard::cleanup), the driver's callback threads           *)
(* (CaptureState::process and the notifications), the playback worker and  *)
(* the recording writer (AsioStreamWorkers), and the scratch file.         *)
(*                                                                         *)
(* A frame is its number: the playback stream is 0, 1, ..., and so is the  *)
(* recording.  The two rings are BoundedFifos (SpscRing implements one)    *)
(* and the callback gate is a flag plus the threads inside (CallbackGate   *)
(* has its protocol).  What a driver, a disk, a caller or the clock may do *)
(* to a capture is a hazard, and a behaviour meets at most MaxFaults.      *)
(***************************************************************************)
EXTENDS Integers, Sequences, FiniteSets

CONSTANTS
    PadFrames,        \* pre_pad_frames, before and after the playback
    PlaybackFrames,   \* playback_frame_count
    BufferFrames,     \* the driver's buffer size
    RingFrames,       \* ring_frames
    PrebufferFrames,  \* minimum_frames of wait_until_playback_ready
    ChunkFrames,      \* worker_chunk_frames
    Callbacks,        \* driver threads
    Hazards,          \* what may go wrong, a subset of AllHazards
    MaxFaults         \* how many of them one behaviour meets

AllHazards ==
    { "cancel",      \* the token is cancelled
      "threads",     \* a worker thread cannot be created
      "source",      \* the source reader fails
      "file",        \* the scratch file cannot be written or closed, or a NaN is recorded
      "create",      \* createBuffers fails or returns a null buffer
      "conversion",  \* a sample conversion fails or a buffer is null
      "start",       \* IASIO::start fails
      "index",       \* the driver passes an invalid half
      "event",       \* reset, resync, sample rate change or overload
      "latencies",   \* the latencies changed
      "cleanup",     \* IASIO::stop or disposeBuffers fails
      "control" }    \* a progress call or the asset's construction throws

ASSUME LengthsAssumption ==
    /\ PadFrames \in Nat
    /\ {PlaybackFrames, BufferFrames, PrebufferFrames, ChunkFrames} \subseteq Nat \ {0}
    /\ RingFrames \in Nat /\ BufferFrames <= RingFrames /\ PrebufferFrames <= RingFrames
ASSUME HazardsAssumption ==
    IsFiniteSet(Callbacks) /\ Hazards \subseteq AllHazards /\ MaxFaults \in Nat

VARIABLES
    control,            \* where the control thread is
    exit,               \* why the wait ended: cancelled, timed_out
    thrown,             \* the error an exception carries through the cleanup
    drain,              \* drain_completed_recording
    joined,             \* joined_
    outcome,            \* what the caller gets
    buffers,            \* buffers_may_exist_
    stream,             \* stream_may_be_running_, and whether it ever was
    cleanupFailed,      \* stop_result or dispose_result is an error
    gateOpen,           \* the callback gate admits callbacks
    callback,           \* where each driver thread is
    processing,         \* the atomic_flag
    timeline,           \* AsioBufferTimeline
    events,             \* the fatal event flags of CaptureState
    latenciesChanged,   \* latencies_changed
    done,               \* done
    completedFrames,    \* completed_frames
    playbackWorker,     \* where the playback thread is
    writer,             \* where the writer thread is
    scratch,            \* the temporary recording: who owns it
    failure,            \* failure_
    stopRequested,      \* stop_requested_
    playbackFinished,   \* playback_producer_finished_
    playbackConsumed,   \* playback_consumed_
    recordingFinished,  \* recording_producer_finished_
    writerFinished,     \* writer_finished_
    playQueue,          \* frames in the playback ring
    played,             \* frames the callbacks and the priming took from it
    recQueue,           \* frames in the recording ring
    file,               \* frames in the scratch file
    cancelled,          \* the token
    expired,            \* the deadline of the current wait has passed
    faults              \* the hazards this behaviour met

controlVars == <<exit, thrown, drain, joined, outcome>>
driverVars == <<buffers, stream, cleanupFailed, gateOpen>>
stateVars == <<processing, timeline, events, latenciesChanged, done, completedFrames>>
threadVars == <<callback, playbackWorker, writer, scratch>>
flagVars == <<failure, stopRequested, playbackFinished, playbackConsumed,
              recordingFinished, writerFinished>>
ringVars == <<playQueue, played, recQueue, file>>
worldVars == <<cancelled, expired, faults>>
vars == <<control, controlVars, driverVars, stateVars, threadVars, flagVars, ringVars, worldVars>>

\* What a thread of each kind never writes.
NotByCallbacks == UNCHANGED
    <<control, controlVars, driverVars, playbackWorker, writer, scratch,
      stopRequested, playbackFinished, writerFinished, cancelled, expired>>
NotByPlayback == UNCHANGED
    <<control, controlVars, driverVars, stateVars, callback, writer, scratch, stopRequested,
      playbackConsumed, recordingFinished, writerFinished, recQueue, file, cancelled, expired>>
NotByWriter == UNCHANGED
    <<control, controlVars, driverVars, stateVars, callback, playbackWorker, stopRequested,
      playbackFinished, playbackConsumed, recordingFinished, playQueue, played,
      cancelled, expired>>

PlaybackRing == INSTANCE BoundedFifo
    WITH Capacity <- RingFrames, queue <- playQueue, taken <- played
RecordingRing == INSTANCE BoundedFifo
    WITH Capacity <- RingFrames, queue <- recQueue, taken <- file

Smaller(a, b) == IF a <= b THEN a ELSE b
Larger(a, b) == IF a >= b THEN a ELSE b
Frames(start, n) == [i \in 1..n |-> start + i - 1]

TotalFrames == PadFrames + PlaybackFrames + PadFrames
Requested == Smaller(PlaybackFrames, PrebufferFrames)
Failures == {"playback_underflow", "recording_overflow", "source_failure", "writer_failure"}
Outcomes == Failures \cup {"ok", "cancelled", "timed_out", "backend_failure"}

\* One of the things that may go wrong, goes wrong now.
Hazard(h) ==
    /\ h \in Hazards \ faults /\ Cardinality(faults) < MaxFaults
    /\ faults' = faults \cup {h}
NoHazard == UNCHANGED faults

\* Variant: a plain store, so that the last failure wins.
LastFailure(f) == f
\* The compare-exchange of publish_failure: the first failure stays.
FirstFailure(f) == IF failure = "none" THEN f ELSE failure

ShouldStop == stopRequested \/ failure # "none"
FatalDriverEvent == failure # "none" \/ events # {}

Init ==
    /\ control = "construct"
    /\ exit = "none" /\ thrown = "none" /\ outcome = "none"
    /\ drain = FALSE /\ joined = FALSE
    /\ buffers = FALSE /\ stream = "off" /\ cleanupFailed = FALSE /\ gateOpen = FALSE
    /\ callback = [t \in Callbacks |-> "out"]
    /\ processing = FALSE
    /\ timeline = [output |-> 0, recorded |-> 0, firstInput |-> TRUE]
    /\ events = {} /\ latenciesChanged = FALSE /\ done = FALSE /\ completedFrames = 0
    /\ playbackWorker = "idle" /\ writer = "idle" /\ scratch = "none"
    /\ failure = "none" /\ stopRequested = FALSE
    /\ playbackFinished = FALSE /\ playbackConsumed = FALSE
    /\ recordingFinished = FALSE /\ writerFinished = FALSE
    /\ PlaybackRing!Init /\ RecordingRing!Init
    /\ cancelled = FALSE /\ expired = FALSE /\ faults = {}

-----------------------------------------------------------------------------
(* The timeline and the output block, shared by the priming and the        *)
(* callbacks.                                                              *)

\* The length of the block at a cursor.
RemainingBlock(cursor) == Smaller(Larger(0, TotalFrames - cursor), BufferFrames)

\* How many playback frames lie before a position of the timeline.
PlaybackBefore(position) == Smaller(Larger(0, position - PadFrames), PlaybackFrames)
PlaybackIn(start, n) == PlaybackBefore(start + n) - PlaybackBefore(start)

\* Variant: a short ring gives silence and no failure.
SilentUnderflow ==
    LET block == RemainingBlock(timeline.output)
        overlap == PlaybackIn(timeline.output, block)
    IN /\ timeline' = [timeline EXCEPT !.output = @ + block]
       /\ IF overlap <= Len(playQueue)
          THEN PlaybackRing!Take(overlap) ELSE UNCHANGED <<playQueue, played>>
       /\ playbackConsumed' = (playbackConsumed \/ Len(played') >= PlaybackFrames)
       /\ UNCHANGED failure
\* write_output_buffer: the block that overlaps the playback is taken whole
\* from the ring, or it is silence and an underflow.
WriteOutput ==
    LET block == RemainingBlock(timeline.output)
        overlap == PlaybackIn(timeline.output, block)
    IN /\ timeline' = [timeline EXCEPT !.output = @ + block]
       /\ \/ /\ overlap = 0
             /\ UNCHANGED <<playQueue, played, playbackConsumed, failure>>
          \/ /\ overlap > 0 /\ PlaybackRing!Take(overlap)
             /\ playbackConsumed' = (playbackConsumed \/ Len(played') >= PlaybackFrames)
             /\ UNCHANGED failure
          \/ /\ overlap > Len(playQueue)
             /\ failure' = FirstFailure("playback_underflow")
             /\ UNCHANGED <<playQueue, played, playbackConsumed>>

-----------------------------------------------------------------------------
(* The driver's threads.  A driver that obeys ASIO issues no callback once *)
(* stop returned; the code admits one that does until the gate closes.     *)

CallbackMoves(t, from, to) ==
    callback[t] = from /\ callback' = [callback EXCEPT ![t] = to]

\* bufferSwitch is called and gets past the gate.
Enter(t) ==
    /\ gateOpen /\ stream # "off"
    /\ CallbackMoves(t, "out", "entered")
    /\ NotByCallbacks /\ UNCHANGED <<stateVars, flagVars, ringVars, faults>>

\* Variant: process does not look at the flag it sets.
BeginUnguarded(t) ==
    /\ CallbackMoves(t, "entered", "output")
    /\ processing' = TRUE /\ NoHazard
    /\ NotByCallbacks
    /\ UNCHANGED <<timeline, events, latenciesChanged, done, completedFrames, flagVars, ringVars>>
\* test_and_set, and the two early returns of process.
Begin(t) ==
    /\ \/ /\ processing /\ CallbackMoves(t, "entered", "leaving")
          /\ events' = events \cup {"reentrant"}
          /\ NoHazard /\ UNCHANGED processing
       \/ /\ ~processing /\ CallbackMoves(t, "entered", "output")
          /\ processing' = TRUE
          /\ NoHazard /\ UNCHANGED events
       \/ /\ ~processing /\ CallbackMoves(t, "entered", "finishing")
          /\ processing' = TRUE
          /\ Hazard("index") /\ events' = events \cup {"index"}
    /\ NotByCallbacks
    /\ UNCHANGED <<timeline, latenciesChanged, done, completedFrames, flagVars, ringVars>>

Output(t) ==
    /\ WriteOutput
    /\ \/ CallbackMoves(t, "output", "input") /\ NoHazard
       \/ CallbackMoves(t, "output", "failing") /\ Hazard("conversion")
    /\ NotByCallbacks
    /\ UNCHANGED <<processing, events, latenciesChanged, done, completedFrames,
                   recordingFinished, recQueue, file>>

\* write_exact into the recording ring: the block whole, or an overflow.
RecordBlock(block) ==
    \/ RecordingRing!Put(block) /\ UNCHANGED failure
    \/ /\ Len(block) > RecordingRing!Room
       /\ failure' = FirstFailure("recording_overflow")
       /\ UNCHANGED <<recQueue, file>>

\* next_input_block and read_input_buffer.  The first callback has no input,
\* nor has one past the end; a conversion that fails has moved the timeline.
Input(t) ==
    LET block == RemainingBlock(timeline.recorded)
        hasInput == ~timeline.firstInput /\ block > 0
    IN /\ \/ /\ ~hasInput
             /\ timeline' = [timeline EXCEPT !.firstInput = FALSE]
             /\ CallbackMoves(t, "input", "deciding") /\ NoHazard
             /\ UNCHANGED <<failure, recQueue, file, completedFrames>>
          \/ /\ hasInput
             /\ timeline' = [timeline EXCEPT !.recorded = @ + block]
             /\ RecordBlock(Frames(timeline.recorded, block))
             /\ completedFrames' = timeline'.recorded
             /\ CallbackMoves(t, "input", "deciding") /\ NoHazard
          \/ /\ hasInput
             /\ timeline' = [timeline EXCEPT !.recorded = @ + block]
             /\ CallbackMoves(t, "input", "failing") /\ Hazard("conversion")
             /\ UNCHANGED <<failure, recQueue, file, completedFrames>>
       /\ NotByCallbacks
       /\ UNCHANGED <<processing, events, latenciesChanged, done, playbackConsumed,
                      recordingFinished, playQueue, played>>

RecordingComplete == timeline.recorded >= TotalFrames

\* Whether the capture is over for the callbacks.  Only a complete recording
\* of a consumed playback tells the writer that nothing more will come.
Decide(t) ==
    /\ \/ /\ callback[t] = "failing"
          /\ events' = events \cup {"conversion"}
          /\ callback' = [callback EXCEPT ![t] = "finishing"]
          /\ UNCHANGED <<failure, recordingFinished>>
       \/ /\ callback[t] = "deciding" /\ failure = "none" /\ RecordingComplete
          /\ failure' = IF playbackConsumed THEN failure
                                            ELSE FirstFailure("playback_underflow")
          /\ recordingFinished' = TRUE
          /\ callback' = [callback EXCEPT ![t] = "finishing"]
          /\ UNCHANGED events
       \/ /\ callback[t] = "deciding" /\ (failure # "none" \/ ~RecordingComplete)
          /\ callback' = [callback EXCEPT ![t] =
                 IF failure # "none" \/ "reentrant" \in events THEN "finishing" ELSE "clearing"]
          /\ UNCHANGED <<events, failure, recordingFinished>>
    /\ NotByCallbacks
    /\ UNCHANGED <<processing, timeline, latenciesChanged, done, completedFrames,
                   playbackConsumed, ringVars, faults>>

\* processing.clear
Clear(t) ==
    /\ \/ CallbackMoves(t, "clearing", "leaving")
       \/ CallbackMoves(t, "finishing", "signalling")
    /\ processing' = FALSE
    /\ NotByCallbacks
    /\ UNCHANGED <<timeline, events, latenciesChanged, done, completedFrames, flagVars,
                   ringVars, faults>>

\* done.store(true)
Signal(t) ==
    /\ CallbackMoves(t, "signalling", "leaving")
    /\ done' = TRUE
    /\ NotByCallbacks
    /\ UNCHANGED <<processing, timeline, events, latenciesChanged, completedFrames, flagVars,
                   ringVars, faults>>

Leave(t) ==
    /\ CallbackMoves(t, "leaving", "out")
    /\ NotByCallbacks /\ UNCHANGED <<stateVars, flagVars, ringVars, faults>>

\* sampleRateDidChange and asioMessage, through the gate.
Notify ==
    /\ gateOpen
    /\ \/ Hazard("event") /\ events' = events \cup {"event"} /\ UNCHANGED latenciesChanged
       \/ Hazard("latencies") /\ latenciesChanged' = TRUE /\ UNCHANGED events
    /\ NotByCallbacks
    /\ UNCHANGED <<callback, processing, timeline, done, completedFrames, flagVars, ringVars>>

CallbackStep(t) ==
    Begin(t) \/ Output(t) \/ Input(t) \/ Decide(t) \/ Clear(t) \/ Signal(t) \/ Leave(t)

-----------------------------------------------------------------------------
(* The playback worker, produce_playback and write_playback.               *)

\* The loops look at should_stop before every block they offer.
PlaybackDecides ==
    /\ playbackWorker = "deciding"
    /\ playbackWorker' = IF ShouldStop THEN "exited" ELSE "writing"
    /\ NotByPlayback /\ UNCHANGED <<failure, playbackFinished, playQueue, played, faults>>

\* The ring takes what fits; a full ring puts the worker back to sleep.
PlaybackWrites ==
    LET produced == Len(played) + Len(playQueue)
        n == Smaller(Smaller(PlaybackRing!Room, ChunkFrames), PlaybackFrames - produced)
    IN /\ playbackWorker = "writing"
       /\ PlaybackRing!Put(Frames(produced, n))
       /\ playbackWorker' = IF produced + n = PlaybackFrames THEN "finishing" ELSE "deciding"
       /\ NotByPlayback /\ UNCHANGED <<failure, playbackFinished, faults>>

\* make_reader or read_frames fails, before the block is offered.
SourceFails ==
    /\ playbackWorker = "writing" /\ Hazard("source")
    /\ failure' = FirstFailure("source_failure")
    /\ playbackWorker' = "finishing"
    /\ NotByPlayback /\ UNCHANGED <<playbackFinished, playQueue, played>>

PlaybackFinishes ==
    /\ playbackWorker = "finishing"
    /\ playbackFinished' = TRUE
    /\ playbackWorker' = "exited"
    /\ NotByPlayback /\ UNCHANGED <<failure, playQueue, played, faults>>

PlaybackStep == PlaybackDecides \/ PlaybackWrites \/ SourceFails \/ PlaybackFinishes

-----------------------------------------------------------------------------
(* The recording writer, write_recording.                                  *)

WriterMoves(from, to) == writer = from /\ writer' = to
WriterFails ==
    /\ failure' = FirstFailure("writer_failure")
    /\ writer' = "exited" /\ UNCHANGED <<writerFinished, scratch>>

\* One pass: a block to the file, or on to the flag when the ring is empty.
WriterReads ==
    LET n == Smaller(Len(recQueue), ChunkFrames)
    IN /\ writer = "reading"
       /\ \/ /\ recQueue = <<>>
             /\ WriterMoves("reading", "flag") /\ NoHazard
             /\ UNCHANGED <<recQueue, file, failure, writerFinished, scratch>>
          \/ /\ recQueue # <<>> /\ RecordingRing!Take(n) /\ Len(file') <= TotalFrames
             /\ WriterMoves("reading", "reading") /\ NoHazard
             /\ UNCHANGED <<failure, writerFinished, scratch>>
          \/ /\ recQueue # <<>> /\ RecordingRing!Take(n) /\ Len(file') > TotalFrames
             /\ WriterFails /\ NoHazard
          \/ /\ recQueue # <<>> /\ Hazard("file")
             /\ recQueue' = SubSeq(recQueue, n + 1, Len(recQueue))
             /\ WriterFails /\ UNCHANGED file
       /\ NotByWriter

\* The flag, and should_stop when it is not set.
WriterChecksFlag ==
    /\ \/ recordingFinished /\ WriterMoves("flag", "recheck")
       \/ ~recordingFinished /\ WriterMoves("flag", "stopping")
       \/ WriterMoves("stopping", IF ShouldStop THEN "exited" ELSE "reading")
    /\ NotByWriter /\ UNCHANGED <<failure, writerFinished, scratch, recQueue, file, faults>>

\* The recording's length is checked and the file flushed and closed before
\* writer_finished_ is published.
CloseRecording ==
    \/ /\ Len(file) = TotalFrames /\ NoHazard
       /\ scratch' = "closed" /\ writerFinished' = TRUE /\ writer' = "exited"
       /\ UNCHANGED failure
    \/ Len(file) # TotalFrames /\ WriterFails /\ NoHazard
    \/ Len(file) = TotalFrames /\ Hazard("file") /\ WriterFails

\* Variant: the flag is taken to mean that the ring is empty.
WriterFinishesAtOnce ==
    /\ writer = "recheck"
    /\ CloseRecording
    /\ NotByWriter /\ UNCHANGED <<recQueue, file>>
\* The second look at the ring, after the flag.
WriterFinishes ==
    /\ writer = "recheck"
    /\ \/ /\ recQueue # <<>> /\ WriterMoves("recheck", "reading") /\ NoHazard
          /\ UNCHANGED <<failure, writerFinished, scratch>>
       \/ recQueue = <<>> /\ CloseRecording
    /\ NotByWriter /\ UNCHANGED <<recQueue, file>>

WriterStep == WriterReads \/ WriterChecksFlag \/ WriterFinishes

-----------------------------------------------------------------------------
(* The control thread.  An exception unwinds through the same cleanup as a *)
(* normal exit, never with drain set.                                      *)

Goto(from, to) == control = from /\ control' = to
Throw(from, to, error) == Goto(from, to) /\ thrown' = error
ControlOnly == UNCHANGED <<stateVars, threadVars, flagVars, ringVars>>
\* A step that moves the control thread and changes nothing but thrown.
QuietControl ==
    ControlOnly /\ UNCHANGED <<exit, drain, joined, outcome, driverVars, cancelled, expired>>

\* The AsioStreamWorkers constructor creates the scratch file; start creates
\* the two threads, or stops and joins the one it has.
StartWorkers ==
    /\ scratch' = "open"
    /\ \/ /\ Goto("construct", "prebuffer")
          /\ playbackWorker' = "deciding" /\ writer' = "reading"
          /\ NoHazard /\ UNCHANGED thrown
       \/ /\ Throw("construct", "wake", "backend_failure") /\ Hazard("threads")
          /\ playbackWorker' \in {"deciding", "exited"} /\ writer' = "exited"
    /\ UNCHANGED <<exit, drain, joined, outcome, driverVars, callback, stateVars, flagVars,
                   ringVars, cancelled, expired>>

\* wait_until_playback_ready: the level of the ring, ...
PrebufferLevel ==
    /\ Goto("prebuffer", IF Len(playQueue) >= Requested THEN "create" ELSE "prebuffer_checks")
    /\ QuietControl /\ NoHazard /\ UNCHANGED thrown

\* ... then the token and the failure, ...
PrebufferChecks ==
    /\ \/ /\ cancelled /\ Throw("prebuffer_checks", "wake", "cancelled")
          /\ stopRequested' = TRUE
       \/ /\ ~cancelled /\ failure # "none" /\ Throw("prebuffer_checks", "wake", failure)
          /\ UNCHANGED stopRequested
       \/ /\ ~cancelled /\ failure = "none" /\ Goto("prebuffer_checks", "prebuffer_finished")
          /\ UNCHANGED <<thrown, stopRequested>>
    /\ UNCHANGED <<exit, drain, joined, outcome, driverVars, stateVars, threadVars,
                   failure, playbackFinished, playbackConsumed, recordingFinished,
                   writerFinished, ringVars, worldVars>>

\* ... and last the producer and the clock.  A producer that has finished, or
\* a deadline that has passed, is an underflow; neither the level nor the
\* failure is read again.
PrebufferFinished ==
    /\ \/ /\ playbackFinished \/ expired
          /\ Throw("prebuffer_finished", "wake", "playback_underflow")
          /\ failure' = FirstFailure("playback_underflow")
       \/ /\ ~playbackFinished /\ ~expired
          /\ Goto("prebuffer_finished", "prebuffer")
          /\ UNCHANGED <<thrown, failure>>
    /\ UNCHANGED <<exit, drain, joined, outcome, driverVars, stateVars, threadVars,
                   stopRequested, playbackFinished, playbackConsumed, recordingFinished,
                   writerFinished, ringVars, worldVars>>

\* The guards open the gate and are armed before createBuffers can fail.
Create ==
    /\ gateOpen' = TRUE /\ buffers' = TRUE
    /\ \/ Goto("create", "prime") /\ NoHazard /\ UNCHANGED thrown
       \/ Throw("create", "stop", "backend_failure") /\ Hazard("create")
    /\ ControlOnly
    /\ UNCHANGED <<exit, drain, joined, outcome, stream, cleanupFailed, cancelled, expired>>

\* prime_output, on the control thread and without the processing flag.
Prime ==
    /\ WriteOutput
    /\ \/ Goto("prime", "primed") /\ NoHazard /\ UNCHANGED thrown
       \/ Throw("prime", "stop", "backend_failure") /\ Hazard("conversion")
    /\ UNCHANGED <<exit, drain, joined, outcome, driverVars, processing, events,
                   latenciesChanged, done, completedFrames, threadVars, stopRequested,
                   playbackFinished, recordingFinished, writerFinished, recQueue, file,
                   cancelled, expired>>

Primed ==
    /\ \/ failure # "none" /\ Throw("primed", "stop", failure)
       \/ failure = "none" /\ Goto("primed", "ready") /\ UNCHANGED thrown
    /\ QuietControl /\ NoHazard

\* The first progress call and the last look at the token before the start.
Ready ==
    /\ \/ cancelled /\ Throw("ready", "stop", "cancelled") /\ NoHazard
       \/ ~cancelled /\ Goto("ready", "start") /\ NoHazard /\ UNCHANGED thrown
       \/ Throw("ready", "stop", "backend_failure") /\ Hazard("control")
    /\ QuietControl

\* Callbacks may run while IASIO::start has not returned, and after it failed.
Start ==
    /\ Goto("start", "starting") /\ stream' = "running"
    /\ ControlOnly /\ NoHazard
    /\ UNCHANGED <<controlVars, buffers, cleanupFailed, gateOpen, cancelled, expired>>

Started ==
    /\ \/ /\ Goto("starting", "wait") /\ expired' = FALSE
          /\ NoHazard /\ UNCHANGED thrown
       \/ /\ Throw("starting", "stop", "backend_failure") /\ Hazard("start")
          /\ UNCHANGED expired
    /\ ControlOnly /\ UNCHANGED <<exit, drain, joined, outcome, driverVars, cancelled>>

\* getLatencies may fail when they changed, and the progress call may throw.
WaitThrows ==
    /\ Throw("wait", "stop", "backend_failure")
    /\ \/ latenciesChanged /\ NoHazard
       \/ ~expired /\ Hazard("control")

\* The wait reads the token, the fatal events, done and the clock in this
\* order.  They are one step: each only rises while the wait lasts, and what
\* rises between two reads may as well rise after the last.
Wait ==
    /\ \/ /\ cancelled /\ Goto("wait", "drain") /\ exit' = "cancelled"
          /\ NoHazard /\ UNCHANGED <<thrown, latenciesChanged>>
       \/ /\ ~cancelled /\ (FatalDriverEvent \/ done) /\ Goto("wait", "drain")
          /\ NoHazard /\ UNCHANGED <<exit, thrown, latenciesChanged>>
       \/ /\ ~cancelled /\ ~FatalDriverEvent /\ ~done
          /\ latenciesChanged' = FALSE
          /\ \/ /\ expired /\ Goto("wait", "drain") /\ exit' = "timed_out"
                /\ NoHazard /\ UNCHANGED thrown
             \/ ~expired /\ Goto("wait", "wait") /\ NoHazard /\ UNCHANGED <<exit, thrown>>
             \/ WaitThrows /\ UNCHANGED exit
    /\ UNCHANGED <<drain, joined, outcome, driverVars, processing, timeline, events,
                   done, completedFrames, threadVars, flagVars, ringVars, cancelled, expired>>

\* drain_completed_recording, read after the wait.
DrainDecision ==
    /\ Goto("drain", "stop")
    /\ drain' = (exit = "none" /\ ~FatalDriverEvent /\ done /\ recordingFinished)
    /\ ControlOnly /\ UNCHANGED <<exit, thrown, joined, outcome, driverVars, worldVars>>

-----------------------------------------------------------------------------
(* CaptureResourceGuard::cleanup, in the order of its statements.          *)

Stop ==
    /\ Goto("stop", "close")
    /\ \/ stream = "running" /\ stream' = "stopped" /\ NoHazard /\ UNCHANGED cleanupFailed
       \/ stream = "running" /\ stream' = "stopped" /\ Hazard("cleanup") /\ cleanupFailed' = TRUE
       \/ stream = "off" /\ NoHazard /\ UNCHANGED <<stream, cleanupFailed>>
    /\ ControlOnly /\ UNCHANGED <<controlVars, buffers, gateOpen, cancelled, expired>>

CloseGate ==
    /\ Goto("close", "await_readers") /\ gateOpen' = FALSE
    /\ ControlOnly /\ NoHazard
    /\ UNCHANGED <<controlVars, buffers, stream, cleanupFailed, cancelled, expired>>

\* Variant: the gate is closed and nobody is waited for.
PassReaders ==
    /\ Goto("await_readers", "wake")
    /\ QuietControl /\ NoHazard /\ UNCHANGED thrown
\* deactivate_and_wait returns once every callback inside has left.
AwaitReaders ==
    /\ \A t \in Callbacks : callback[t] = "out"
    /\ Goto("await_readers", "wake")
    /\ QuietControl /\ NoHazard /\ UNCHANGED thrown

\* Variant: the workers are joined without being told to stop.
WakeNobody ==
    /\ Goto("wake", "join_playback") /\ QuietControl /\ NoHazard /\ UNCHANGED thrown
\* A recording that is not drained stops the workers before it joins them.
Wake ==
    /\ Goto("wake", "join_playback") /\ stopRequested' = (stopRequested \/ ~drain)
    /\ UNCHANGED <<controlVars, driverVars, stateVars, threadVars, failure,
                   playbackFinished, playbackConsumed, recordingFinished, writerFinished,
                   ringVars, worldVars>>

JoinPlayback ==
    /\ playbackWorker = "exited" /\ Goto("join_playback", "join_writer")
    /\ QuietControl /\ NoHazard /\ UNCHANGED thrown

JoinWriter ==
    /\ writer = "exited" /\ Goto("join_writer", "dispose") /\ joined' = TRUE
    /\ ControlOnly /\ UNCHANGED <<exit, thrown, drain, outcome, driverVars, worldVars>>

Dispose ==
    /\ Goto("dispose", "verdict") /\ buffers' = FALSE
    /\ \/ NoHazard /\ UNCHANGED cleanupFailed
       \/ buffers /\ Hazard("cleanup") /\ cleanupFailed' = TRUE
    /\ ControlOnly /\ UNCHANGED <<controlVars, stream, gateOpen, cancelled, expired>>

\* Variant: the fatal events are not read again after the cleanup.
VerdictBeforeCleanup ==
    IF thrown # "none" THEN thrown
    ELSE IF exit = "cancelled" \/ cancelled THEN "cancelled"
    ELSE IF exit = "timed_out" THEN "timed_out"
    ELSE IF cleanupFailed \/ completedFrames < TotalFrames THEN "backend_failure"
    ELSE IF ~writerFinished THEN "writer_failure"
    ELSE "ok"
\* What the caller is told: an exception that is under way, then cancellation
\* before a timeout, a timeout before a failure, the first stream failure
\* before a driver event, and a success only if nothing is left to complain of.
Verdict ==
    IF thrown # "none" THEN thrown
    ELSE IF exit = "cancelled" \/ cancelled THEN "cancelled"
    ELSE IF exit = "timed_out" THEN "timed_out"
    ELSE IF failure # "none" THEN failure
    ELSE IF events # {} \/ cleanupFailed \/ completedFrames < TotalFrames
         THEN "backend_failure"
    ELSE IF ~writerFinished THEN "writer_failure"
    ELSE "ok"

\* The asset takes the scratch file over, or the destructor of the workers
\* deletes it.
End ==
    /\ Goto("verdict", "ended")
    /\ \/ outcome' = Verdict /\ NoHazard
       \/ Verdict = "ok" /\ Hazard("control") /\ outcome' = "backend_failure"
    /\ scratch' = IF outcome' = "ok" THEN "transferred" ELSE "deleted"
    /\ UNCHANGED <<exit, thrown, drain, joined, driverVars, callback, stateVars,
                   playbackWorker, writer, flagVars, ringVars, cancelled, expired>>

ControlStep ==
    \/ StartWorkers \/ PrebufferLevel \/ PrebufferChecks \/ PrebufferFinished
    \/ Create \/ Prime \/ Primed \/ Ready \/ Start \/ Started \/ Wait \/ DrainDecision
    \/ Stop \/ CloseGate \/ AwaitReaders \/ Wake \/ JoinPlayback \/ JoinWriter
    \/ Dispose \/ End

-----------------------------------------------------------------------------
(* The world around the capture.                                           *)

Cancel ==
    /\ control # "ended" /\ Hazard("cancel") /\ cancelled' = TRUE
    /\ UNCHANGED <<control, controlVars, driverVars, stateVars, threadVars,
                   flagVars, ringVars, expired>>

\* The deadline of the prebuffer or of the wait passes; nobody else looks.
Expire ==
    /\ control \in {"prebuffer", "prebuffer_checks", "prebuffer_finished", "wait"}
    /\ ~expired /\ expired' = TRUE
    /\ UNCHANGED <<control, controlVars, driverVars, stateVars, threadVars,
                   flagVars, ringVars, cancelled, faults>>

Next ==
    \/ ControlStep \/ PlaybackStep \/ WriterStep
    \/ \E t \in Callbacks : Enter(t) \/ CallbackStep(t)
    \/ Notify \/ Cancel \/ Expire

Spec == Init /\ [][Next]_vars

\* The scheduler runs every thread that can run, a callback that entered
\* returns, and time passes.  The driver need not call back at all.
FairSpec ==
    /\ Spec
    /\ WF_vars(ControlStep) /\ WF_vars(PlaybackStep) /\ WF_vars(WriterStep)
    /\ WF_vars(Expire)
    /\ \A t \in Callbacks : WF_vars(CallbackStep(t))

-----------------------------------------------------------------------------
(* Properties.                                                             *)

\* A success is a whole capture: every playback frame went to the driver, the
\* file holds every frame of the recording once and in order, no failure or
\* driver event was seen, and the caller owns the file.
SuccessIsComplete ==
    outcome = "ok" =>
        /\ played = Frames(0, PlaybackFrames)
        /\ file = Frames(0, TotalFrames)
        /\ failure = "none" /\ events = {}
        /\ scratch = "transferred"

\* As long as no failure was published, both streams are in step with the
\* timeline: the callbacks took exactly the playback frames their blocks
\* cover, and the ring and the file hold exactly the recorded ones.
StreamsInStep ==
    failure = "none" /\ "conversion" \notin faults =>
        /\ played = Frames(0, PlaybackBefore(timeline.output))
        /\ file \o recQueue = Frames(0, timeline.recorded)

\* At most one thread is inside the part of process that touches the scratch
\* vectors, the timeline and the rings, and none is while the control thread
\* primes the first block.
Processing == {t \in Callbacks : callback[t] \notin {"out", "entered", "leaving", "signalling"}}
OneProcessor ==
    /\ Cardinality(Processing) <= 1
    /\ control \in {"prime", "dispose", "verdict", "ended"} => Processing = {}

\* No capture ends with an error nobody caused: each verdict has its cause in
\* the token, the clock, a frame that is missing, or a fault; or the playback
\* is whole in its ring, and its producer finished between the two looks of
\* the prebuffering.
PlaybackShort == Len(played) < PlaybackBefore(timeline.output)
RecordingShort == Len(file) + Len(recQueue) < timeline.recorded
VerdictHasACause ==
    /\ outcome = "cancelled" => cancelled
    /\ outcome = "timed_out" => expired
    /\ outcome = "playback_underflow" =>
          \/ PlaybackShort
          \/ /\ stream = "off"
             /\ expired \/ "source" \in faults \/ Len(playQueue) = PlaybackFrames
    /\ outcome = "recording_overflow" => RecordingShort
    /\ outcome = "source_failure" => "source" \in faults
    /\ outcome = "writer_failure" => faults \cap {"file", "conversion"} # {}
    /\ outcome = "backend_failure" => events # {} \/ faults # {}

\* Once the gate is closed and drained, nobody but the writer touches a ring:
\* no frame leaves the playback ring, none enters the recording ring, and the
\* callbacks' flags stay as the verdict will read them.
AfterBarrier == {"wake", "join_playback", "join_writer", "dispose", "verdict", "ended"}
QuietStep ==
    /\ UNCHANGED <<played, timeline, events, completedFrames, playbackConsumed, recordingFinished>>
    /\ Len(recQueue') <= Len(recQueue)
QuietAfterBarrier == [][(control \in AfterBarrier => QuietStep)]_vars

\* The resources of a capture are taken and given back as CaptureLifecycle
\* says, and the failure that is reported is the first one.
Held ==
    {r \in {"stream", "gate", "callbacks", "workers", "buffers", "scratch"} :
        \/ r = "stream" /\ stream = "running"
        \/ r = "gate" /\ gateOpen
        \/ r = "callbacks" /\ \E t \in Callbacks : callback[t] # "out"
        \/ r = "workers" /\ playbackWorker # "idle" /\ ~joined
        \/ r = "buffers" /\ buffers
        \/ r = "scratch" /\ scratch \in {"open", "closed"}}
Lifecycle == INSTANCE CaptureLifecycle
    WITH held <- Held, cause <- failure, verdict <- outcome
ImplementsLifecycle == Lifecycle!Spec

\* Whatever fails or stays silent, the capture ends: no join waits for a
\* worker that waits for a ring.
Ends == <>(control = "ended")

\* The prebuffer is given up for want of frames only when its deadline passed
\* or the ring really holds fewer frames than were asked for.
PrebufferIsPatient ==
    control = "wake" /\ thrown = "playback_underflow" /\ ~buffers
        => expired \/ Len(playQueue) < Requested
=============================================================================
