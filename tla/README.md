# Capture Panel for Windows: TLA+ models and proofs

Capture Panel plays a WAV through an audio device, records what comes back, aligns the
recording with the source and saves it as a WAV of the source's length. A .NET desktop
program (`src/ui`) starts a native worker process (`src/cli`) for every operation; the
worker runs a capture service (`src/core`) over an audio backend (`src/backends`), of
which the ASIO one drives vendor drivers from their own real-time threads.

This directory holds models of that system in TLA+, the TLC configurations that check
them, and proofs that TLAPS checks. `PROJECT.json` gives, for every definition, the source
lines it stands for; for every property, a plausible bug that breaks it; and the list of
hazards the properties were written for.

Paths below are relative to the repository; `asio/` is `src/backends/asio/src/`, `core/` is
`src/core/src/`.

## 1. The system: components, state, interactions

| Component | Code | State | Operations | What makes it correct |
|---|---|---|---|---|
| Sample ring | `asio/asio_spsc_ring.hpp` | two cursors, a block of storage | `write`, `write_exact`, `read`, `read_exact`, `available_to_read` | the stream arrives in order and whole; no slot is written while it is read; its level is never negative |
| Callback gate | `asio/asio_callback_lifetime.hpp` | one atomic word (closed bit, reader count), an owner, a plain pointer | `try_activate`, `try_acquire`, `~Reader`, `deactivate_and_wait` | a callback never holds a capture that was let go; closing ends |
| ASIO capture | `asio/asio_capture.cpp`, `asio_stream_workers.cpp`, `asio_buffer_timeline.hpp`, `asio_temporary_float_file.cpp` | timeline, flags and events, two rings, first failure, scratch file | `capture`, `process`, notifications, the two worker loops, `cleanup` | a success is a whole recording; resources are given back in order; every failure is told and has a cause; every capture ends |
| ASIO session | `asio/asio_session_gate.hpp`, `asio_driver_session.cpp`, `asio_backend.cpp`, `asio_driver_registry.cpp` | the process-wide lease (a mutex and a thread-local flag); COM, a window and a driver per call | `acquire_asio_session`, `devices`, `device`, `channels`, `set_sample_rate`, the registry's list | one driver at a time; no thread takes the session twice; what a call opened is closed, whatever failed |
| Sample converter | `asio/asio_sample_converter.cpp` | none | conversions between device formats and Float32 | a sample played and recorded keeps its channel, frame and level; a refused call changes nothing |
| Router, fake backend | `src/backends/router`, `src/backends/fake` | a list of backends; a device | dispatch by the prefix or the answer of a backend; a loopback | one id means one backend for every call; the loopback returns the source, late by its latency |
| Capture service | `core/capture.cpp`, `core/.../types.hpp` | token, source identity, the device's rate, recording, output | `capture`, `verify_setup`, `cancel`, `begin_output_commit` | the output changes as a whole or not at all; an accepted cancellation wins; what was taken is given back |
| WAV, streaming, file transaction | `core/wav.cpp`, `core/streaming.cpp`, `src/platform/windows/atomic_file_transaction.cpp` | snapshot of the source, scratch asset, temporary sibling | read, scan, write, promote, delete | one state of the source; sizes below 2^32; the panel's reader agrees with the worker's; the written frames are the aligned ones; no file left behind |
| Alignment, verification, audio, channels | `core/alignment.cpp`, `verification.cpp`, `audio.cpp`, `channels.cpp` | none | marker layout and detection, sweep detection, levels, channel lists | the direct sound is found among echoes and noise; the verdict of a test comes from the right channel |
| Worker protocol | `src/cli/main.cpp`, `src/cli/cli.cpp` | the console token, the stream of events | the parser; `run`, `test`, `devices`, `channels`, ... | nothing but protocol on stdout with `--json`; one closing line, and an exit code that agrees with it |
| Worker client | `src/ui/CapturePanel.App/Services/CaptureWorkerClient.cs`, `WorkerProcessJob.cs` | one gate; per call a process, a job, a pipe | start, read lines, cancel, kill, clean up, release | calls exclude each other; a result is confirmed by the end of its worker; every wait is bounded |
| View model, settings | `ViewModels/MainViewModel.cs`, `Services/AppSettingsStore.cs`, notifications | the selected route and files, the running operation, a staging file, settings on disk | commands, completions, promotion, `Dispose`, load and save | only a validated result is promoted; a late result does not change a newer selection; settings survive a crash |

How they interact. The UI owns the worker process and reads one JSON object per line from
it; it kills the process to cancel. In the worker, one thread runs the service and the
backend's control thread; the console handler calls `cancel()` from another. An ASIO capture
adds a playback worker (producer of the playback ring, consumer of the source), a recording
writer (consumer of the recording ring, producer of the scratch file), and the driver's
callback threads, which consume one ring, produce the other, and may neither block nor
allocate. These threads share the rings, a handful of atomic flags, and the gate; the control
thread polls and is the only one that waits. ASIO passes callbacks no context, so they find
the capture through the gate.

What is hard. Callbacks that arrive before `start` returned, on two threads at once, or after
`stop`; five threads publishing flags whose order decides whether the last block is lost;
first failure against the failures that follow from it; cancellation, timeout, driver event
and worker failure racing for one verdict; joins that wait for workers that wait for rings;
a cancellation racing the promotion of the output; a source edited in the middle; a process
killed at any instant. `PROJECT.json` lists each of these at its line ("hazards").

## 2. The modules

| Module | Models | Read it for |
|---|---|---|
| `SpscRing` | the ring, one atomic operation or one copied value per step | why release and acquire on two cursors are enough |
| `BoundedFifo` | abstract: a queue with a capacity | what a capture may assume of a ring |
| `CallbackGate` | the gate, one atomic operation per step | why a callback cannot outlive its capture |
| `CaptureLifecycle` | abstract: what is held, the first cause, the verdict | the order of tear-down and the meaning of a verdict |
| `AsioCapture` | one capture: control thread, callbacks, both workers, the world | the whole concurrency of the backend |
| `OutputTransaction` | abstract: a decision, a file, an answer | what a capture promises about the output |
| `CaptureService` | one call of the service with its token, source, device and files | cancellation, identity, restoration, commit |
| `ExclusiveCalls` | abstract: callers that wait for a turn and are answered once | what the view model may assume of the client |
| `WorkerClient` | the client's methods, the worker processes and the end of the application | who owns a process, and when a line is a result |
| `MainViewModel` | the window's route, source, verification and lookups, and the one operation | what a late answer, an edited source or a cancellation may still change |
| `DriverSessions` | calls on the router and both backends: lease, registry, COM, window, driver | what is open at the same time, and what is left after a failure |
| `WorkerPipeline` | the data path of a worker: the stages of a capture after the recording, and one call of each other function | what each stage promises the next one |
| `MarkerAlignment`, `SweepVerification` | the two searches in a recording, as operators | which train of impulses wins |
| `WavFormat` | the WAV writer, its reader and the panel's reader | limits of the header, rounding of samples |
| `SampleConverter`, `PayloadReaders`, `FakeLoopback`, `CommandLine` | formats of a driver; readers with short reads; the fake recording; the parser and what is written where | the details those functions get right |
| `SpscRingProofs`, `CallbackGateProofs`, `CaptureServiceProofs`, `WorkerClientProofs`, `DriverSessionsProofs`, `AsioCaptureProofs`, `MainViewModelProofs`, `WorkerPipelineProofs` | theorems and proofs | the inductive invariants |

Composition: `SpscRing` implements `BoundedFifo`, and `AsioCapture` is built from two instances
of `BoundedFifo`; `CallbackGate` shows in detail what `AsioCapture` has as one flag and the set
of threads inside; `AsioCapture` implements `CaptureLifecycle`; `CaptureService` has the
backend's capture as a phase that reads the source and then takes, fails or is cancelled, and
implements `OutputTransaction`; a worker of `WorkerClient` writes its output (`WorkerPublishes`) before its result as
`CaptureService` does, and may be killed at any step of it; `WorkerClient` implements `ExclusiveCalls`,
and `MainViewModel` uses its client as `ExclusiveCalls` promises. `DriverSessions` has a whole capture as one step of the
call that opened the driver: `AsioCapture` is what happens in it, and `WorkerPipeline` what happens to its recording. `WorkerPipeline`
takes `MarkerAlignment`, `SweepVerification`, `PayloadReaders`, `SampleConverter`, `CommandLine` and `FakeLoopback` by `INSTANCE`, and extends `WavFormat`. The `MC*` modules are what TLC runs.

### SpscRing
Each operation is split where another thread may see it in between: `BeginWrite` (the
load of the other end's cursor and the size of the block), `CopyIn` (one value),
`Publish` (the release store), and the same for the reader. `write` offers what fits,
`write_exact` all or nothing. `Observe*` is `available_to_read` on a third thread, which reads
the *read* cursor first; no thread of the program asks while both ends move, so this is a promise of the ring that its users do not need today. Values are positions of a stream, so order, loss and duplication are
all visible. Cursors do not wrap: they are 64 bits wide and count frames.

### CallbackGate
The word is a number, `ClosedBit` plus the count, as in the code, and `ClosedBit` is a
parameter so that TLC can reach the saturated count. `Load`/`Enter`/`EnterRetry` are the
compare-exchange loop with its stale local copy; `SetTarget` and `ClearTarget` access the
plain pointer the word protects. Captures open and close the gate again and again.

### AsioCapture
A frame is its number. `control` names the next statement of the control thread; exceptions
carry `thrown` through the same `cleanup`. A callback is seven steps (`Begin` ...
`Leave`) between which other threads run. The writer's second look at the ring after the flag,
the prebuffer's three reads, `processing` cleared before `done` is set: the orders that matter are
steps of their own. Everything a driver, disk, caller or clock may do is a *hazard*; `Hazards` says
which may happen and `MaxFaults` how many in one behaviour.

Abstractions: sample values, channel layouts and the half index (only its validity) are left out;
one frame is one sample; each ring is a `BoundedFifo`; the wait of the control thread (token, events,
`done`, clock) is one step, because each of these only rises while it waits, so any reading spread over time
equals one at its last read. Opening the driver, reading its channels and creating the session come before
`construct`; they are `DriverSessions`. The asset's construction may throw (`End`).

### CaptureService
`service` names the next step of the thread; a step contains at most one access to what others write
(the token or the source). `mode` chooses `capture` or `verify_setup`, which skips the source's identity and
the output. The source is a number of edits and a format: an edit always changes the size or the time
stamp, which is what the code compares. `Fails` is every validation, driver call, file operation or event handler
that throws before it changed something; calls that may fail *after* an effect (`set_sample_rate`, restoring, deleting)
have that outcome in their own action. `Kill` ends the process at any step: open handles are closed and
nothing else happens. The stages that only read the recording (validation, alignment, verification) are
one action. A token is always passed, as the worker does. Not modelled: gains, events, the numbers of a result.

A cancellation accepted after the last look of `verify_setup` does not keep it from reporting its result: nothing is
committed there, and the model says so (`CancelKeepsOutput` speaks of success in capture mode only).

### WorkerClient
`pc` is the next step of the asynchronous method of a call: it waits for the gate, starts the process, brings it into a job,
reads lines to the end of the stream and of the process, waits for standard error, compares message and exit code, cleans up,
releases. A cancellation may come between any two of these, from another thread; from the registration on it terminates the process.
A process that was terminated is `"dying"` until its system calls come back; one whose termination was refused (`TryTerminate` ignores
that) is `"spared"`. A line is an event, a verdict (`"good"`, `"bad"`: a test that did not pass, `"error"`) or `"noise"`: the
validation of a message (required fields, ranges, protocol) is that one distinction. The exit codes are those of `run_cli` and, for a driver that
ends the process from within, any. `WorkerTalks`, `WorkerPublishes`, `WorkerConcludes` and `WorkerExits` are the worker's program;
`WorkerCrashes` and `WorkerDies` are the world. `AppEnds` ends the application, and the system closes its handles.

Abstractions: after a call returned, its pipe, messages and exit code are forgotten, and a worker nobody reads any more only ends; a
standard error that stays open is one bounded wait that expires; that a query or a capture without a result and a test whose code
contradicts it are a protocol error is found after the gate is released in the code and before it in the model, where nothing else can tell the difference.

### MainViewModel
Everything runs on the dispatcher, so a handler, or a continuation up to its next `await`, is one action. What it waits for is answered by an action of its
own (`LookupAnswered`, `DevicesAnswered`, `SourceRead`, `WorkerSucceeds`, `WorkerFails`), and anything may happen between an answer and the continuation that uses it.
`op` is the operation: a test, a capture, or the modal dialog for the destination, before which `CanCapture` is looked at and after which it is not; `stage` is the
await it is at. The commit gate and the move after it are steps of their own: the lock covers only the gate, and `tests/ui/Program.cs:743` and `:801` put a cancellation between them.
`devices` is the listed drivers that are available. A snapshot is a path, the entry of the directory, and a content, which is `Unhashed` until the source was read whole.
`tested`, `read`, `undeleted` and `outcome` are history.

Abstractions: one channel stands for the playback and the recording channel, and one trim for the output and the input trim (their handlers are alike); a worker of the client may
fail for a reason of its own even when it was cancelled; another program edits only the selected source, once something is verified or an operation runs, since before that an edited source is
just another source. Progress, meters, texts, notifications and the writing of settings are left out; `Settings` is what a start may find.

Three things the model shows and no property forbids, since no document says otherwise: a lookup that was superseded and then *fails* invalidates a newer verification (the handler of line 1329 does not look whether
it is the current one); a source that cannot be read is reported before an accepted cancellation is looked at (line 1390); `RefreshDevicesAsync` (line 731) may start a channel lookup
after `Dispose`, when the list of drivers had already come.

### DriverSessions
`step` is the next step of a thread's call, from `"route"` over the lease and the registry to the driver and back; `at` is the registration the router has reached.
The constructor of a session is three steps (COM, the host window, the driver) and its destructor three more; a failure at any of them goes on with the destructors of what was there. `Reenter` is a callback
of the driver that calls the device layer again on the thread that holds the lease: it is refused, and the outer call goes on. A rate may be refused, taken, or taken and not
told. The fake backend takes no lease, and each of its calls is one step. COM apartments are counted per thread, since `CoInitializeEx` and `CoUninitialize` must pair up; a thread in the multithreaded one is refused.

Abstractions: a driver is the number that orders its id; registry entries of the same CLSID count once; errors other than `device_not_found`, on which the router
goes on to the next backend, are one. Prefixes are those `main.cpp` gives. A fake id is looked up by the ASIO backend first, under its lease; a rate that is not positive is therefore refused by the
ASIO backend, before the fake one that owns the id is asked. `SameBackend` is about answers, not about refusals.

### WorkerPipeline and its operators
A job is an input and the function that gets it. A capture passes `ValidateRecording`, the four stages of `align_payload` (`DetectMarkers`, `TryLatencies`, `SelectTrain`, `CutPayload`), `MakeReader` and one `WriteChunk` for each chunk, in the order of `CaptureService::capture`; its recording is given, or
`RecordLoopback` makes it with the fake device. The other jobs are one call. `WriteFile` writes, then reads the file back; `ConvertSamples` goes to the driver's buffers and back; `InspectFile` lets the worker and the panel read the same file.

* `MarkerAlignment`: detection of impulses in the search range, the table of `best_marker_alignment` cell by cell, the hypotheses of latency, the choices between sequences in their order, warnings.
  A recording is the sequence of its loud runs with their peaks, in thousandths; scores are thousandths of a frame, and a standard deviation is rounded down to a hundredth of a frame.
* `SweepVerification`: best place, ambiguity, timing, the choice of a channel and the verdict. The correlation at each place is an input, since it is a floating-point sum.
* `WavFormat`: validation of a request, the header with 32-bit fields that wrap, the walk over chunks that claim more than the file has, format chunks in both readers, quantising and decoding. `MaxSize` stands for 2^32 - 1 and `MaxAlign` for 2^16 - 1, `MinSourceRate` and `MaxSourceRate` for the limits of 1000 and 768000 Hz.
  The panel has two ways to read: `PanelPicks` for a file that is picked as the source, whose rate `ValidateSourceMetadata` checks, and `PanelReads` for a result. `IsCaptureSource` is what the worker's capture asks of its source.
* `SampleConverter`: every layout `describe_sample_type` knows, in both byte orders, with 4 bits in a byte, so that a 32-bit sample fits TLC's integers.
* `PayloadReaders`: a frame is its index; a read of an asset may return fewer frames than asked.
* `CommandLine`: an argument is a text and the value after its `=`; a value is good or bad for the options that check it. Whatever starts with `--` is an option and no value (`LooksLikeOption`), known or not. What the service answers is an input.
* `FakeLoopback`: one channel, frame by frame, with the source loaded in chunks.

## 3. What is checked

| Run | Module, bounds | Shows |
|---|---|---|
| `ring` | `SpscRing`: 3 slots, calls that ask for up to 4 values, a stream that goes round twice | `NoSlotConflict`, `AvailableNeverNegative`, `ImplementsFifo` |
| `gate` | `CallbackGate`: 3 callbacks against two captures, saturating count, fairness | `NoDanglingReader`, `DeactivationEnds` |
| `asio_faults` | `AsioCapture`: 1 callback thread, 3 playback frames, buffer 2, ring 2, any one of 12 hazards, fairness | `SuccessIsComplete`, `StreamsInStep`, `VerdictHasACause`, `ImplementsLifecycle`, `Ends` |
| `asio_reentrant` | `AsioCapture`: 2 callback threads that may overlap, pads of 1, disk failures | `SuccessIsComplete`, `OneProcessor`, `QuietAfterBarrier` |
| `service` | `CaptureService`: passes of 2 chunks, 2 edits, 2 formats, 3 rates, both modes | `MadeFromOneSource`, `NothingLeftBehind`, `RateIsRestored`, `ImplementsTransaction` |
| `devices` | `DriverSessions`: 2 threads with one call each, 3 ids, 2 drivers or a malformed entry, 3 rates, fairness | `OneDriver`, `SameBackend`, `CallsReturn` |
| `pipeline` | `WorkerPipeline`: every job over the inputs below | the nine invariants below |
| `worker` | `WorkerClient`: 2 calls, tests or captures, a pipe of 1 line, every failure, fairness | `ResultIsTheWorkers`, `OneFreeWorker`, `WorkersAreOwned`, `ImplementsExclusiveCalls`, `CancelledCallEnds` |
| `panel` | `MainViewModel`: 2 drivers, sources, channels and outstanding lookups, 3 commands, 1 edit of a source, a first start or one with everything saved, fairness | `VerifiedIsCurrent`, `OneAudioOperation`, `TemporaryAccounted`, `PromotedAsTested`, `CancelIsFinal`, `PanelUnlocks` |
| `asio_prebuffer`, `worker_overlap`, `late_round_trip` | violated | the findings of section 5 |

The type invariants of `SpscRing`, `CallbackGate`, `CaptureService` and `WorkerClient`, and the simpler invariants of these modules
(`FifoDelivery`, `ReadersCounted`, `OneCapture`, `NoEntryAfterClose`, `CancelKeepsOutput`, `OutputIsWhole`), are proved (section 4); the properties of the runs are
those that are hardest to get right. Deadlock is not checked where the modelled thing ends (a capture or a call that returned, a stream that was delivered).

Why the bounds are enough. *Ring*: a ring of three with calls for up to four values has every way a block can
wrap and a call that asks for more than there is; two rounds reuse every slot. *Gate*: two captures are enough for one to reopen the gate under a
callback that slept through a close, and the count saturates at the bound. *Capture*: with a buffer of two, three frames of playback are a whole block and a cut last one, and with pads of one a first block overlaps the
pad; the playback is longer than its ring, so its producer must wait (one that fits the ring meets the race of section 5, and `asio_prebuffer` shows that); one hazard at every point covers each single failure and
its consequences.
*Service*: an edit can fall between any two looks at the source, twice; two chunks make a pass that mixes
states. *Worker*: two calls are the fewest that compete for the gate; a pipe of one line already makes the writer wait and
lets a line be read before or after the process ended. The proofs remove these bounds for the modules they are about.
*Panel*: three commands are a test, a capture and one more in any order: a selection that makes a lookup stale, a second test, a refresh. Two lookups are the fewest of which one is
superseded; a third selection waits for one of them to end. An edit can fall at any point after the test.
*Devices*: two threads are the fewest that compete for the lease; one of them has entered a COM apartment before, the other not; the ids are one of each backend, the ASIO one spelled loosely, and one that the
fake backend does not have. One call each is enough, since a call leaves only rates behind, and both start in every state those can be in; the proofs have any number of calls.
*Pipeline*: 1000 frames a second put the markers 100 frames apart, the search radius at 600 and the tolerance at 35. Latencies 0, 1, 40 and 99 stay below one interval (`late_round_trip` is about longer ones), echoes come
6 to 160 frames later and weaker or stronger than the direct sound, some of them without one of their markers, and markers are missing at the ends or in the middle; the proofs have every supported rate. Loopback latencies reach the padding and go past the recording; chunks are smaller and larger than
a source. Sizes lie around the limit of the RIFF header with and without a padding byte, rates around the limits of a source (40 and 100 stand for them), of the byte rate and of an `int`. Conversions have every pair of sample types. Command lines have up to four arguments, among them unknown options, empty arguments and options with a value they do not take.

Properties of `WorkerClient`:

* `ResultIsTheWorkers`: a call returns a result only if its worker told it, ended with the code of that result, and, for a capture, wrote the output before.
* `OneFreeWorker`: a second worker is never started beside one that nobody has tried to end. The stronger `OneWorker`, which the documents state, is violated (section 5).
* `WorkersAreOwned`: a worker that runs on has a call in progress. The exceptions are named in it: a worker that was never brought into a job, because
  the isolation failed and its termination was refused, or because the application ended between `Process.Start` and `AssignProcessToJobObject`. Nothing ends the latter.
* `ImplementsExclusiveCalls`: one call at a time, one answer each, no result for a cancelled call.
* `CancelledCallEnds`: a cancelled call comes back, whatever its worker or another call's worker does.

Properties of `MainViewModel`:

* `VerifiedIsCurrent`: a verified setup is the one that passed the test, whatever lookups, refreshes and loads ended since.
* `OneAudioOperation`: no discovery and no live lookup beside an operation. A lookup does not lock the controls; that the channels are cleared until it ended is what keeps a test from starting.
* `PromotedAsTested`: what takes the place of the destination was captured over the tested route, from the tested content, by a worker that read that content, and not onto the source.
* `CancelIsFinal`: after an accepted cancellation the destination is not replaced and nothing is offered for recovery.
* `TemporaryAccounted`: outside a capture no temporary file is left except those whose deletion failed and a validated output that could not be moved, and the recovery path leads to that one.
* `PanelUnlocks`: a refresh and a test end by themselves and a cancelled capture ends.

Properties of `DriverSessions`:

* `OneDriver`: COM, window and driver are there only under the lease, so at most one driver is loaded; a capture keeps its rate; a call that returned left its thread, lease and apartment as it found them.
* `SameBackend`: a device whose channels or rate one backend answered is never recorded by another, although lookups search and captures go by the prefix.
* `CallsReturn`: every call returns, one that waits for the lease and one that a callback makes from within included.

Properties of `WorkerPipeline`:

* `MatchIsOptimal`: the table's pairing is no worse than any other that keeps the order and the tolerance: as many markers, then the least sum of squared residuals, then the highest peaks.
* `DirectTrainWins`: four markers of five heard within ten frames of their time, whichever is missing, and echoes in any number and of any loudness that stay clear of these markers and of the next ones by the tolerance of the search:
  the payload begins where one of the direct markers says. A complete train within the tolerance, and nothing later, is cut out within the tolerance. Section 5 says why the echoes must stay clear of the *next* markers.
* `PayloadIsTheSource`: the file has as many frames as the source, in order, from the place the alignment found; silence only after the end of the recording; the reported trimming is what was recorded. It is refused only when it would start outside the recording, which an
  alignment that was found does not exclude (a late train and a short source).
* `LoopbackIsTheSource`: from the fake device's recording to the file, the source comes back frame by frame, at a supported rate, with a latency below the distance of the markers and markers that can be heard; a source that ended early never becomes a recording.
* `RightChannelCounts`: a setup passes exactly when nothing clipped, there is a signal and some channel has its sweep in time; the channel that counts is at most 0.05 below the strongest.
* `RouteKeepsItsSamples`: to the driver and back, a sample keeps its place and its level within half a step; a refused call changes no buffer.
* `WrittenIsReadable`: what the writer accepts, the reader reads back; no size has wrapped.
* `PanelAgreesWithWorker`: the panel takes a picked file exactly when the worker captures from it: when the worker reads a frame of it at a supported rate. Of a result it takes any rate an `int` holds, as it compares that rate with the source's. What it reads is what the worker reads.
* `StructuredOutput`: with `--json` anywhere on the command line stdout is events and one closing line, stderr is empty, and the exit code agrees. A command line that is not refused gives every option its value, and never takes an option for one.

Properties of `AsioCapture`:

* `SuccessIsComplete`: a success played every frame, recorded every frame once and in order, saw no failure and no driver event, and the caller owns the file.
* `StreamsInStep`: until a failure, callbacks took exactly the playback frames their blocks cover, and ring and file hold exactly the recorded ones.
* `VerdictHasACause`: every error has its cause in the token, the clock, a missing frame or a fault; a writer failure after a failed conversion is let through, and so is an underflow of a playback that fits the ring and became whole between two looks at it (both in section 5).
* `OneProcessor`, `QuietAfterBarrier`: at most one callback processes, and none while the first block is primed; behind the gate's barrier only the writer touches a ring.
* `ImplementsLifecycle`, `Ends`: what was taken is given back in order, the reported failure is the first one, and every capture ends.

Properties of `CaptureService`:

* `MadeFromOneSource`: what is published was scanned, played and described from one state of the source.
* `NothingLeftBehind`: after a return the recording and the incomplete output are gone or their deletion was refused.
* `RateIsRestored`: after a return the device has its old rate, or the driver did not tell or refused it.
* `ImplementsTransaction`: together, as an abstract transaction; a failure may still be told after the replacement (`file_size`, the last event).

### Fairness
`FairSpec` of `AsioCapture` has weak fairness of the control thread, of each worker, of a callback that has
entered, and of the clock. The first three are what an operating system's scheduler gives threads that never block
outside the modelled waits (sleeps are bounded in the code); the clock stands for `steady_clock`
against the deadlines of the two waits. The driver has none: it need not call back. `SpscRing` has no liveness
property. In `CallbackGate` a reader leaves and a closing capture goes on under weak fairness; a callback need never arrive.
Disk and driver calls are assumed to return.
`FairSpec` of `DriverSessions` has weak fairness of each thread's next step, and none of a caller or of a callback that calls from within; drivers and the system are assumed to return. The number of calls is
bounded because `std::mutex` is not fair: with callers that come back for ever, one thread could wait for ever, and the code does not promise otherwise.
`FairSpec` of `WorkerClient` has weak fairness of the client's own steps (the thread pool, and the three-second bounds of the waits), and none of a
worker, a driver, a caller or a cancellation: a worker may hang for ever, and a call that is not cancelled then hangs with it.
`FairSpec` of `MainViewModel` has weak fairness of the dispatcher's continuations, the watchdogs of discovery, lookup and test, reads of files, and the end of a cancelled call, which is `CancelledCallEnds`
of the client. The user has none, and neither has a call that was not cancelled; a capture has no watchdog in the code and is given none.

## 4. What is proved

All theorems hold for every value of the constants under the modules' named assumptions.

* **Ring** (`SpscRingProofs`; capacity, block length and stream arbitrary). `RingInvariant`: the
  cursors are ordered and at most a capacity apart, local copies lag behind the cursors they copy, and every slot between
  the cursors holds the value of its position. The last part needs the first two, and is what makes `FifoDelivery`
  inductive: without it, the delivered stream says nothing about the storage. From it: `RingTypeOK`,
  `RingFifoDelivery`, `RingAvailable`, `RingNoSlotConflict`, and the refinement `RingImplementsFifo`.
* **Gate** (`CallbackGateProofs`; any finite set of callbacks, any captures, any limit above 1). `GateInvariant`:
  the count is the cardinality of the readers inside, the word is open only while its capture is active, and every reader's target
  is the owner's. From it: types, `GateNoDanglingReader`, `GateReadersCounted`, `GateOneCapture`, `GateNoEntryAfterClose`.
* **Service** (`CaptureServiceProofs`; any formats and rates, any number of chunks and edits). `CallInvariant` has five
  parts: where the thread may be, the token, the files, the source, the rate. `TokenInv` says that from the
  commit on the token is `output_committing` and stays; `SourceInv` says that edits count up from the snapshot and that
  whatever was read is of the snapshot *or* the source has moved on, so that one successful comparison at the end clears all
  earlier reads. From it: types, `CancelKeepsOutput` (an accepted cancellation keeps the old output), `OutputIsWhole` (it is the previous or a complete file at every moment, also after a kill), the three invariants above and `CallImplementsTransaction`, step by step with the mapping of `Decision`.

* **Worker client** (`WorkerClientProofs`; any set of calls, any kinds, any pipe). `WorkerInvariant` adds three parts to the checked
  properties. `GateInv`: a permit is there only when nobody holds the gate, and two holders are the same call. `OwnerInv`: where a call is while its process
  runs, and which processes are in a job; `OneFreeWorker` and `WorkersAreOwned` follow from these two. `StoryInv`: every deciding line in the pipe or read is what
  the worker concluded with, so that the message, the exit code and the file speak of the same end; `ResultIsTheWorkers` is inductive only with it. The refinement
  `WorkerImplementsExclusiveCalls` maps the holder of the gate to the abstract holder; every answer is one abstract step because `StoryInv` says it is the first.

* **Sessions** (`DriverSessionsProofs`; any threads, drivers, registries, ids, rates, apartments and number of calls). `SessionInv` says where in its call a thread may have COM, a window, a driver and
  the lease, and that the thread-local flag and the mutex say the same; the lease is the only part that relates two threads, and `OneDriver` follows from it. For `SameBackend` the invariant adds that what the router has
  passed over did not own the id, and that the registration it stopped at has the prefix of the id: two threads that were answered about one id stopped at the same place.
* **Capture** (`AsioCaptureProofs`; any pads, playback, buffer, ring, prebuffer and chunk lengths, any driver threads, any number of faults). `CaptureInvariant` has four parts.
  `AdmissionInv`: callbacks come in after the start and through the gate, all are out behind the barrier, and whoever is in the guarded part has set the flag; from it `OneProcessor` and, with the rest, `QuietAfterBarrier`.
  `HoldingInv`: what is held at each place of the control thread, on which the refinement `CaptureImplementsLifecycle` rests. `StreamInv`: played and queued frames are two consecutive runs *whatever* failed; a block is
  played before it is recorded, also while a callback is between the two; and without a failure both streams are where the timeline is (`StreamsInStep`). It needs lemmas about runs of frames: joined, cut and moved from a queue to what was taken.
  `SuccessInv`: the counted frames are recorded ones, a failed conversion is never forgotten (it is in `thrown`, in `events` or in a callback that is about to say so), and the writer finishes only with a whole file. `CaptureSuccessIsComplete`
  combines the four: at a success all callbacks are out, so no conversion failed, so the streams are in step, and the count puts the timeline at its end.
  `CaptureVerdictHasACause` needs five more, each about who remembers what (`CauseInv`). `ControlInv`: a wait that ended on its own saw a failure, an event or `done`; `done` stands for a complete recording; only that is drained, by a writer nobody
  told to stop, so a writer that did not finish has a failure to show. `FaultsInv`: each error that is thrown or published has its fault. `CountsInv`: frames in the file and the ring never outnumber the recorded ones, fall behind only with a failure, and never catch up.
  `ShortInv`: the same for the playback and the timeline, and a prebuffering that was given up left stream and ring as they are. `OutcomeInv`: nothing the verdict was read from changes afterwards.
* **Panel** (`MainViewModelProofs`; any drivers, channels, sources, levels, saved settings, outstanding lookups, edits and commands). `PanelInvariant` has, beside the types, seven parts.
  `StageInv` says where an operation may be with which token and gate; `LookupInv`, `LoadInv` and `AloneInv` say that only the current lookup has not been cancelled, that no channel can be selected while
  it is under way, and that neither a refresh nor the load of the saved source is still to come where an operation can start: from them `PanelOneAudioOperation`, and that nothing replaces the route or the source behind an operation.
  `FilesInv` follows the files of a capture (`PanelTemporaryAccounted`). `VerifiedInv` says that what is selected passed the test, also where the flag is lowered: during the dialog and the capture (`PanelVerifiedIsCurrent`).
  `ReadingInv` orders what was read of the source by the edits of the file: the request, then what the worker read, then the check before promotion. The first and the last are compared and equal,
  so the one in between is equal too, although nobody compares it: `PanelPromotedAsTested`. `PanelCancelIsFinal` needs only that a move under way has a live token.
* **Pipeline** (`WorkerPipelineProofs`; any recordings, pairings, channels, sizes, samples, files and command lines of the types in `InputsAssumption`). Every property of an answer is an invariant because the
  inputs stay given (`InputsInv`), an answer is what its function computes (`AnswersInv`), and a payload is what the chunks before it left (`PayloadInv`): the work is in what the functions compute.
  `InputsAssumption` gives the types of the inputs and what the code guarantees of them: the runs of a recording are ordered and maximal, and a backend whose capture succeeded has read the whole source (the loopback that reads less fails).
  The loops are functions on numbers and folds, and what they compute for *every* length is proved by induction over a set of numbers (`SetInduction`: a set with 0 that is closed under successors, from the least element of its complement),
  which takes no operator as a parameter, and by `Iterates`, which says of a fold what its step does.
  *Format*: `AcceptedSizesFit` (no size in an accepted header wraps), `FormatsAgree` (the two readers' checks, in two languages, are equivalent), `SampleComesBack` (half a step or saturated); from these and from the search through the
  chunks of a file `WrittenFilesAreReadable` and `PanelAndWorkerAgree`, for which `PickedIsCaptured` compares the two checks of the rate (`RatesAssumption`: the highest rate of a source fits an `int`).
  *Pairing*: `PairingIsOptimal` says that no order-preserving pairing within the tolerance beats the one in the last cell of the table. A pairing of the first e markers and c candidates does not use the last marker, or uses it before the last
  candidate, or pairs the two; cutting it down gives a pairing of a smaller cell, what was cut adds the same to both sides, and the order of worths is transitive (`BestCellIsBest`). Rows and then the table follow by induction (`NextRowIsBest`, `PairingIsBest`).
  *Payload*: `PayloadIsComplete` follows the readers' short reads: after every chunk the file is a run of the recording from the start of the payload, followed by silence only where the recording ended (`AfterChunk`).
  *Conversion*: `RouteIsTransparent`. A level is quantized to a step of its scale (`LevelIsQuantized`), the digits of an integer are read as its remainder for their number (`DigitsAreRead`), extending the sign undoes that (`SignIsExtended`), and
  an order of bytes is its own inverse (`OrderedTwice`): so one sample comes back (`SampleIsKept`). The frame and the channel of a sample, and the frame of a byte, are found again by division (`PlaceOfSample`, `PlaceOfByte`), so it is heard where it was sent (`SampleArrives`).
  *Alignment*: `DirectSoundIsFound`. The range that is searched holds every marker of the hypothesis (`RangeIsWide`), and the runs heard in it are the early ones above the threshold. A train that is steady within ten frames, or exact, is one of the
  hypotheses that are tried, for the latency of its own marker; the pairing found there is no worse than the train itself (`PairingIsBest`), so four markers or more are paired, the deviation and the residuals are small, and it is strong direct evidence
  (`SteadyTrain`, `ExactTrain`). Conversely whatever is strong direct evidence and no later than that within the tolerance has a median that is the delay of a direct run, since the echoes stay clear (`SteadyIsChosen`, `ExactIsChosen`). Two invariants carry the answer from stage to stage:
  `JobsInv`, where a job comes from (a capture's recording is a given one or that of a tape that did not fail), and `TrainInv`, what has been heard, tried and chosen when `CutPayload` reads it.
  *Loopback*: `LoopbackKeepsTheSource`. Whatever the chunks, the buffer holds the frames it claims (`ChunkHolds`), so they are played in order (`PlayedInOrder`), and what is drained at the end is the rest of the source or its failure (`RestIsRead`). The recording is then the markers and the source
  at their places (`TapeIsPlayed`, `RecordingIsOne`): an exact train, which the alignment finds, and `PayloadIsTheSource` cuts out the frames behind it (`RecordingIsAligned`, `RecordingIsCutOut`).
  *Verdict*: `VerdictIsOfTheRightChannel`, by induction over the channels. *Command line*: `OutputIsStructured`, over the sequence of arguments and of what is written. That an option is served or the command line refused is an induction over the turns of the loop (`OptionsAreServed`): what is skipped next is the value of the option just met (`IsParsing`, `AfterOneArgument`).
  The provers do not look into a string, so `OptionsAssumption` states that the options with a value start with `--`; TLC evaluates it.

Only model-checked: `DeactivationEnds`, `Ends`, `CallsReturn`, `CancelledCallEnds` and `PanelUnlocks` (liveness under fairness is outside what the prover does); the three violations. Every invariant that a passing run checks is proved.

## 5. Disagreements found

1. `asio_stream_workers.cpp:156` and `:181`. `wait_until_playback_ready` reads the ring's level, later the
   producer-finished flag, and does not read the level again. A playback that fits the ring can be written whole, and
   its producer finish, in between: the capture fails with a playback underflow though the ring holds all that was asked for.
   Run `asio_prebuffer`; `asio_stream_workers_tests.cpp:39` relies on the opposite. The proof of `CaptureVerdictHasACause` shows that it is the only underflow without a missing frame, a deadline that passed or a source that failed.
   A source failure published between the same reads is reported as a playback underflow too, although `failure()` keeps the right cause.

2. `CaptureWorkerClient.cs:226`, `:301`, `:165`. The outcome of the bounded wait for a terminated worker is discarded and the gate released: the next call starts a
   worker while the old one, in a driver call that does not come back, still has the device. `WINDOWS_ARCHITECTURE.md:133` says that only one worker runs per
   client, and `tests/ui/Program.cs:1188` that native worker processes never overlap. Run `worker_overlap`. A client that waits for ever would be worse; what holds is `OneFreeWorker`.

3. `alignment.cpp:352`, `:622`-`:651`. The markers are one interval (0.1 s) apart, so a complete train that is one interval or more late also fits the latency that is one interval shorter, with four markers of five;
   four of five count as strong direct evidence, and the earliest strong train wins. A clean recording with a round trip between 0.1 s and the 0.6 s of the search radius is cut out 0.1 s too early. `README.md:26`
   promises a WAV aligned to the beginning of the source, `tests/alignment_tests.cpp:261` the median latency of the markers. Run `late_round_trip`; below one interval `DirectTrainWins` holds.

The first does not publish a wrong capture: `SuccessIsComplete` holds in the same model. The third does.

The proof of `DirectSoundIsFound` met a limit of the third's neighbourhood that has no run of its own. An echo 65 to 99 ms late comes within the tolerance of 35 ms before the next marker. If that marker was lost, `make_marker_sequence` pairs the echo in its place, because
more pairs come first (`alignment.cpp:137`, `:228`); the direct hypothesis then deviates too much to be strong direct evidence, the complete echo wins, and the payload is cut out too late by the echo's delay. `alignment.cpp:623` says that a later train must not win because a marker was noise-gated;
`tests/alignment_tests.cpp:169` tests an echo of 50 ms with marker 0 or 2 lost, where the promise holds. `DirectTrainWins` has the echoes stay clear of the next markers for that reason; without the premise TLC shows the counterexample for each lost marker but the first.

One thing the capture model shows that no document forbids: after a failed conversion (`asio_capture.cpp:384`) the driver's next callback can complete the timeline with a block missing and mark the recording
finished; the writer then reports a disk failure that no file operation had, and it is told in preference to the conversion. The capture fails either way, and `VerdictHasACause` names the exception.

## 6. Not modelled, and the plan

Next, in this order:

1. The settings store: load, save, the damaged or missing file, a crash between the temporary file and the replacement, two savers.
2. The events of a capture: the throttled progress of the backend and of the service, and what the panel shows of them.

Left out, and why:

* Floating-point sums (levels, the correlation of the sweep, peaks of markers) are inputs of the models: what the code decides from them is modelled, how they round is not.
* `audio.cpp` and `channels.cpp` are single expressions (decibels to gain, a list of numbers); a unit test reaches all of them. Their refusals are the bad values of `CommandLine`.
* Progress and cancellation of the fake device's recording; the argument checks of the asset factories.
* Formatting of text and JSON, WPF layout, themes, notifications; build scripts; the vendored ASIO SDK headers. C# sources are modelled where they own processes, files or state.
