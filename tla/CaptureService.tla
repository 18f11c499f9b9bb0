--------------------------- MODULE CaptureService ---------------------------
(***************************************************************************)
(* One call of CaptureService::capture or verify_setup (capture.cpp): the  *)
(* thread that runs it, the threads that cancel its token, the programs    *)
(* that edit the source meanwhile, and the operator of the process, who    *)
(* may kill it.  write_wav (wav.cpp) and AtomicFileTransaction are part of *)
(* the call; the backend's capture is one step here that takes, fails or   *)
(* is cancelled (AsioCapture models it).                                   *)
(*                                                                         *)
(* `service` names what the thread does next.  Between two steps lies at   *)
(* most one access to something others write: the token or the source.     *)
(***************************************************************************)
EXTENDS Integers

CONSTANTS
    Shapes,      \* the formats a source file may have
    Rates,       \* sample rates of the device
    SourceRate,  \* the rate the call asks for
    Chunks,      \* chunks in a pass over the source, and in the output
    MaxEdits     \* how often the source is edited at most

ASSUME ConstantsAssumption ==
    SourceRate \in Rates /\ Chunks \in Nat \ {0} /\ MaxEdits \in Nat
ASSUME MarksAssumption ==
    "unread" \notin Shapes /\ {"unread", "unreadable"} \cap Rates = {}

VARIABLES
    mode,       \* "capture" or "verify"
    service,    \* what the thread does next
    thrown,     \* the exception that unwinds the call
    outcome,    \* how the call ended
    token,      \* CancellationToken::state_
    source,     \* the source file now: its last edit, and its format
    format,     \* the format the call read
    snapshot,   \* SourceFileSnapshot
    heard,      \* the states of the source from which audio was read
    chunk,      \* chunks done of the current pass
    rate,       \* the device's sample rate
    original,   \* the rate validate_route read
    guarded,    \* the SampleRateRestore exists and has not restored yet
    scratch,    \* the temporary recording exists
    stream,     \* the output stream is open
    temporary,  \* the sibling of the output: "none", "partial", "complete"
    output,     \* the output file: "previous", "complete", "torn"
    refused     \* the clean-up calls the world refused

callVars == <<mode, thrown, outcome>>
sourceVars == <<format, snapshot, heard>>
deviceVars == <<rate, original, guarded>>
fileVars == <<scratch, stream, temporary, output>>
vars == <<callVars, service, token, source, sourceVars, chunk, deviceVars, fileVars, refused>>

Sources == [edit : 0 .. MaxEdits, shape : Shapes]
NoSource == [edit |-> -1, shape |-> "unread"]
Steps ==
    {"begin", "describe", "identify", "scan", "scanning", "scanned", "loaded", "route",
     "routed", "configure", "set_rate", "plan", "planned", "record", "recording", "played",
     "caught", "restore", "restored", "recheck", "validate", "align", "present", "finally",
     "evaluate", "reserve", "open", "writing", "commit", "promote", "promoted"}
Ended == {"done", "killed"}

Init ==
    /\ mode \in {"capture", "verify"}
    /\ service = "begin" /\ thrown = "none" /\ outcome = "none"
    /\ token = "active"
    /\ source \in {s \in Sources : s.edit = 0}
    /\ format = "unread" /\ snapshot = NoSource /\ heard = {} /\ chunk = 0
    /\ rate \in Rates /\ original = "unread" /\ guarded = FALSE
    /\ scratch = FALSE /\ stream = "closed" /\ temporary = "none" /\ output = "previous"
    /\ refused = {}

-----------------------------------------------------------------------------
(* Errors.  An exception inside the backend's capture is caught first.     *)

InBackend == {"record", "recording", "played"}
Throw(error) ==
    IF service \in InBackend
    THEN service' = "caught" /\ UNCHANGED thrown
    ELSE service' = "unwinding" /\ thrown' = error

\* A validation, driver call, file operation or event handler that throws
\* before it changed anything.
MayFail == Steps \ {"loaded", "caught", "restore", "restored", "commit"}
Fails ==
    /\ service \in MayFail
    /\ Throw("failed")
    /\ UNCHANGED <<mode, outcome, token, source, sourceVars, chunk, deviceVars, fileVars, refused>>

-----------------------------------------------------------------------------
(* The token.                                                              *)

\* throw_if_cancelled, and the step it guards.
AfterCheck ==
    [begin     |-> IF mode = "capture" THEN "describe" ELSE "route",
     loaded    |-> "route",
     routed    |-> "configure",
     configure |-> "set_rate",
     restored  |-> IF mode = "capture" THEN "recheck" ELSE "validate",
     present   |-> IF mode = "capture" THEN "finally" ELSE "evaluate"]
ThrowIfCancelled ==
    /\ service \in DOMAIN AfterCheck
    /\ service = "routed" => mode = "verify"
    /\ IF token = "cancelled"
       THEN service' = "unwinding" /\ thrown' = "cancelled"
       ELSE service' = AfterCheck[service] /\ UNCHANGED thrown
    /\ UNCHANGED <<mode, outcome, token, source, sourceVars, chunk, deviceVars, fileVars, refused>>

\* A failure of the backend gives way to a cancellation.
CatchBackend ==
    /\ service = "caught"
    /\ service' = "unwinding"
    /\ thrown' = IF token = "cancelled" THEN "cancelled" ELSE "failed"
    /\ UNCHANGED <<mode, outcome, token, source, sourceVars, chunk, deviceVars, fileVars, refused>>

\* The loops that read or write chunks, the alignment and the backend look at
\* the token in between.
Polling == {"scanning", "validate", "align", "writing"} \cup InBackend
PollCancellation ==
    /\ service \in Polling /\ token = "cancelled"
    /\ Throw("cancelled")
    /\ UNCHANGED <<mode, outcome, token, source, sourceVars, chunk, deviceVars, fileVars, refused>>

\* One compare-exchange decides between the output and a cancellation.
BeginOutputCommit ==
    /\ service = "commit"
    /\ IF token # "cancelled"
       THEN service' = "promote" /\ token' = "output_committing" /\ UNCHANGED thrown
       ELSE service' = "unwinding" /\ thrown' = "cancelled" /\ UNCHANGED token
    /\ UNCHANGED <<mode, outcome, source, sourceVars, chunk, deviceVars, fileVars, refused>>

-----------------------------------------------------------------------------
(* The source.                                                             *)

\* Variant: a reader trusts the format it was given.
SameSnapshotOnly == source = snapshot
\* What a reader compares before it reads: the snapshot, and the format.
SourceAsExpected == source = snapshot /\ source.shape = format

ReadFormat ==
    /\ service = "describe" /\ service' = "identify"
    /\ format' = source.shape
    /\ UNCHANGED <<callVars, token, source, snapshot, heard, chunk, deviceVars, fileVars, refused>>

TakeSnapshot ==
    /\ service = "identify" /\ service' = "scan"
    /\ snapshot' = source
    /\ UNCHANGED <<callVars, token, source, format, heard, chunk, deviceVars, fileVars, refused>>

\* validate_identity
AfterIdentity ==
    [scanned |-> "loaded", routed |-> "configure", planned |-> "record",
     recheck |-> "validate", finally |-> "reserve"]
ValidateIdentity ==
    /\ mode = "capture" /\ service \in DOMAIN AfterIdentity
    /\ IF source = snapshot
       THEN service' = AfterIdentity[service] /\ UNCHANGED thrown
       ELSE service' = "unwinding" /\ thrown' = "failed"
    /\ UNCHANGED <<mode, outcome, token, source, sourceVars, chunk, deviceVars, fileVars, refused>>

\* A pass over the source: the peak scan, and the playback inside the backend.
\* The verification signal is in memory.
OpenSource ==
    /\ service \in {"scan", "record"}
    /\ mode = "capture" => SourceAsExpected
    /\ service' = IF service = "scan" THEN "scanning" ELSE "recording"
    /\ chunk' = 0
    /\ UNCHANGED <<callVars, token, source, sourceVars, deviceVars, fileVars, refused>>

ReadSource ==
    /\ service \in {"scanning", "recording"} /\ chunk < Chunks
    /\ service = "scanning" => token # "cancelled"
    /\ chunk' = chunk + 1
    /\ heard' = IF mode = "capture" THEN heard \cup {source} ELSE heard
    /\ UNCHANGED <<callVars, service, token, source, format, snapshot, deviceVars, fileVars, refused>>

\* The last chunk ends with another look at the snapshot.
EndOfSource ==
    /\ service \in {"scanning", "recording"} /\ chunk = Chunks
    /\ mode = "capture" => source = snapshot
    /\ service' = IF service = "scanning" THEN "scanned" ELSE "played"
    /\ UNCHANGED <<callVars, token, source, sourceVars, chunk, deviceVars, fileVars, refused>>

-----------------------------------------------------------------------------
(* The device.                                                             *)

\* validate_route; some drivers do not tell their rate.
ValidateRoute ==
    /\ service = "route" /\ service' = "routed"
    /\ original' \in {rate, "unreadable"}
    /\ UNCHANGED <<callVars, token, source, sourceVars, chunk, rate, guarded, fileVars, refused>>

ShouldRestore == original \in Rates \ {SourceRate}

\* Variant: the guard is made once the rate was set.
GuardAfterSetting ==
    /\ service = "set_rate"
    /\ \/ Throw("failed") /\ rate' \in (IF rate = SourceRate THEN {rate} ELSE Rates)
          /\ guarded' = FALSE
       \/ service' = "plan" /\ rate' = SourceRate /\ UNCHANGED thrown /\ guarded' = ShouldRestore
    /\ UNCHANGED <<mode, outcome, token, source, sourceVars, chunk, original, fileVars, refused>>
\* The guard exists before the rate is set.  A driver may fail after it took
\* the new rate, or take another one, which reading it back shows.
SetSampleRate ==
    /\ service = "set_rate"
    /\ guarded' = ShouldRestore
    /\ \/ Throw("failed") /\ rate' \in (IF rate = SourceRate THEN {rate} ELSE Rates)
       \/ service' = "plan" /\ rate' = SourceRate /\ UNCHANGED thrown
    /\ UNCHANGED <<mode, outcome, token, source, sourceVars, chunk, original, fileVars, refused>>

MakePlan ==
    /\ service = "plan"
    /\ service' = IF mode = "capture" THEN "planned" ELSE "record"
    /\ UNCHANGED <<callVars, token, source, sourceVars, chunk, deviceVars, fileVars, refused>>

\* The backend returns the recording as an asset that owns its file.
BackendReturns ==
    /\ service = "played" /\ service' = "restore"
    /\ scratch' = TRUE
    /\ UNCHANGED <<callVars, token, source, sourceVars, chunk, deviceVars, stream, temporary,
                   output, refused>>

\* SampleRateRestore::restore tries once; a refusal is not an error.
RestoreRate ==
    /\ guarded' = FALSE
    /\ IF guarded
       THEN \/ rate' = original /\ UNCHANGED refused
            \/ rate' \in Rates /\ refused' = refused \cup {"rate"}
       ELSE UNCHANGED <<rate, refused>>
Restore ==
    /\ service = "restore" /\ service' = "restored"
    /\ RestoreRate
    /\ UNCHANGED <<callVars, token, source, sourceVars, chunk, original, fileVars>>

-----------------------------------------------------------------------------
(* The recording and the output.                                           *)

\* Validation of the recording, alignment, and verification: the recording is
\* read and nothing else is touched.
AfterAnalysis == [validate |-> "align", align |-> "present", evaluate |-> "unwinding"]
Analyse ==
    /\ service \in DOMAIN AfterAnalysis
    /\ service = "align" => token # "cancelled"
    /\ service' = AfterAnalysis[service]
    /\ UNCHANGED <<callVars, token, source, sourceVars, chunk, deviceVars, fileVars, refused>>

\* begin_atomic_write
ReserveTemporary ==
    /\ service = "reserve" /\ service' = "open"
    /\ temporary' = "partial"
    /\ UNCHANGED <<callVars, token, source, sourceVars, chunk, deviceVars, scratch, stream,
                   output, refused>>

OpenStream ==
    /\ service = "open" /\ service' = "writing"
    /\ stream' = "open" /\ chunk' = 0
    /\ UNCHANGED <<callVars, token, source, sourceVars, deviceVars, scratch, temporary,
                   output, refused>>

WriteChunk ==
    /\ service = "writing" /\ chunk < Chunks /\ token # "cancelled"
    /\ chunk' = chunk + 1
    /\ UNCHANGED <<callVars, service, token, source, sourceVars, deviceVars, fileVars, refused>>

\* flush and close succeed; when they do not, Fails stands for it.
CloseStream ==
    /\ service = "writing" /\ chunk = Chunks
    /\ service' = "commit" /\ stream' = "closed"
    /\ temporary' = "complete"
    /\ UNCHANGED <<callVars, token, source, sourceVars, chunk, deviceVars, scratch, output, refused>>

\* promote_to: the temporary file becomes the output.
Promote ==
    /\ service = "promote" /\ service' = "promoted"
    /\ output' = IF temporary = "complete" THEN "complete" ELSE "torn"
    /\ temporary' = "none"
    /\ UNCHANGED <<callVars, token, source, sourceVars, chunk, deviceVars, scratch, stream, refused>>

\* The size is looked up and the last event told.
Report ==
    /\ service = "promoted" /\ service' = "unwinding"
    /\ UNCHANGED <<callVars, token, source, sourceVars, chunk, deviceVars, fileVars, refused>>

-----------------------------------------------------------------------------
(* Leaving, by an exception or not: destructors in their order.            *)

\* Variant: the stream outlives the transaction.
LeaveStreamOpen ==
    /\ service = "unwinding" /\ service' = "drop_temporary"
    /\ UNCHANGED <<callVars, token, source, sourceVars, chunk, deviceVars, fileVars, refused>>
CloseOnExit ==
    /\ service = "unwinding" /\ service' = "drop_temporary"
    /\ stream' = "closed"
    /\ UNCHANGED <<callVars, token, source, sourceVars, chunk, deviceVars, scratch, temporary,
                   output, refused>>

\* ~AtomicFileTransaction, when the file was not promoted.  A file this process
\* has open is not deleted; another program may hold it too.
DropTemporary ==
    /\ service = "drop_temporary" /\ service' = "drop_scratch"
    /\ \/ temporary = "none" /\ UNCHANGED <<temporary, refused>>
       \/ temporary # "none" /\ stream = "closed" /\ temporary' = "none" /\ UNCHANGED refused
       \/ temporary # "none" /\ stream = "open" /\ UNCHANGED <<temporary, refused>>
       \/ temporary # "none" /\ UNCHANGED temporary /\ refused' = refused \cup {"temporary"}
    /\ UNCHANGED <<callVars, token, source, sourceVars, chunk, deviceVars, scratch, stream, output>>

\* The last owner of the recording deletes its file.
DropScratch ==
    /\ service = "drop_scratch" /\ service' = "undo_rate"
    /\ \/ scratch' = FALSE /\ UNCHANGED refused
       \/ scratch /\ UNCHANGED scratch /\ refused' = refused \cup {"scratch"}
    /\ UNCHANGED <<callVars, token, source, sourceVars, chunk, deviceVars, stream, temporary, output>>

\* ~SampleRateRestore, and the caller gets the result or the exception.
Return ==
    /\ service = "undo_rate" /\ service' = "done"
    /\ RestoreRate
    /\ outcome' = IF thrown = "none" THEN "ok" ELSE thrown
    /\ UNCHANGED <<mode, thrown, token, source, sourceVars, chunk, original, fileVars>>

-----------------------------------------------------------------------------
(* The others.                                                             *)

\* Variant: a plain store.
CancelAlways ==
    /\ service \notin Ended
    /\ token' = "cancelled"
    /\ UNCHANGED <<callVars, service, source, sourceVars, chunk, deviceVars, fileVars, refused>>
\* cancel() answers TRUE when it takes this step and FALSE when it cannot.
Cancel ==
    /\ service \notin Ended
    /\ token = "active" /\ token' = "cancelled"
    /\ UNCHANGED <<callVars, service, source, sourceVars, chunk, deviceVars, fileVars, refused>>

\* Another program writes the source; its size or its time changes.
EditSource ==
    /\ service \notin Ended /\ source.edit < MaxEdits
    /\ source' \in [edit : {source.edit + 1}, shape : Shapes]
    /\ UNCHANGED <<callVars, service, token, sourceVars, chunk, deviceVars, fileVars, refused>>

\* The UI ends the worker process; the system closes what it had open.
Kill ==
    /\ service \notin Ended /\ service' = "killed"
    /\ stream' = "closed"
    /\ UNCHANGED <<callVars, token, source, sourceVars, chunk, deviceVars, scratch, temporary,
                   output, refused>>

Call ==
    \/ Fails \/ ThrowIfCancelled \/ CatchBackend \/ PollCancellation
    \/ ReadFormat \/ TakeSnapshot \/ ValidateIdentity
    \/ OpenSource \/ ReadSource \/ EndOfSource
    \/ ValidateRoute \/ SetSampleRate \/ MakePlan \/ BackendReturns \/ Restore
    \/ Analyse \/ ReserveTemporary \/ OpenStream \/ WriteChunk \/ CloseStream
    \/ BeginOutputCommit \/ Promote \/ Report
    \/ CloseOnExit \/ DropTemporary \/ DropScratch \/ Return
Next == Call \/ Cancel \/ EditSource \/ Kill

Spec == Init /\ [][Next]_vars

-----------------------------------------------------------------------------
TypeOK ==
    /\ mode \in {"capture", "verify"}
    /\ service \in Steps \cup {"unwinding", "drop_temporary", "drop_scratch", "undo_rate"} \cup Ended
    /\ thrown \in {"none", "cancelled", "failed"}
    /\ outcome \in {"none", "ok", "cancelled", "failed"}
    /\ token \in {"active", "cancelled", "output_committing"}
    /\ source \in Sources /\ format \in Shapes \cup {"unread"}
    /\ snapshot \in Sources \cup {NoSource} /\ heard \subseteq Sources
    /\ chunk \in 0 .. Chunks
    /\ rate \in Rates /\ original \in Rates \cup {"unread", "unreadable"}
    /\ guarded \in BOOLEAN /\ scratch \in BOOLEAN
    /\ stream \in {"open", "closed"} /\ temporary \in {"none", "partial", "complete"}
    /\ output \in {"previous", "complete", "torn"}
    /\ refused \subseteq {"rate", "temporary", "scratch"}

\* A cancellation that was accepted leaves the previous output in place, and
\* the capture does not succeed, at whatever step it arrives.
CancelKeepsOutput ==
    token = "cancelled" => output = "previous" /\ (mode = "capture" => outcome # "ok")

\* The output file is the previous one or a complete new one at every moment,
\* also when a write fails or the process is killed.
OutputIsWhole == output # "torn"

\* A published capture was made from one state of the source: its format, its
\* scanned frames and its played frames are all of the snapshot.
MadeFromOneSource ==
    output = "complete" => heard = {snapshot} /\ format = snapshot.shape

\* However the call ends, the recording and the incomplete output are gone,
\* unless the system refused to delete them.
NothingLeftBehind ==
    service = "done" =>
        /\ scratch => "scratch" \in refused
        /\ temporary # "none" => "temporary" \in refused

\* However the call ends, the device has the rate it had, unless its driver did
\* not tell that rate or refused it.
RateIsRestored ==
    service = "done" /\ original \in Rates => rate = original \/ "rate" \in refused

\* In capture mode the call keeps the promises of OutputTransaction.
Decision ==
    CASE token = "active" -> "open"
      [] token = "cancelled" -> "cancelled"
      [] OTHER -> "committed"
Transaction == INSTANCE OutputTransaction
    WITH decision <- Decision, file <- output,
         answer <- IF mode = "capture" THEN outcome ELSE "none"
ImplementsTransaction == Transaction!Spec
=============================================================================
