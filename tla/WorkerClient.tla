---------------------------- MODULE WorkerClient ----------------------------
(***************************************************************************)
(* The managed side of the worker protocol (CaptureWorkerClient.cs and     *)
(* WorkerProcessJob.cs) with the worker processes it starts, as far as     *)
(* the client sees them (cli.cpp, main.cpp): lines on standard output, an  *)
(* exit code, and for a capture the file that was published before the     *)
(* result was written.                                                     *)
(*                                                                         *)
(* `pc` names what the asynchronous method of a call does next.  Between   *)
(* two steps other calls, the cancellation of any call, the workers and    *)
(* the end of the application may come.  A vendor driver runs inside the   *)
(* worker: it may print, hang or end the process.                          *)
(***************************************************************************)
EXTENDS Integers, Sequences

CONSTANTS
    Calls,      \* calls of the client's methods
    Kinds,      \* what may be called
    PipeLines,  \* lines the pipe holds before its writer blocks
    NoCall      \* nobody holds the gate

ASSUME ConstantsAssumption ==
    /\ Kinds \subseteq {"query", "test", "capture"}
    /\ PipeLines \in Nat \ {0} /\ NoCall \notin Calls

VARIABLES
    kind,       \* per call: "query" (devices, channels), "test" or "capture"
    app,        \* the application: "running" or "ended"
    gate,       \* permits of _workerGate
    pc,         \* per call, what its method does next
    cancelled,  \* the calls whose token was cancelled
    job,        \* per call, its WorkerProcessJob
    heard,      \* per call, the messages read that decide it
    answer,     \* per call, what its method returned or threw
    process,    \* per call, its operating-system process
    worker,     \* per call, how far the program in the process is
    published,  \* the captures whose worker has written the output
    output,     \* per call, the lines in the pipe
    exit        \* per call, the exit code of the process

clientVars == <<app, gate, pc, cancelled, job, heard, answer>>
workerVars == <<process, worker, published, output, exit>>
vars == <<kind, clientVars, workerVars>>

Verdicts == {"good", "bad", "error"}
Lines == Verdicts \cup {"event", "noise"}
Codes == {"0", "1", "other"}
Answers ==
    {"result", "cancelled", "error", "protocol", "failed", "late", "missing", "isolation"}
Steps == {"idle", "gate", "start", "attach", "read", "stderr", "decide", "clean", "wait",
          "return", "done"}
\* Between WaitAsync and Release.
Holding == Steps \ {"idle", "gate", "done"}

Init ==
    /\ kind \in [Calls -> Kinds]
    /\ app = "running" /\ gate = 1 /\ cancelled = {} /\ published = {}
    /\ pc = [c \in Calls |-> "idle"] /\ job = [c \in Calls |-> "none"]
    /\ heard = [c \in Calls |-> {}] /\ answer = [c \in Calls |-> "none"]
    /\ process = [c \in Calls |-> "none"] /\ worker = [c \in Calls |-> "working"]
    /\ output = [c \in Calls |-> <<>>] /\ exit = [c \in Calls |-> "none"]

-----------------------------------------------------------------------------
(* The worker process.  A "spared" process is one whose termination was     *)
(* refused; a "dying" one was terminated, but the system calls its threads  *)
(* are in have not come back yet.                                           *)

Runs(c) == process[c] \in {"running", "spared"}

\* What Process.Kill makes of a process: TryTerminate ignores a refusal.
AfterKill(c) == IF Runs(c) THEN {"dying", "spared"} ELSE {process[c]}

\* While the client reads; later only the end of the process matters to it,
\* and the model drops the exit code.
Heeded(c) == pc[c] \in {"attach", "read"}
Followed(c) == Runs(c) /\ Heeded(c)

Ends(c, codes) ==
    /\ process' = [process EXCEPT ![c] = "gone"]
    /\ exit' \in {[exit EXCEPT ![c] = code] : code \in IF Heeded(c) THEN codes ELSE {"none"}}

\* A line is written and flushed as a whole; a full pipe blocks the writer.
Say(c, line) ==
    /\ Followed(c) /\ worker[c] \notin Verdicts
    /\ Len(output[c]) < PipeLines
    /\ output' = [output EXCEPT ![c] = Append(@, line)]

\* An event of the service, or something the client cannot accept: text a
\* driver prints into the stream, or a message that contradicts itself.
WorkerTalks(c) ==
    /\ \E line \in {"event", "noise"} : Say(c, line)
    /\ UNCHANGED <<kind, clientVars, process, worker, published, exit>>

\* The service promotes the output.
WorkerPublishes(c) ==
    /\ kind[c] = "capture" /\ worker[c] = "working" /\ Followed(c)
    /\ published' = published \cup {c}
    /\ UNCHANGED <<kind, clientVars, process, worker, output, exit>>

\* The last line: the result, a test that did not pass, or an error.  The
\* result of a capture comes after its output, an error may come at any time.
WorkerConcludes(c) ==
    /\ \E verdict \in Verdicts :
          /\ verdict = "good" => kind[c] # "capture" \/ c \in published
          /\ verdict = "bad" => kind[c] = "test"
          /\ Say(c, verdict)
          /\ worker' = [worker EXCEPT ![c] = verdict]
    /\ UNCHANGED <<kind, clientVars, process, published, exit>>

CodesOf(verdict) ==
    CASE verdict = "good" -> {"0"}
      [] verdict = "bad" -> {"1"}
      [] verdict = "error" -> {"1", "other"}

WorkerExits(c) ==
    /\ Followed(c) /\ worker[c] \in Verdicts
    /\ Ends(c, CodesOf(worker[c]))
    /\ UNCHANGED <<kind, clientVars, worker, published, output>>

\* A driver faults or ends the process from within, with any code.
WorkerCrashes(c) ==
    /\ Runs(c) /\ Ends(c, Codes)
    /\ UNCHANGED <<kind, clientVars, worker, published, output>>

WorkerDies(c) ==
    /\ process[c] = "dying" /\ Ends(c, {"other"})
    /\ UNCHANGED <<kind, clientVars, worker, published, output>>

-----------------------------------------------------------------------------
(* The client's methods. *)

Ready(c, step) == app = "running" /\ pc[c] = step
Goto(c, step) == pc' = [pc EXCEPT ![c] = step]
Tell(c, told) == answer' = [answer EXCEPT ![c] = told]

Call(c) ==
    /\ Ready(c, "idle") /\ Goto(c, "gate")
    /\ UNCHANGED <<kind, app, gate, cancelled, job, heard, answer, workerVars>>

\* The user, a watchdog or Dispose cancels the token; from the registration on
\* this terminates the process.
Cancel(c) ==
    /\ app = "running" /\ pc[c] \notin {"idle", "done"} /\ c \notin cancelled
    /\ cancelled' = cancelled \cup {c}
    /\ IF job[c] = "none" THEN UNCHANGED process
       ELSE process' \in {[process EXCEPT ![c] = p] : p \in AfterKill(c)}
    /\ UNCHANGED <<kind, app, gate, pc, job, heard, answer, worker, published, output, exit>>

\* _workerGate.WaitAsync(cancellationToken)
EnterGate(c) ==
    /\ Ready(c, "gate") /\ c \notin cancelled /\ gate > 0
    /\ gate' = gate - 1 /\ Goto(c, "start")
    /\ UNCHANGED <<kind, app, cancelled, job, heard, answer, workerVars>>

\* WaitAsync throws: the gate was not taken.
GiveUp(c) ==
    /\ Ready(c, "gate") /\ c \in cancelled
    /\ Tell(c, "cancelled") /\ Goto(c, "done")
    /\ UNCHANGED <<kind, app, gate, cancelled, job, heard, workerVars>>

\* The executable is missing, or the system does not start it.
StartFails(c) ==
    /\ Ready(c, "start")
    /\ Tell(c, "missing") /\ Goto(c, "return")
    /\ UNCHANGED <<kind, app, gate, cancelled, job, heard, workerVars>>

Start(c) ==
    /\ Ready(c, "start")
    /\ process' = [process EXCEPT ![c] = "running"] /\ Goto(c, "attach")
    /\ UNCHANGED <<kind, app, gate, cancelled, job, heard, answer, worker, published, output, exit>>

\* WorkerProcessJob.Attach and the registration of the token, which terminates
\* the process at once when the token is cancelled already.
Attach(c) ==
    /\ Ready(c, "attach")
    /\ job' = [job EXCEPT ![c] = IF process[c] = "gone" THEN "empty" ELSE "assigned"]
    /\ IF c \in cancelled
       THEN process' \in {[process EXCEPT ![c] = p] : p \in AfterKill(c)}
       ELSE UNCHANGED process
    /\ Goto(c, "read")
    /\ UNCHANGED <<kind, app, gate, cancelled, heard, answer, worker, published, output, exit>>

AttachFailsOnly(c) ==  \* mutant: the process is left alone
    /\ Ready(c, "attach")
    /\ Tell(c, "isolation") /\ Goto(c, "wait")
    /\ UNCHANGED <<kind, app, gate, cancelled, job, heard, workerVars>>

\* A worker that cannot be brought into a job is not used.
AttachFails(c) ==
    /\ Ready(c, "attach")
    /\ process' \in {[process EXCEPT ![c] = p] : p \in AfterKill(c)}
    /\ Tell(c, "isolation") /\ Goto(c, "wait")
    /\ UNCHANGED <<kind, app, gate, cancelled, job, heard, worker, published, output, exit>>

Read(c) ==
    /\ Ready(c, "read") /\ c \notin cancelled /\ output[c] # <<>>
    /\ output' = [output EXCEPT ![c] = Tail(@)]
    /\ UNCHANGED <<kind, app, gate, cancelled, job, process, worker, published, exit>>

\* A line that is a message: events only report progress.
ReadMessage(c) ==
    /\ Read(c) /\ Head(output[c]) # "noise"
    /\ heard' = [heard EXCEPT ![c] = @ \cup ({Head(output[c])} \cap Verdicts)]
    /\ UNCHANGED <<pc, answer>>

\* A line that is none: ProtocolError.
ReadNoise(c) ==
    /\ Read(c) /\ Head(output[c]) = "noise"
    /\ Tell(c, "protocol") /\ Goto(c, "clean")
    /\ UNCHANGED heard

\* The token makes ReadLineAsync or WaitForExitAsync throw.
ReadCancelled(c) ==
    /\ Ready(c, "read") /\ c \in cancelled
    /\ Tell(c, "cancelled") /\ Goto(c, "clean")
    /\ UNCHANGED <<kind, app, gate, cancelled, job, heard, workerVars>>

\* End of the stream, and of the process.
ReadEnds(c) ==
    /\ Ready(c, "read") /\ c \notin cancelled /\ output[c] = <<>> /\ process[c] = "gone"
    /\ Goto(c, "stderr")
    /\ UNCHANGED <<kind, app, gate, cancelled, job, heard, answer, workerVars>>

ReadStandardError(c) ==
    /\ Ready(c, "stderr") /\ Goto(c, "decide")
    /\ UNCHANGED <<kind, app, gate, cancelled, job, heard, answer, workerVars>>

\* Another process still holds the stream: WaitAsync times out.
StandardErrorLate(c) ==
    /\ Ready(c, "stderr")
    /\ Tell(c, "late") /\ Goto(c, "clean")
    /\ UNCHANGED <<kind, app, gate, cancelled, job, heard, workerVars>>

\* acceptNonZeroResult lets a test end with 1.
Acceptable(c) == exit[c] = "0" \/ (kind[c] = "test" /\ exit[c] = "1")

\* The checks RunWorkerProcessAsync throws from, in their order.
Reject(c) ==
    /\ Ready(c, "decide")
    /\ \/ c \in cancelled /\ Tell(c, "cancelled")
       \/ c \notin cancelled /\ "error" \in heard[c] /\ Tell(c, "error")
       \/ c \notin cancelled /\ "error" \notin heard[c] /\ ~Acceptable(c) /\ Tell(c, "failed")
    /\ Goto(c, "clean")
    /\ UNCHANGED <<kind, app, gate, cancelled, job, heard, workerVars>>

JudgeByLine(c) == heard[c] # {}  \* mutant: the exit code is not compared

\* The method has its result, and a test's exit code agrees with it.
Consistent(c) ==
    /\ heard[c] # {}
    /\ kind[c] = "test" => exit[c] = (IF "good" \in heard[c] THEN "0" ELSE "1")

JudgeAnyway(c) ==  \* mutant: the token is not looked at again
    /\ Ready(c, "decide") /\ "error" \notin heard[c] /\ Acceptable(c)
    /\ Tell(c, IF Consistent(c) THEN "result" ELSE "protocol") /\ Goto(c, "return")
    /\ UNCHANGED <<kind, app, gate, cancelled, job, heard, workerVars>>

Judge(c) ==
    /\ Ready(c, "decide") /\ c \notin cancelled /\ "error" \notin heard[c] /\ Acceptable(c)
    /\ Tell(c, IF Consistent(c) THEN "result" ELSE "protocol") /\ Goto(c, "return")
    /\ UNCHANGED <<kind, app, gate, cancelled, job, heard, workerVars>>

\* The handler of RunWorkerProcessAsync: both ways to terminate may be refused.
CleanUp(c) ==
    /\ Ready(c, "clean")
    /\ process' \in {[process EXCEPT ![c] = p] : p \in AfterKill(c)}
    /\ Goto(c, "wait")
    /\ UNCHANGED <<kind, app, gate, cancelled, job, heard, answer, worker, published, output, exit>>

\* WaitForExitBoundedAsync: the process has gone, or the time is over.
WaitEnds(c) ==
    /\ Ready(c, "wait") /\ process[c] = "gone" /\ Goto(c, "return")
    /\ UNCHANGED <<kind, app, gate, cancelled, job, heard, answer, workerVars>>

WaitForever(c) == FALSE  \* mutant: the wait has no bound

WaitExpires(c) ==
    /\ Ready(c, "wait") /\ process[c] # "gone" /\ Goto(c, "return")
    /\ UNCHANGED <<kind, app, gate, cancelled, job, heard, answer, workerVars>>

CloseNothing(c) == UNCHANGED <<job, process>>  \* mutant: the job is not disposed

\* Closing the last handle of a job kills what is in it (KILL_ON_JOB_CLOSE).
CloseJob(c) ==
    /\ job' = [job EXCEPT ![c] = IF @ = "none" THEN @ ELSE "closed"]
    /\ process' = [process EXCEPT ![c] = IF Runs(c) /\ job[c] = "assigned" THEN "dying" ELSE @]

\* The method's `using` declarations, then Release: the job and the pipe are closed.
\* A call that returned keeps its answer and the life of its process.
Return(c) ==
    /\ Ready(c, "return") /\ CloseJob(c)
    /\ output' = [output EXCEPT ![c] = <<>>] /\ heard' = [heard EXCEPT ![c] = {}]
    /\ worker' = [worker EXCEPT ![c] = "working"] /\ exit' = [exit EXCEPT ![c] = "none"]
    /\ published' = published \ {c}
    /\ gate' = gate + 1 /\ Goto(c, "done")
    /\ UNCHANGED <<kind, app, cancelled, answer>>

\* The application ends, wherever its methods are; the system closes its handles.
AppEnds ==
    /\ app = "running" /\ app' = "ended"
    /\ job' = [c \in Calls |-> IF job[c] = "none" THEN "none" ELSE "closed"]
    /\ process' = [c \in Calls |->
          IF Runs(c) /\ job[c] = "assigned" THEN "dying" ELSE process[c]]
    /\ output' = [c \in Calls |-> <<>>]
    /\ UNCHANGED <<kind, gate, pc, cancelled, heard, answer, worker, published, exit>>

ClientStep(c) ==
    \/ EnterGate(c) \/ GiveUp(c) \/ StartFails(c) \/ Start(c) \/ Attach(c) \/ AttachFails(c)
    \/ ReadMessage(c) \/ ReadNoise(c) \/ ReadCancelled(c) \/ ReadEnds(c)
    \/ ReadStandardError(c) \/ StandardErrorLate(c) \/ Reject(c) \/ Judge(c)
    \/ CleanUp(c) \/ WaitEnds(c) \/ WaitExpires(c) \/ Return(c)

\* After the end of the application only deaths are followed.
WorkerStep(c) ==
    /\ app = "running"
    /\ \/ WorkerTalks(c) \/ WorkerPublishes(c) \/ WorkerConcludes(c)
       \/ WorkerExits(c) \/ WorkerCrashes(c)

Next ==
    \/ \E c \in Calls : Call(c) \/ Cancel(c) \/ ClientStep(c) \/ WorkerStep(c) \/ WorkerDies(c)
    \/ AppEnds

Spec == Init /\ [][Next]_vars

\* The thread pool runs what is ready, and the bounded waits come to their end.
\* Workers and callers are not obliged to do anything.
FairSpec == Spec /\ \A c \in Calls : WF_vars(ClientStep(c))

-----------------------------------------------------------------------------
(* Properties. *)

TypeOK ==
    /\ kind \in [Calls -> Kinds] /\ app \in {"running", "ended"} /\ gate \in {0, 1}
    /\ pc \in [Calls -> Steps] /\ cancelled \subseteq Calls
    /\ job \in [Calls -> {"none", "assigned", "empty", "closed"}]
    /\ heard \in [Calls -> SUBSET Verdicts]
    /\ answer \in [Calls -> Answers \cup {"none"}]
    /\ process \in [Calls -> {"none", "running", "spared", "dying", "gone"}]
    /\ worker \in [Calls -> Verdicts \cup {"working"}]
    /\ published \subseteq Calls
    /\ output \in [Calls -> Seq(Lines)]
    /\ exit \in [Calls -> Codes \cup {"none"}]

\* A call answered with a result was answered by its worker: the process told
\* that result, ended with the code of that result, and for a capture had
\* written the output before.  A driver that ends the process after the
\* message, or prints into the stream, does not get a result through.
ResultIsTheWorkers ==
    \A c \in Calls : pc[c] = "return" /\ answer[c] = "result" =>
        /\ process[c] = "gone" /\ worker[c] \in {"good", "bad"}
        /\ exit[c] \in CodesOf(worker[c])
        /\ kind[c] = "capture" => c \in published

\* A worker that nobody has tried to end is the only one: a second process is
\* not started before the first has gone or was terminated.
OneFreeWorker ==
    \A c, d \in Calls : process[c] = "running" /\ process[d] = "running" => c = d

\* A worker that runs on belongs to a call in progress, or was never brought
\* into a job: its isolation failed, or the application ended before it.
WorkersAreOwned ==
    \A c \in Calls : Runs(c) =>
        \/ app = "running" /\ pc[c] \in Holding
        \/ job[c] = "none" /\ (app = "ended" \/ answer[c] = "isolation")

\* The calls exclude each other and a cancelled one has no result.
Waiting == {c \in Calls : pc[c] = "gate"}
Holders == {c \in Calls : pc[c] \in Holding}
OneOf(calls) == IF calls = {} THEN NoCall ELSE CHOOSE c \in calls : TRUE
Calling == INSTANCE ExclusiveCalls WITH waiting <- Waiting, holder <- OneOf(Holders)
ImplementsExclusiveCalls == Calling!Spec

\* A cancelled call comes back, also when its worker hangs, cannot be
\* terminated, or belongs to another call that never ends.
CancelledCallEnds ==
    \A c \in Calls :
        c \in cancelled ~> (pc[c] = "done" \/ app = "ended")

\* WINDOWS_ARCHITECTURE.md: "Only one worker runs per application client."
\* Not even of those whose termination, if it was tried, was accepted.
OneWorker ==
    \A c, d \in Calls :
        process[c] \in {"running", "dying"} /\ process[d] \in {"running", "dying"} => c = d
=============================================================================
