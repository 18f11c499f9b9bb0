-------------------------- MODULE WorkerClientProofs --------------------------
(***************************************************************************)
(* The safety properties of WorkerClient for any number of calls of any    *)
(* kind and any capacity of the pipe.                                      *)
(*                                                                         *)
(* The inductive invariant has three parts.  GateInv: a permit is there    *)
(* only when nobody holds the gate, and two holders are the same call.     *)
(* OwnerInv: where a call must be when its process runs, and which of them *)
(* are in a job.  StoryInv: whatever was written or read that decides a    *)
(* call is what its worker concluded with, so the message, the exit code   *)
(* and the file speak of the same end.                                     *)
(***************************************************************************)
EXTENDS WorkerClient, TLAPS

GateInv ==
    /\ gate = 1 => \A c \in Calls : pc[c] \notin Holding
    /\ \A c, d \in Calls : pc[c] \in Holding /\ pc[d] \in Holding => c = d

Early == {"idle", "gate", "start"}
OwnerInv ==
    \A c \in Calls :
        /\ pc[c] \in Early => process[c] = "none" /\ job[c] = "none"
        /\ pc[c] = "attach" => job[c] = "none"
        /\ process[c] = "running" => pc[c] \in {"attach", "read", "clean"}
        /\ pc[c] \in {"stderr", "decide"} => process[c] = "gone"
        /\ job[c] \in {"empty", "closed"} => ~Runs(c)
        /\ job[c] = "closed" => app = "ended" \/ pc[c] = "done"
        /\ pc[c] \in {"read", "stderr", "decide", "clean"} => job[c] # "none"
        /\ pc[c] \in {"wait", "return", "done"} /\ job[c] = "none" /\ Runs(c)
              => answer[c] = "isolation"
        /\ pc[c] = "done" => ~Runs(c) \/ job[c] = "none"
        /\ app = "ended" => ~Runs(c) \/ job[c] = "none"

StoryInv ==
    \A c \in Calls :
        /\ answer[c] = "none" <=> pc[c] \in Early \cup {"attach", "read", "stderr", "decide"}
        /\ answer[c] = "result" => pc[c] \in {"return", "done"}
        /\ \A i \in 1 .. Len(output[c]) : output[c][i] \in Verdicts => output[c][i] = worker[c]
        /\ heard[c] \subseteq {worker[c]}
        /\ worker[c] = "good" /\ kind[c] = "capture" => c \in published
        /\ worker[c] = "bad" => kind[c] = "test"

IInv == TypeOK /\ GateInv /\ OwnerInv /\ StoryInv /\ ResultIsTheWorkers

\* Whatever became of a terminated process, it is in a state of a process.
LEMMA AfterKillType ==
    ASSUME TypeOK, NEW c \in Calls,
           process' \in {[process EXCEPT ![c] = p] : p \in AfterKill(c)}
    PROVE  process' \in [Calls -> {"none", "running", "spared", "dying", "gone"}]
<1>1. PICK p \in AfterKill(c) : process' = [process EXCEPT ![c] = p]
  OBVIOUS
<1>2. p \in {"none", "running", "spared", "dying", "gone"}
  BY <1>1 DEF AfterKill, Runs, TypeOK
<1>3. QED
  BY <1>1, <1>2 DEF TypeOK

\* Types are kept.
LEMMA TypeStep == IInv /\ [Next]_vars => TypeOK'
<1> SUFFICES ASSUME IInv, [Next]_vars PROVE TypeOK'
  OBVIOUS
<1> USE DEF IInv
<1>1. ASSUME NEW c \in Calls, Call(c) PROVE TypeOK'
  BY <1>1 DEF Call, Ready, Goto, workerVars, TypeOK, Lines, Verdicts, Codes, Answers, Steps
<1>2. ASSUME NEW c \in Calls, Cancel(c) PROVE TypeOK'
  <2>1. process' \in [Calls -> {"none", "running", "spared", "dying", "gone"}]
    <3>1. CASE job[c] # "none"
      BY <1>2, <3>1, AfterKillType DEF Cancel
    <3>2. CASE ~(job[c] # "none")
      BY <1>2, <3>2 DEF Cancel, TypeOK
    <3>3. QED
      BY <3>1, <3>2
  <2>2. QED
    BY <1>2, <2>1 DEF Cancel, TypeOK, Lines, Verdicts, Codes, Answers, Steps
<1>3. ASSUME NEW c \in Calls, EnterGate(c) PROVE TypeOK'
  BY <1>3 DEF EnterGate, Ready, Goto, workerVars, TypeOK, Lines, Verdicts, Codes, Answers,
     Steps
<1>4. ASSUME NEW c \in Calls, GiveUp(c) PROVE TypeOK'
  BY <1>4 DEF GiveUp, Ready, Goto, Tell, workerVars, TypeOK, Lines, Verdicts, Codes, Answers,
     Steps
<1>5. ASSUME NEW c \in Calls, StartFails(c) PROVE TypeOK'
  BY <1>5 DEF StartFails, Ready, Goto, Tell, workerVars, TypeOK, Lines, Verdicts, Codes,
     Answers, Steps
<1>6. ASSUME NEW c \in Calls, Start(c) PROVE TypeOK'
  BY <1>6 DEF Start, Ready, Goto, TypeOK, Lines, Verdicts, Codes, Answers, Steps
<1>7. ASSUME NEW c \in Calls, Attach(c) PROVE TypeOK'
  <2>1. process' \in [Calls -> {"none", "running", "spared", "dying", "gone"}]
    <3>1. CASE c \in cancelled
      BY <1>7, <3>1, AfterKillType DEF Attach
    <3>2. CASE ~(c \in cancelled)
      BY <1>7, <3>2 DEF Attach, TypeOK
    <3>3. QED
      BY <3>1, <3>2
  <2>2. QED
    BY <1>7, <2>1 DEF Attach, Ready, Goto, TypeOK, Lines, Verdicts, Codes, Answers, Steps
<1>8. ASSUME NEW c \in Calls, AttachFails(c) PROVE TypeOK'
  <2>1. process' \in [Calls -> {"none", "running", "spared", "dying", "gone"}]
    BY <1>8, AfterKillType DEF AttachFails
  <2>2. QED
    BY <1>8, <2>1 DEF AttachFails, Ready, Goto, Tell, TypeOK, Lines, Verdicts, Codes, Answers,
       Steps
<1>9. ASSUME NEW c \in Calls, ReadMessage(c) PROVE TypeOK'
  BY <1>9 DEF ReadMessage, Read, Ready, TypeOK, Lines, Verdicts, Codes, Answers, Steps
<1>10. ASSUME NEW c \in Calls, ReadNoise(c) PROVE TypeOK'
  BY <1>10 DEF ReadNoise, Read, Goto, Tell, Ready, TypeOK, Lines, Verdicts, Codes, Answers,
     Steps
<1>11. ASSUME NEW c \in Calls, ReadCancelled(c) PROVE TypeOK'
  BY <1>11 DEF ReadCancelled, Ready, Goto, Tell, workerVars, TypeOK, Lines, Verdicts, Codes,
     Answers, Steps
<1>12. ASSUME NEW c \in Calls, ReadEnds(c) PROVE TypeOK'
  BY <1>12 DEF ReadEnds, Ready, Goto, workerVars, TypeOK, Lines, Verdicts, Codes, Answers,
     Steps
<1>13. ASSUME NEW c \in Calls, ReadStandardError(c) PROVE TypeOK'
  BY <1>13 DEF ReadStandardError, Ready, Goto, workerVars, TypeOK, Lines, Verdicts, Codes,
     Answers, Steps
<1>14. ASSUME NEW c \in Calls, StandardErrorLate(c) PROVE TypeOK'
  BY <1>14 DEF StandardErrorLate, Ready, Goto, Tell, workerVars, TypeOK, Lines, Verdicts,
     Codes, Answers, Steps
<1>15. ASSUME NEW c \in Calls, Reject(c) PROVE TypeOK'
  BY <1>15 DEF Reject, Acceptable, Ready, Goto, Tell, workerVars, TypeOK, Lines, Verdicts,
     Codes, Answers, Steps
<1>16. ASSUME NEW c \in Calls, Judge(c) PROVE TypeOK'
  BY <1>16 DEF Judge, Consistent, Acceptable, Ready, Goto, Tell, workerVars, TypeOK, Lines,
     Verdicts, Codes, Answers, Steps
<1>17. ASSUME NEW c \in Calls, CleanUp(c) PROVE TypeOK'
  <2>1. process' \in [Calls -> {"none", "running", "spared", "dying", "gone"}]
    BY <1>17, AfterKillType DEF CleanUp
  <2>2. QED
    BY <1>17, <2>1 DEF CleanUp, Ready, Goto, TypeOK, Lines, Verdicts, Codes, Answers, Steps
<1>18. ASSUME NEW c \in Calls, WaitEnds(c) PROVE TypeOK'
  BY <1>18 DEF WaitEnds, Ready, Goto, workerVars, TypeOK, Lines, Verdicts, Codes, Answers,
     Steps
<1>19. ASSUME NEW c \in Calls, WaitExpires(c) PROVE TypeOK'
  BY <1>19 DEF WaitExpires, Ready, Goto, workerVars, TypeOK, Lines, Verdicts, Codes, Answers,
     Steps
<1>20. ASSUME NEW c \in Calls, Return(c) PROVE TypeOK'
  <2>1. gate = 0
    BY <1>20 DEF Return, Ready, TypeOK, GateInv, Holding, Steps
  <2>2. QED
    BY <1>20, <2>1 DEF Return, CloseJob, Ready, Goto, Runs, TypeOK, Lines, Verdicts, Codes,
       Answers, Steps
<1>21. ASSUME NEW c \in Calls, WorkerTalks(c) PROVE TypeOK'
  BY <1>21 DEF WorkerTalks, Say, clientVars, Followed, Runs, Heeded, TypeOK, Lines, Verdicts,
     Codes, Answers, Steps
<1>22. ASSUME NEW c \in Calls, WorkerPublishes(c) PROVE TypeOK'
  BY <1>22 DEF WorkerPublishes, Followed, clientVars, Runs, Heeded, TypeOK, Lines, Verdicts,
     Codes, Answers, Steps
<1>23. ASSUME NEW c \in Calls, WorkerConcludes(c) PROVE TypeOK'
  BY <1>23 DEF WorkerConcludes, Say, clientVars, Followed, Runs, Heeded, TypeOK, Lines,
     Verdicts, Codes, Answers, Steps
<1>24. ASSUME NEW c \in Calls, WorkerExits(c) PROVE TypeOK'
  <2>1. CodesOf(worker[c]) \subseteq Codes
    BY <1>24 DEF WorkerExits, CodesOf, Codes, Verdicts
  <2>2. QED
    BY <1>24, <2>1 DEF WorkerExits, Followed, Ends, clientVars, Runs, Heeded, TypeOK, Lines,
       Verdicts, Codes, Answers, Steps
<1>25. ASSUME NEW c \in Calls, WorkerCrashes(c) PROVE TypeOK'
  BY <1>25 DEF WorkerCrashes, Runs, Ends, clientVars, Heeded, TypeOK, Lines, Verdicts, Codes,
     Answers, Steps
<1>26. ASSUME NEW c \in Calls, WorkerDies(c) PROVE TypeOK'
  BY <1>26 DEF WorkerDies, Ends, clientVars, Heeded, TypeOK, Lines, Verdicts, Codes, Answers,
     Steps
<1>27. CASE AppEnds
  BY <1>27 DEF AppEnds, Runs, TypeOK, Lines, Verdicts, Codes, Answers, Steps
<1>28. CASE UNCHANGED vars
  BY <1>28 DEF vars, clientVars, workerVars, TypeOK, Lines, Verdicts, Codes, Answers, Steps
<1>29. QED
  BY <1>1, <1>2, <1>3, <1>4, <1>5, <1>6, <1>7, <1>8, <1>9, <1>10, <1>11, <1>12, <1>13, <1>14,
     <1>15, <1>16, <1>17, <1>18, <1>19, <1>20, <1>21, <1>22, <1>23, <1>24, <1>25, <1>26, <1>27, <1>28
     DEF Next, ClientStep, WorkerStep

\* The gate is handed on one call at a time.
LEMMA GateStep == IInv /\ [Next]_vars => GateInv'
<1> SUFFICES ASSUME IInv, [Next]_vars PROVE GateInv'
  OBVIOUS
<1> USE DEF IInv
<1>1. ASSUME NEW c \in Calls, Call(c) PROVE GateInv'
  BY <1>1 DEF Call, Ready, Goto, workerVars, TypeOK, GateInv, Holding, Steps
<1>2. ASSUME NEW c \in Calls, Cancel(c) PROVE GateInv'
  BY <1>2 DEF Cancel, AfterKill, Runs, TypeOK, GateInv, Holding, Steps
<1>3. ASSUME NEW c \in Calls, EnterGate(c) PROVE GateInv'
  BY <1>3 DEF EnterGate, Ready, Goto, workerVars, TypeOK, GateInv, Holding, Steps
<1>4. ASSUME NEW c \in Calls, GiveUp(c) PROVE GateInv'
  BY <1>4 DEF GiveUp, Ready, Goto, Tell, workerVars, TypeOK, GateInv, Holding, Steps
<1>5. ASSUME NEW c \in Calls, StartFails(c) PROVE GateInv'
  BY <1>5 DEF StartFails, Ready, Goto, Tell, workerVars, TypeOK, GateInv, Holding, Steps
<1>6. ASSUME NEW c \in Calls, Start(c) PROVE GateInv'
  BY <1>6 DEF Start, Ready, Goto, TypeOK, GateInv, Holding, Steps
<1>7. ASSUME NEW c \in Calls, Attach(c) PROVE GateInv'
  BY <1>7 DEF Attach, AfterKill, Ready, Goto, Runs, TypeOK, GateInv, Holding, Steps
<1>8. ASSUME NEW c \in Calls, AttachFails(c) PROVE GateInv'
  BY <1>8 DEF AttachFails, AfterKill, Ready, Goto, Tell, Runs, TypeOK, GateInv, Holding, Steps
<1>9. ASSUME NEW c \in Calls, ReadMessage(c) PROVE GateInv'
  BY <1>9 DEF ReadMessage, Read, Ready, TypeOK, GateInv, Holding, Steps
<1>10. ASSUME NEW c \in Calls, ReadNoise(c) PROVE GateInv'
  BY <1>10 DEF ReadNoise, Read, Goto, Tell, Ready, TypeOK, GateInv, Holding, Steps
<1>11. ASSUME NEW c \in Calls, ReadCancelled(c) PROVE GateInv'
  BY <1>11 DEF ReadCancelled, Ready, Goto, Tell, workerVars, TypeOK, GateInv, Holding, Steps
<1>12. ASSUME NEW c \in Calls, ReadEnds(c) PROVE GateInv'
  BY <1>12 DEF ReadEnds, Ready, Goto, workerVars, TypeOK, GateInv, Holding, Steps
<1>13. ASSUME NEW c \in Calls, ReadStandardError(c) PROVE GateInv'
  BY <1>13 DEF ReadStandardError, Ready, Goto, workerVars, TypeOK, GateInv, Holding, Steps
<1>14. ASSUME NEW c \in Calls, StandardErrorLate(c) PROVE GateInv'
  BY <1>14 DEF StandardErrorLate, Ready, Goto, Tell, workerVars, TypeOK, GateInv, Holding,
     Steps
<1>15. ASSUME NEW c \in Calls, Reject(c) PROVE GateInv'
  BY <1>15 DEF Reject, Acceptable, Ready, Goto, Tell, workerVars, TypeOK, GateInv, Holding,
     Steps
<1>16. ASSUME NEW c \in Calls, Judge(c) PROVE GateInv'
  BY <1>16 DEF Judge, Consistent, Acceptable, Ready, Goto, Tell, workerVars, TypeOK, GateInv,
     Holding, Steps
<1>17. ASSUME NEW c \in Calls, CleanUp(c) PROVE GateInv'
  BY <1>17 DEF CleanUp, AfterKill, Ready, Goto, Runs, TypeOK, GateInv, Holding, Steps
<1>18. ASSUME NEW c \in Calls, WaitEnds(c) PROVE GateInv'
  BY <1>18 DEF WaitEnds, Ready, Goto, workerVars, TypeOK, GateInv, Holding, Steps
<1>19. ASSUME NEW c \in Calls, WaitExpires(c) PROVE GateInv'
  BY <1>19 DEF WaitExpires, Ready, Goto, workerVars, TypeOK, GateInv, Holding, Steps
<1>20. ASSUME NEW c \in Calls, Return(c) PROVE GateInv'
  <2>1. c \in Calls /\ pc[c] \in Holding
    BY <1>20 DEF Return, Ready, Holding, Steps
  <2>2. \A d \in Calls : pc[d] \in Holding => d = c
    BY <2>1 DEF GateInv
  <2>3. pc' = [pc EXCEPT ![c] = "done"]
    BY <1>20 DEF Return, Goto
  <2>4. \A d \in Calls : pc'[d] \notin Holding
    BY <2>2, <2>3 DEF TypeOK, Holding, Steps
  <2>5. QED
    BY <2>4 DEF GateInv
<1>21. ASSUME NEW c \in Calls, WorkerTalks(c) PROVE GateInv'
  BY <1>21 DEF WorkerTalks, Say, clientVars, Followed, Runs, Heeded, TypeOK, GateInv, Holding,
     Steps
<1>22. ASSUME NEW c \in Calls, WorkerPublishes(c) PROVE GateInv'
  BY <1>22 DEF WorkerPublishes, Followed, clientVars, Runs, Heeded, TypeOK, GateInv, Holding,
     Steps
<1>23. ASSUME NEW c \in Calls, WorkerConcludes(c) PROVE GateInv'
  BY <1>23 DEF WorkerConcludes, Say, clientVars, Followed, Runs, Heeded, TypeOK, GateInv,
     Holding, Steps
<1>24. ASSUME NEW c \in Calls, WorkerExits(c) PROVE GateInv'
  BY <1>24 DEF WorkerExits, Followed, Ends, CodesOf, clientVars, Runs, Heeded, TypeOK, GateInv,
     Holding, Steps
<1>25. ASSUME NEW c \in Calls, WorkerCrashes(c) PROVE GateInv'
  BY <1>25 DEF WorkerCrashes, Runs, Ends, clientVars, Heeded, TypeOK, GateInv, Holding, Steps
<1>26. ASSUME NEW c \in Calls, WorkerDies(c) PROVE GateInv'
  BY <1>26 DEF WorkerDies, Ends, clientVars, Heeded, TypeOK, GateInv, Holding, Steps
<1>27. CASE AppEnds
  BY <1>27 DEF AppEnds, Runs, TypeOK, GateInv, Holding, Steps
<1>28. CASE UNCHANGED vars
  BY <1>28 DEF vars, clientVars, workerVars, TypeOK, GateInv, Holding, Steps
<1>29. QED
  BY <1>1, <1>2, <1>3, <1>4, <1>5, <1>6, <1>7, <1>8, <1>9, <1>10, <1>11, <1>12, <1>13, <1>14,
     <1>15, <1>16, <1>17, <1>18, <1>19, <1>20, <1>21, <1>22, <1>23, <1>24, <1>25, <1>26, <1>27, <1>28
     DEF Next, ClientStep, WorkerStep

\* A process that runs stays with its call.
LEMMA OwnerStep == IInv /\ [Next]_vars => OwnerInv'
<1> SUFFICES ASSUME IInv, [Next]_vars PROVE OwnerInv'
  OBVIOUS
<1> USE DEF IInv
<1>1. ASSUME NEW c \in Calls, Call(c) PROVE OwnerInv'
  BY <1>1 DEF Call, Ready, Goto, workerVars, TypeOK, OwnerInv, StoryInv, Early, Runs
<1>2. ASSUME NEW c \in Calls, Cancel(c) PROVE OwnerInv'
  BY <1>2 DEF Cancel, AfterKill, Runs, TypeOK, OwnerInv, StoryInv, Early
<1>3. ASSUME NEW c \in Calls, EnterGate(c) PROVE OwnerInv'
  BY <1>3 DEF EnterGate, Ready, Goto, workerVars, TypeOK, OwnerInv, StoryInv, Early, Runs
<1>4. ASSUME NEW c \in Calls, GiveUp(c) PROVE OwnerInv'
  BY <1>4 DEF GiveUp, Ready, Goto, Tell, workerVars, TypeOK, OwnerInv, StoryInv, Early, Runs
<1>5. ASSUME NEW c \in Calls, StartFails(c) PROVE OwnerInv'
  BY <1>5 DEF StartFails, Ready, Goto, Tell, workerVars, TypeOK, OwnerInv, StoryInv, Early,
     Runs
<1>6. ASSUME NEW c \in Calls, Start(c) PROVE OwnerInv'
  BY <1>6 DEF Start, Ready, Goto, TypeOK, OwnerInv, StoryInv, Early, Runs
<1>7. ASSUME NEW c \in Calls, Attach(c) PROVE OwnerInv'
  BY <1>7 DEF Attach, AfterKill, Ready, Goto, Runs, TypeOK, OwnerInv, StoryInv, Early
<1>8. ASSUME NEW c \in Calls, AttachFails(c) PROVE OwnerInv'
  BY <1>8 DEF AttachFails, AfterKill, Ready, Goto, Tell, Runs, TypeOK, OwnerInv, StoryInv,
     Early
<1>9. ASSUME NEW c \in Calls, ReadMessage(c) PROVE OwnerInv'
  BY <1>9 DEF ReadMessage, Read, Ready, TypeOK, OwnerInv, StoryInv, Early, Runs
<1>10. ASSUME NEW c \in Calls, ReadNoise(c) PROVE OwnerInv'
  BY <1>10 DEF ReadNoise, Read, Goto, Tell, Ready, TypeOK, OwnerInv, StoryInv, Early, Runs
<1>11. ASSUME NEW c \in Calls, ReadCancelled(c) PROVE OwnerInv'
  BY <1>11 DEF ReadCancelled, Ready, Goto, Tell, workerVars, TypeOK, OwnerInv, StoryInv, Early,
     Runs
<1>12. ASSUME NEW c \in Calls, ReadEnds(c) PROVE OwnerInv'
  BY <1>12 DEF ReadEnds, Ready, Goto, workerVars, TypeOK, OwnerInv, StoryInv, Early, Runs
<1>13. ASSUME NEW c \in Calls, ReadStandardError(c) PROVE OwnerInv'
  BY <1>13 DEF ReadStandardError, Ready, Goto, workerVars, TypeOK, OwnerInv, StoryInv, Early,
     Runs
<1>14. ASSUME NEW c \in Calls, StandardErrorLate(c) PROVE OwnerInv'
  BY <1>14 DEF StandardErrorLate, Ready, Goto, Tell, workerVars, TypeOK, OwnerInv, StoryInv,
     Early, Runs
<1>15. ASSUME NEW c \in Calls, Reject(c) PROVE OwnerInv'
  BY <1>15 DEF Reject, Acceptable, Ready, Goto, Tell, workerVars, TypeOK, OwnerInv, StoryInv,
     Early, Runs
<1>16. ASSUME NEW c \in Calls, Judge(c) PROVE OwnerInv'
  BY <1>16 DEF Judge, Consistent, Acceptable, Ready, Goto, Tell, workerVars, TypeOK, OwnerInv,
     StoryInv, Early, Runs
<1>17. ASSUME NEW c \in Calls, CleanUp(c) PROVE OwnerInv'
  BY <1>17 DEF CleanUp, AfterKill, Ready, Goto, Runs, TypeOK, OwnerInv, StoryInv, Early
<1>18. ASSUME NEW c \in Calls, WaitEnds(c) PROVE OwnerInv'
  BY <1>18 DEF WaitEnds, Ready, Goto, workerVars, TypeOK, OwnerInv, StoryInv, Early, Runs
<1>19. ASSUME NEW c \in Calls, WaitExpires(c) PROVE OwnerInv'
  BY <1>19 DEF WaitExpires, Ready, Goto, workerVars, TypeOK, OwnerInv, StoryInv, Early, Runs
<1>20. ASSUME NEW c \in Calls, Return(c) PROVE OwnerInv'
  BY <1>20 DEF Return, CloseJob, Ready, Goto, Runs, TypeOK, OwnerInv, StoryInv, Early
<1>21. ASSUME NEW c \in Calls, WorkerTalks(c) PROVE OwnerInv'
  BY <1>21 DEF WorkerTalks, Say, clientVars, Followed, Runs, Heeded, TypeOK, OwnerInv,
     StoryInv, Early
<1>22. ASSUME NEW c \in Calls, WorkerPublishes(c) PROVE OwnerInv'
  BY <1>22 DEF WorkerPublishes, Followed, clientVars, Runs, Heeded, TypeOK, OwnerInv, StoryInv,
     Early
<1>23. ASSUME NEW c \in Calls, WorkerConcludes(c) PROVE OwnerInv'
  BY <1>23 DEF WorkerConcludes, Say, clientVars, Followed, Runs, Heeded, TypeOK, OwnerInv,
     StoryInv, Early
<1>24. ASSUME NEW c \in Calls, WorkerExits(c) PROVE OwnerInv'
  BY <1>24 DEF WorkerExits, Followed, Ends, CodesOf, clientVars, Runs, Heeded, TypeOK,
     OwnerInv, StoryInv, Early
<1>25. ASSUME NEW c \in Calls, WorkerCrashes(c) PROVE OwnerInv'
  BY <1>25 DEF WorkerCrashes, Runs, Ends, clientVars, Heeded, TypeOK, OwnerInv, StoryInv, Early
<1>26. ASSUME NEW c \in Calls, WorkerDies(c) PROVE OwnerInv'
  BY <1>26 DEF WorkerDies, Ends, clientVars, Heeded, TypeOK, OwnerInv, StoryInv, Early, Runs
<1>27. CASE AppEnds
  BY <1>27 DEF AppEnds, Runs, TypeOK, OwnerInv, StoryInv, Early
<1>28. CASE UNCHANGED vars
  BY <1>28 DEF vars, clientVars, workerVars, TypeOK, OwnerInv, StoryInv, Early, Runs
<1>29. QED
  BY <1>1, <1>2, <1>3, <1>4, <1>5, <1>6, <1>7, <1>8, <1>9, <1>10, <1>11, <1>12, <1>13, <1>14,
     <1>15, <1>16, <1>17, <1>18, <1>19, <1>20, <1>21, <1>22, <1>23, <1>24, <1>25, <1>26, <1>27, <1>28
     DEF Next, ClientStep, WorkerStep

\* Messages, conclusion and answer keep agreeing.
LEMMA StoryStep == IInv /\ [Next]_vars => StoryInv'
<1> SUFFICES ASSUME IInv, [Next]_vars PROVE StoryInv'
  OBVIOUS
<1> USE DEF IInv
<1>1. ASSUME NEW c \in Calls, Call(c) PROVE StoryInv'
  BY <1>1 DEF Call, Ready, Goto, workerVars, TypeOK, OwnerInv, StoryInv, Early, Lines, Verdicts
<1>2. ASSUME NEW c \in Calls, Cancel(c) PROVE StoryInv'
  BY <1>2 DEF Cancel, AfterKill, Runs, TypeOK, OwnerInv, StoryInv, Early, Lines, Verdicts
<1>3. ASSUME NEW c \in Calls, EnterGate(c) PROVE StoryInv'
  BY <1>3 DEF EnterGate, Ready, Goto, workerVars, TypeOK, OwnerInv, StoryInv, Early, Lines,
     Verdicts
<1>4. ASSUME NEW c \in Calls, GiveUp(c) PROVE StoryInv'
  BY <1>4 DEF GiveUp, Ready, Goto, Tell, workerVars, TypeOK, OwnerInv, StoryInv, Early, Lines,
     Verdicts
<1>5. ASSUME NEW c \in Calls, StartFails(c) PROVE StoryInv'
  BY <1>5 DEF StartFails, Ready, Goto, Tell, workerVars, TypeOK, OwnerInv, StoryInv, Early,
     Lines, Verdicts
<1>6. ASSUME NEW c \in Calls, Start(c) PROVE StoryInv'
  BY <1>6 DEF Start, Ready, Goto, TypeOK, OwnerInv, StoryInv, Early, Lines, Verdicts
<1>7. ASSUME NEW c \in Calls, Attach(c) PROVE StoryInv'
  BY <1>7 DEF Attach, AfterKill, Ready, Goto, Runs, TypeOK, OwnerInv, StoryInv, Early, Lines,
     Verdicts
<1>8. ASSUME NEW c \in Calls, AttachFails(c) PROVE StoryInv'
  BY <1>8 DEF AttachFails, AfterKill, Ready, Goto, Tell, Runs, TypeOK, OwnerInv, StoryInv,
     Early, Lines, Verdicts
<1>9. ASSUME NEW c \in Calls, ReadMessage(c) PROVE StoryInv'
  BY <1>9 DEF ReadMessage, Read, Ready, TypeOK, OwnerInv, StoryInv, Early, Lines, Verdicts
<1>10. ASSUME NEW c \in Calls, ReadNoise(c) PROVE StoryInv'
  BY <1>10 DEF ReadNoise, Read, Goto, Tell, Ready, TypeOK, OwnerInv, StoryInv, Early, Lines,
     Verdicts
<1>11. ASSUME NEW c \in Calls, ReadCancelled(c) PROVE StoryInv'
  BY <1>11 DEF ReadCancelled, Ready, Goto, Tell, workerVars, TypeOK, OwnerInv, StoryInv, Early,
     Lines, Verdicts
<1>12. ASSUME NEW c \in Calls, ReadEnds(c) PROVE StoryInv'
  BY <1>12 DEF ReadEnds, Ready, Goto, workerVars, TypeOK, OwnerInv, StoryInv, Early, Lines,
     Verdicts
<1>13. ASSUME NEW c \in Calls, ReadStandardError(c) PROVE StoryInv'
  BY <1>13 DEF ReadStandardError, Ready, Goto, workerVars, TypeOK, OwnerInv, StoryInv, Early,
     Lines, Verdicts
<1>14. ASSUME NEW c \in Calls, StandardErrorLate(c) PROVE StoryInv'
  BY <1>14 DEF StandardErrorLate, Ready, Goto, Tell, workerVars, TypeOK, OwnerInv, StoryInv,
     Early, Lines, Verdicts
<1>15. ASSUME NEW c \in Calls, Reject(c) PROVE StoryInv'
  BY <1>15 DEF Reject, Acceptable, Ready, Goto, Tell, workerVars, TypeOK, OwnerInv, StoryInv,
     Early, Lines, Verdicts
<1>16. ASSUME NEW c \in Calls, Judge(c) PROVE StoryInv'
  BY <1>16 DEF Judge, Consistent, Acceptable, Ready, Goto, Tell, workerVars, TypeOK, OwnerInv,
     StoryInv, Early, Lines, Verdicts
<1>17. ASSUME NEW c \in Calls, CleanUp(c) PROVE StoryInv'
  BY <1>17 DEF CleanUp, AfterKill, Ready, Goto, Runs, TypeOK, OwnerInv, StoryInv, Early, Lines,
     Verdicts
<1>18. ASSUME NEW c \in Calls, WaitEnds(c) PROVE StoryInv'
  BY <1>18 DEF WaitEnds, Ready, Goto, workerVars, TypeOK, OwnerInv, StoryInv, Early, Lines,
     Verdicts
<1>19. ASSUME NEW c \in Calls, WaitExpires(c) PROVE StoryInv'
  BY <1>19 DEF WaitExpires, Ready, Goto, workerVars, TypeOK, OwnerInv, StoryInv, Early, Lines,
     Verdicts
<1>20. ASSUME NEW c \in Calls, Return(c) PROVE StoryInv'
  BY <1>20 DEF Return, CloseJob, Ready, Goto, Runs, TypeOK, OwnerInv, StoryInv, Early, Lines,
     Verdicts
<1>21. ASSUME NEW c \in Calls, WorkerTalks(c) PROVE StoryInv'
  BY <1>21 DEF WorkerTalks, Say, clientVars, Followed, Runs, Heeded, TypeOK, OwnerInv,
     StoryInv, Early, Lines, Verdicts
<1>22. ASSUME NEW c \in Calls, WorkerPublishes(c) PROVE StoryInv'
  BY <1>22 DEF WorkerPublishes, Followed, clientVars, Runs, Heeded, TypeOK, OwnerInv, StoryInv,
     Early, Lines, Verdicts
<1>23. ASSUME NEW c \in Calls, WorkerConcludes(c) PROVE StoryInv'
  BY <1>23 DEF WorkerConcludes, Say, clientVars, Followed, Runs, Heeded, TypeOK, OwnerInv,
     StoryInv, Early, Lines, Verdicts
<1>24. ASSUME NEW c \in Calls, WorkerExits(c) PROVE StoryInv'
  BY <1>24 DEF WorkerExits, Followed, Ends, CodesOf, clientVars, Runs, Heeded, TypeOK,
     OwnerInv, StoryInv, Early, Lines, Verdicts
<1>25. ASSUME NEW c \in Calls, WorkerCrashes(c) PROVE StoryInv'
  BY <1>25 DEF WorkerCrashes, Runs, Ends, clientVars, Heeded, TypeOK, OwnerInv, StoryInv,
     Early, Lines, Verdicts
<1>26. ASSUME NEW c \in Calls, WorkerDies(c) PROVE StoryInv'
  BY <1>26 DEF WorkerDies, Ends, clientVars, Heeded, TypeOK, OwnerInv, StoryInv, Early, Lines,
     Verdicts
<1>27. CASE AppEnds
  BY <1>27 DEF AppEnds, Runs, TypeOK, OwnerInv, StoryInv, Early, Lines, Verdicts
<1>28. CASE UNCHANGED vars
  BY <1>28 DEF vars, clientVars, workerVars, TypeOK, OwnerInv, StoryInv, Early, Lines, Verdicts
<1>29. QED
  BY <1>1, <1>2, <1>3, <1>4, <1>5, <1>6, <1>7, <1>8, <1>9, <1>10, <1>11, <1>12, <1>13, <1>14,
     <1>15, <1>16, <1>17, <1>18, <1>19, <1>20, <1>21, <1>22, <1>23, <1>24, <1>25, <1>26, <1>27, <1>28
     DEF Next, ClientStep, WorkerStep

\* An answered result keeps its worker behind it.
LEMMA ResultStep == IInv /\ [Next]_vars => ResultIsTheWorkers'
<1> SUFFICES ASSUME IInv, [Next]_vars PROVE ResultIsTheWorkers'
  OBVIOUS
<1> USE DEF IInv
<1>1. ASSUME NEW c \in Calls, Call(c) PROVE ResultIsTheWorkers'
  BY <1>1 DEF Call, Ready, Goto, workerVars, TypeOK, OwnerInv, StoryInv, ResultIsTheWorkers,
     Early, Codes, Verdicts, CodesOf, Runs
<1>2. ASSUME NEW c \in Calls, Cancel(c) PROVE ResultIsTheWorkers'
  BY <1>2 DEF Cancel, AfterKill, Runs, TypeOK, OwnerInv, StoryInv, ResultIsTheWorkers, Early,
     Codes, Verdicts, CodesOf
<1>3. ASSUME NEW c \in Calls, EnterGate(c) PROVE ResultIsTheWorkers'
  BY <1>3 DEF EnterGate, Ready, Goto, workerVars, TypeOK, OwnerInv, StoryInv,
     ResultIsTheWorkers, Early, Codes, Verdicts, CodesOf, Runs
<1>4. ASSUME NEW c \in Calls, GiveUp(c) PROVE ResultIsTheWorkers'
  BY <1>4 DEF GiveUp, Ready, Goto, Tell, workerVars, TypeOK, OwnerInv, StoryInv,
     ResultIsTheWorkers, Early, Codes, Verdicts, CodesOf, Runs
<1>5. ASSUME NEW c \in Calls, StartFails(c) PROVE ResultIsTheWorkers'
  BY <1>5 DEF StartFails, Ready, Goto, Tell, workerVars, TypeOK, OwnerInv, StoryInv,
     ResultIsTheWorkers, Early, Codes, Verdicts, CodesOf, Runs
<1>6. ASSUME NEW c \in Calls, Start(c) PROVE ResultIsTheWorkers'
  BY <1>6 DEF Start, Ready, Goto, TypeOK, OwnerInv, StoryInv, ResultIsTheWorkers, Early, Codes,
     Verdicts, CodesOf, Runs
<1>7. ASSUME NEW c \in Calls, Attach(c) PROVE ResultIsTheWorkers'
  BY <1>7 DEF Attach, AfterKill, Ready, Goto, Runs, TypeOK, OwnerInv, StoryInv,
     ResultIsTheWorkers, Early, Codes, Verdicts, CodesOf
<1>8. ASSUME NEW c \in Calls, AttachFails(c) PROVE ResultIsTheWorkers'
  BY <1>8 DEF AttachFails, AfterKill, Ready, Goto, Tell, Runs, TypeOK, OwnerInv, StoryInv,
     ResultIsTheWorkers, Early, Codes, Verdicts, CodesOf
<1>9. ASSUME NEW c \in Calls, ReadMessage(c) PROVE ResultIsTheWorkers'
  BY <1>9 DEF ReadMessage, Read, Ready, TypeOK, OwnerInv, StoryInv, ResultIsTheWorkers, Early,
     Codes, Verdicts, CodesOf, Runs
<1>10. ASSUME NEW c \in Calls, ReadNoise(c) PROVE ResultIsTheWorkers'
  BY <1>10 DEF ReadNoise, Read, Goto, Tell, Ready, TypeOK, OwnerInv, StoryInv,
     ResultIsTheWorkers, Early, Codes, Verdicts, CodesOf, Runs
<1>11. ASSUME NEW c \in Calls, ReadCancelled(c) PROVE ResultIsTheWorkers'
  BY <1>11 DEF ReadCancelled, Ready, Goto, Tell, workerVars, TypeOK, OwnerInv, StoryInv,
     ResultIsTheWorkers, Early, Codes, Verdicts, CodesOf, Runs
<1>12. ASSUME NEW c \in Calls, ReadEnds(c) PROVE ResultIsTheWorkers'
  BY <1>12 DEF ReadEnds, Ready, Goto, workerVars, TypeOK, OwnerInv, StoryInv,
     ResultIsTheWorkers, Early, Codes, Verdicts, CodesOf, Runs
<1>13. ASSUME NEW c \in Calls, ReadStandardError(c) PROVE ResultIsTheWorkers'
  BY <1>13 DEF ReadStandardError, Ready, Goto, workerVars, TypeOK, OwnerInv, StoryInv,
     ResultIsTheWorkers, Early, Codes, Verdicts, CodesOf, Runs
<1>14. ASSUME NEW c \in Calls, StandardErrorLate(c) PROVE ResultIsTheWorkers'
  BY <1>14 DEF StandardErrorLate, Ready, Goto, Tell, workerVars, TypeOK, OwnerInv, StoryInv,
     ResultIsTheWorkers, Early, Codes, Verdicts, CodesOf, Runs
<1>15. ASSUME NEW c \in Calls, Reject(c) PROVE ResultIsTheWorkers'
  BY <1>15 DEF Reject, Acceptable, Ready, Goto, Tell, workerVars, TypeOK, OwnerInv, StoryInv,
     ResultIsTheWorkers, Early, Codes, Verdicts, CodesOf, Runs
<1>16. ASSUME NEW c \in Calls, Judge(c) PROVE ResultIsTheWorkers'
  BY <1>16 DEF Judge, Consistent, Acceptable, Ready, Goto, Tell, workerVars, TypeOK, OwnerInv,
     StoryInv, ResultIsTheWorkers, Early, Codes, Verdicts, CodesOf, Runs
<1>17. ASSUME NEW c \in Calls, CleanUp(c) PROVE ResultIsTheWorkers'
  BY <1>17 DEF CleanUp, AfterKill, Ready, Goto, Runs, TypeOK, OwnerInv, StoryInv,
     ResultIsTheWorkers, Early, Codes, Verdicts, CodesOf
<1>18. ASSUME NEW c \in Calls, WaitEnds(c) PROVE ResultIsTheWorkers'
  BY <1>18 DEF WaitEnds, Ready, Goto, workerVars, TypeOK, OwnerInv, StoryInv,
     ResultIsTheWorkers, Early, Codes, Verdicts, CodesOf, Runs
<1>19. ASSUME NEW c \in Calls, WaitExpires(c) PROVE ResultIsTheWorkers'
  BY <1>19 DEF WaitExpires, Ready, Goto, workerVars, TypeOK, OwnerInv, StoryInv,
     ResultIsTheWorkers, Early, Codes, Verdicts, CodesOf, Runs
<1>20. ASSUME NEW c \in Calls, Return(c) PROVE ResultIsTheWorkers'
  BY <1>20 DEF Return, CloseJob, Ready, Goto, Runs, TypeOK, OwnerInv, StoryInv,
     ResultIsTheWorkers, Early, Codes, Verdicts, CodesOf
<1>21. ASSUME NEW c \in Calls, WorkerTalks(c) PROVE ResultIsTheWorkers'
  BY <1>21 DEF WorkerTalks, Say, clientVars, Followed, Runs, Heeded, TypeOK, OwnerInv,
     StoryInv, ResultIsTheWorkers, Early, Codes, Verdicts, CodesOf
<1>22. ASSUME NEW c \in Calls, WorkerPublishes(c) PROVE ResultIsTheWorkers'
  BY <1>22 DEF WorkerPublishes, Followed, clientVars, Runs, Heeded, TypeOK, OwnerInv, StoryInv,
     ResultIsTheWorkers, Early, Codes, Verdicts, CodesOf
<1>23. ASSUME NEW c \in Calls, WorkerConcludes(c) PROVE ResultIsTheWorkers'
  BY <1>23 DEF WorkerConcludes, Say, clientVars, Followed, Runs, Heeded, TypeOK, OwnerInv,
     StoryInv, ResultIsTheWorkers, Early, Codes, Verdicts, CodesOf
<1>24. ASSUME NEW c \in Calls, WorkerExits(c) PROVE ResultIsTheWorkers'
  BY <1>24 DEF WorkerExits, Followed, Ends, CodesOf, clientVars, Runs, Heeded, TypeOK,
     OwnerInv, StoryInv, ResultIsTheWorkers, Early, Codes, Verdicts
<1>25. ASSUME NEW c \in Calls, WorkerCrashes(c) PROVE ResultIsTheWorkers'
  BY <1>25 DEF WorkerCrashes, Runs, Ends, clientVars, Heeded, TypeOK, OwnerInv, StoryInv,
     ResultIsTheWorkers, Early, Codes, Verdicts, CodesOf
<1>26. ASSUME NEW c \in Calls, WorkerDies(c) PROVE ResultIsTheWorkers'
  BY <1>26 DEF WorkerDies, Ends, clientVars, Heeded, TypeOK, OwnerInv, StoryInv,
     ResultIsTheWorkers, Early, Codes, Verdicts, CodesOf, Runs
<1>27. CASE AppEnds
  BY <1>27 DEF AppEnds, Runs, TypeOK, OwnerInv, StoryInv, ResultIsTheWorkers, Early, Codes,
     Verdicts, CodesOf
<1>28. CASE UNCHANGED vars
  BY <1>28 DEF vars, clientVars, workerVars, TypeOK, OwnerInv, StoryInv, ResultIsTheWorkers,
     Early, Codes, Verdicts, CodesOf, Runs
<1>29. QED
  BY <1>1, <1>2, <1>3, <1>4, <1>5, <1>6, <1>7, <1>8, <1>9, <1>10, <1>11, <1>12, <1>13, <1>14,
     <1>15, <1>16, <1>17, <1>18, <1>19, <1>20, <1>21, <1>22, <1>23, <1>24, <1>25, <1>26, <1>27, <1>28
     DEF Next, ClientStep, WorkerStep

-----------------------------------------------------------------------------
LEMMA InitIInv == Init => IInv
BY DEF Init, IInv, TypeOK, GateInv, OwnerInv, StoryInv, ResultIsTheWorkers, Holding, Steps,
   Early, Runs, Verdicts, Answers, Lines, Codes

\* The inductive invariant of the client and its workers.
THEOREM WorkerInvariant == Spec => []IInv
<1>1. Init => IInv
  BY InitIInv
<1>2. IInv /\ [Next]_vars => IInv'
  BY TypeStep, GateStep, OwnerStep, StoryStep, ResultStep DEF IInv
<1>3. QED
  BY <1>1, <1>2, PTL DEF Spec

\* The state of the client and its workers keeps its types; the gate has one permit at most.
THEOREM WorkerTypeOK == Spec => []TypeOK
<1>1. IInv => TypeOK
  BY DEF IInv
<1>2. QED
  BY <1>1, WorkerInvariant, PTL

\* A result that is returned was told by a worker whose end confirms it.
THEOREM WorkerResultIsTheWorkers == Spec => []ResultIsTheWorkers
<1>1. IInv => ResultIsTheWorkers
  BY DEF IInv
<1>2. QED
  BY <1>1, WorkerInvariant, PTL

\* Two workers that nobody has tried to end never run side by side.
THEOREM WorkerOneFreeWorker == Spec => []OneFreeWorker
<1>1. IInv => OneFreeWorker
  <2> SUFFICES ASSUME IInv, NEW c \in Calls, NEW d \in Calls,
                      process[c] = "running", process[d] = "running"
               PROVE  c = d
    BY DEF OneFreeWorker
  <2>1. pc[c] \in Holding /\ pc[d] \in Holding
    BY DEF IInv, OwnerInv, Holding, Steps
  <2>2. QED
    BY <2>1 DEF IInv, GateInv
<1>2. QED
  BY <1>1, WorkerInvariant, PTL

\* A worker that runs on has a call in progress or never was in a job.
THEOREM WorkerWorkersAreOwned == Spec => []WorkersAreOwned
<1>1. IInv => WorkersAreOwned
  BY DEF IInv, WorkersAreOwned, OwnerInv, TypeOK, Holding, Steps, Early, Runs
<1>2. QED
  BY <1>1, WorkerInvariant, PTL

-----------------------------------------------------------------------------
(* The client does what ExclusiveCalls allows.  A step of the client that   *)
(* neither takes nor returns the gate and does not answer is a stutter.     *)

\* Who holds the gate, when it is known.
LEMMA OneOfNone == OneOf({}) = NoCall
BY DEF OneOf

LEMMA OneOfOne == \A c \in Calls : OneOf({c}) = c
BY DEF OneOf

LEMMA OneOfSome == \A s : OneOf(s) \in s \cup {NoCall}
BY DEF OneOf

\* The only holder is the call that holds the gate.
LEMMA HoldersOf == \A c \in Calls : GateInv /\ pc[c] \in Holding => Holders = {c}
BY DEF GateInv, Holders

\* A call that goes on while it holds the gate does not change who waits or holds.
LEMMA GoOn ==
    ASSUME TypeOK, NEW c \in Calls, pc[c] \in Holding, NEW s \in Holding, Goto(c, s)
    PROVE  Waiting' = Waiting /\ Holders' = Holders
BY DEF TypeOK, Goto, Waiting, Holders, Holding, Steps

\* A call that is answered while it holds the gate makes a step of the abstract call.
LEMMA AnswerStep ==
    ASSUME IInv, NEW c \in Calls, pc[c] \in Holding, answer[c] = "none",
           NEW s \in Holding, Goto(c, s), NEW a \in Answers, Tell(c, a),
           c \in cancelled => a # "result", cancelled' = cancelled
    PROVE  Calling!Next
<1>1. Waiting' = Waiting /\ Holders' = Holders
  BY GoOn DEF IInv
<1>2. OneOf(Holders) = c
  BY HoldersOf, OneOfOne DEF IInv
<1>3. Calling!Answer(c, a)
  BY <1>1, <1>2 DEF Calling!Answer, Tell
<1>4. QED
  BY <1>3 DEF Calling!Next

\* Calls exclude each other, are answered once, and a cancelled call has no result.
THEOREM WorkerImplementsExclusiveCalls == Spec => ImplementsExclusiveCalls
<1>1. Init => Calling!Init
  <2> SUFFICES ASSUME Init PROVE Calling!Init
    OBVIOUS
  <2>1. Waiting = {} /\ Holders = {}
    BY DEF Init, Waiting, Holders, Holding, Steps
  <2>2. QED
    BY <2>1, OneOfNone DEF Init, Calling!Init
<1>2. IInv /\ [Next]_vars => [Calling!Next]_(Calling!vars)
  <2> SUFFICES ASSUME IInv, [Next]_vars PROVE [Calling!Next]_(Calling!vars)
    OBVIOUS
  <2>1. CASE UNCHANGED <<pc, cancelled, answer>>
    BY <2>1 DEF Calling!vars, Waiting, Holders
  <2>2. ASSUME NEW c \in Calls, NEW s \in Holding, pc[c] \in Holding, Goto(c, s),
               UNCHANGED <<cancelled, answer>>
        PROVE  UNCHANGED Calling!vars
    BY <2>2, GoOn DEF Calling!vars, IInv
  <2>3. ASSUME NEW c \in Calls, Call(c) PROVE Calling!Next
    <3>1. Waiting' = Waiting \cup {c} /\ Holders' = Holders
      BY <2>3 DEF Call, Ready, Goto, Waiting, Holders, Holding, Steps, IInv, TypeOK
    <3>2. c \notin Waiting /\ c \notin Holders /\ answer[c] = "none"
      BY <2>3 DEF Call, Ready, Waiting, Holders, Holding, Steps, IInv, StoryInv, Early
    <3>3. OneOf(Holders) # c
      BY <3>2, OneOfSome, ConstantsAssumption DEF ConstantsAssumption
    <3>4. Calling!Ask(c)
      BY <2>3, <3>1, <3>2, <3>3 DEF Call, Calling!Ask
    <3>5. QED
      BY <3>4 DEF Calling!Next
  <2>4. ASSUME NEW c \in Calls, Cancel(c) PROVE Calling!Next
    <3>1. Waiting' = Waiting /\ Holders' = Holders
      BY <2>4 DEF Cancel, Waiting, Holders
    <3>2. QED
      BY <2>4, <3>1 DEF Cancel, Calling!Cancel, Calling!Next
  <2>5. ASSUME NEW c \in Calls, EnterGate(c) PROVE Calling!Next
    <3>1. c \in Waiting /\ Holders = {}
      BY <2>5 DEF EnterGate, Ready, IInv, TypeOK, GateInv, Waiting, Holders
    <3>2. Waiting' = Waiting \ {c} /\ Holders' = {c}
      BY <2>5, <3>1 DEF EnterGate, Goto, Waiting, Holders, Holding, Steps, IInv, TypeOK
    <3>3. OneOf(Holders) = NoCall /\ OneOf(Holders') = c
      BY <3>1, <3>2, OneOfNone, OneOfOne
    <3>4. Calling!Take(c)
      BY <2>5, <3>1, <3>2, <3>3 DEF EnterGate, Calling!Take
    <3>5. QED
      BY <3>4 DEF Calling!Next
  <2>6. ASSUME NEW c \in Calls, GiveUp(c) PROVE Calling!Next
    <3>1. c \in Waiting
      BY <2>6 DEF GiveUp, Ready, Waiting
    <3>2. Waiting' = Waiting \ {c} /\ Holders' = Holders
      BY <2>6 DEF GiveUp, Ready, Goto, Waiting, Holders, Holding, Steps, IInv, TypeOK
    <3>3. Calling!GiveUp(c)
      BY <2>6, <3>1, <3>2 DEF GiveUp, Tell, Calling!GiveUp
    <3>4. QED
      BY <3>3 DEF Calling!Next
  <2>7. ASSUME NEW c \in Calls, Return(c) PROVE Calling!Next
    <3>1. pc[c] \in Holding /\ answer[c] # "none"
      BY <2>7 DEF Return, Ready, Holding, Steps, IInv, StoryInv, Early
    <3>2. Holders = {c}
      BY <3>1, HoldersOf DEF IInv
    <3>3. Waiting' = Waiting /\ Holders' = {}
      BY <2>7, <3>1, <3>2 DEF Return, Ready, Goto, Waiting, Holders, Holding, Steps, IInv, TypeOK
    <3>4. OneOf(Holders) = c /\ OneOf(Holders') = NoCall
      BY <3>2, <3>3, OneOfNone, OneOfOne
    <3>5. Calling!Leave(c)
      BY <2>7, <3>1, <3>3, <3>4 DEF Return, Calling!Leave
    <3>6. QED
      BY <3>5 DEF Calling!Next
  <2>8. ASSUME NEW c \in Calls, Start(c) PROVE UNCHANGED Calling!vars
    BY <2>8, <2>2 DEF Start, Ready, Holding, Steps
  <2>9. ASSUME NEW c \in Calls, Attach(c) PROVE UNCHANGED Calling!vars
    BY <2>9, <2>2 DEF Attach, Ready, Holding, Steps
  <2>10. ASSUME NEW c \in Calls, ReadEnds(c) PROVE UNCHANGED Calling!vars
    BY <2>10, <2>2 DEF ReadEnds, Ready, Holding, Steps
  <2>11. ASSUME NEW c \in Calls, ReadStandardError(c) PROVE UNCHANGED Calling!vars
    BY <2>11, <2>2 DEF ReadStandardError, Ready, Holding, Steps
  <2>12. ASSUME NEW c \in Calls, CleanUp(c) PROVE UNCHANGED Calling!vars
    BY <2>12, <2>2 DEF CleanUp, Ready, Holding, Steps
  <2>13. ASSUME NEW c \in Calls, WaitEnds(c) PROVE UNCHANGED Calling!vars
    BY <2>13, <2>2 DEF WaitEnds, Ready, Holding, Steps
  <2>14. ASSUME NEW c \in Calls, WaitExpires(c) PROVE UNCHANGED Calling!vars
    BY <2>14, <2>2 DEF WaitExpires, Ready, Holding, Steps
  <2>15. ASSUME NEW c \in Calls, StartFails(c) PROVE Calling!Next
    BY <2>15, AnswerStep DEF StartFails, Ready, Holding, Steps, Answers, IInv, StoryInv, Early
  <2>16. ASSUME NEW c \in Calls, AttachFails(c) PROVE Calling!Next
    BY <2>16, AnswerStep DEF AttachFails, Ready, Holding, Steps, Answers, IInv, StoryInv, Early
  <2>17. ASSUME NEW c \in Calls, ReadNoise(c) PROVE Calling!Next
    BY <2>17, AnswerStep DEF ReadNoise, Read, Ready, Holding, Steps, Answers, IInv, StoryInv, Early
  <2>18. ASSUME NEW c \in Calls, ReadCancelled(c) PROVE Calling!Next
    BY <2>18, AnswerStep DEF ReadCancelled, Ready, Holding, Steps, Answers, IInv, StoryInv, Early
  <2>19. ASSUME NEW c \in Calls, StandardErrorLate(c) PROVE Calling!Next
    BY <2>19, AnswerStep DEF StandardErrorLate, Ready, Holding, Steps, Answers, IInv, StoryInv, Early
  <2>20. ASSUME NEW c \in Calls, Reject(c) PROVE Calling!Next
    <3>1. pc[c] \in Holding /\ answer[c] = "none" /\ "clean" \in Holding
      BY <2>20 DEF Reject, Ready, Holding, Steps, IInv, StoryInv, Early
    <3>2. PICK a \in {"cancelled", "error", "failed"} : Tell(c, a) /\ (c \in cancelled => a # "result")
      BY <2>20 DEF Reject
    <3>3. QED
      BY <2>20, <3>1, <3>2, AnswerStep DEF Reject, Answers
  <2>21. ASSUME NEW c \in Calls, Judge(c) PROVE Calling!Next
    <3>1. pc[c] \in Holding /\ answer[c] = "none" /\ "return" \in Holding
      BY <2>21 DEF Judge, Ready, Holding, Steps, IInv, StoryInv, Early
    <3>2. PICK a \in {"result", "protocol"} : Tell(c, a) /\ (c \in cancelled => a # "result")
      BY <2>21 DEF Judge
    <3>3. QED
      BY <2>21, <3>1, <3>2, AnswerStep DEF Judge, Answers
  <2>22. ASSUME NEW c \in Calls, ReadMessage(c) PROVE UNCHANGED <<pc, cancelled, answer>>
    BY <2>22 DEF ReadMessage, Read
  <2>23. ASSUME NEW c \in Calls, WorkerTalks(c) PROVE UNCHANGED <<pc, cancelled, answer>>
    BY <2>23 DEF WorkerTalks, clientVars
  <2>24. ASSUME NEW c \in Calls, WorkerPublishes(c) PROVE UNCHANGED <<pc, cancelled, answer>>
    BY <2>24 DEF WorkerPublishes, clientVars
  <2>25. ASSUME NEW c \in Calls, WorkerConcludes(c) PROVE UNCHANGED <<pc, cancelled, answer>>
    BY <2>25 DEF WorkerConcludes, clientVars
  <2>26. ASSUME NEW c \in Calls, WorkerExits(c) PROVE UNCHANGED <<pc, cancelled, answer>>
    BY <2>26 DEF WorkerExits, clientVars
  <2>27. ASSUME NEW c \in Calls, WorkerCrashes(c) PROVE UNCHANGED <<pc, cancelled, answer>>
    BY <2>27 DEF WorkerCrashes, clientVars
  <2>28. ASSUME NEW c \in Calls, WorkerDies(c) PROVE UNCHANGED <<pc, cancelled, answer>>
    BY <2>28 DEF WorkerDies, clientVars
  <2>29. QED
    BY <2>1, <2>3, <2>4, <2>5, <2>6, <2>7, <2>8, <2>9, <2>10, <2>11,
       <2>12, <2>13, <2>14, <2>15, <2>16, <2>17, <2>18, <2>19, <2>20, <2>21,
       <2>22, <2>23, <2>24, <2>25, <2>26, <2>27, <2>28
    DEF Next, ClientStep, WorkerStep, AppEnds, vars, clientVars
<1>3. QED
  BY <1>1, <1>2, WorkerInvariant, PTL DEF Spec, ImplementsExclusiveCalls, Calling!Spec
=============================================================================
