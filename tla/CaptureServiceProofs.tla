------------------------- MODULE CaptureServiceProofs -------------------------
(***************************************************************************)
(* The promises of CaptureService, for every set of formats and rates, any *)
(* length of a pass and any number of edits.                               *)
(*                                                                         *)
(* The inductive invariant says, for each part of the state, what the      *)
(* position of the thread implies about it.  Two parts carry the proof:    *)
(* edits only count up, so a source that equals its snapshot never         *)
(* differed from it since, and nothing read meanwhile can be of another    *)
(* state; and nobody takes the token back from output_committing.          *)
(***************************************************************************)
EXTENDS CaptureService, TLAPS

Refusals == {"rate", "temporary", "scratch"}
Leaving == {"unwinding", "drop_temporary", "drop_scratch", "undo_rate"}

\* The steps only a capture takes, and those only a verification takes.
CaptureSteps ==
    {"describe", "identify", "scan", "scanning", "scanned", "loaded", "planned", "recheck",
     "finally", "reserve", "open", "writing", "commit", "promote", "promoted"}

\* Where the thread is, what unwinds it and what it told.
FlowInv ==
    /\ service \in Steps => thrown = "none"
    /\ outcome # "none" <=> service = "done"
    /\ outcome # "none" => outcome = (IF thrown = "none" THEN "ok" ELSE thrown)
    /\ service \in CaptureSteps => mode = "capture"
    /\ service = "evaluate" => mode = "verify"

\* The token, and who may have seen it.
TokenInv ==
    /\ thrown = "cancelled" => token = "cancelled"
    /\ service \in {"promote", "promoted"} => token = "output_committing"
    /\ output # "previous" => token = "output_committing"

\* The output is replaced last, by a file that was closed.
FileInv ==
    /\ service \in {"open", "writing"} => temporary = "partial"
    /\ service \in {"commit", "promote"} => temporary = "complete"
    /\ stream = "open" => service \in {"writing", "unwinding"}
    /\ output # "previous" =>
          mode = "capture" /\ service \in Leaving \cup Ended \cup {"promoted"}
    /\ output # "torn"
    /\ service = "promoted" => output = "complete"
    /\ mode = "capture" /\ thrown = "none" /\ service \in Leaving \cup {"done"}
          => output = "complete"
    /\ service \in {"drop_scratch", "undo_rate", "done"} /\ temporary # "none"
          => "temporary" \in refused
    /\ service \in {"undo_rate", "done"} /\ scratch => "scratch" \in refused

\* What was read is of the snapshot, or the source has moved on since.
BeforeSnapshot == {"begin", "describe", "identify"}
BeforeReading == BeforeSnapshot \cup {"scan"}
SourceInv ==
    /\ service \in BeforeSnapshot \cup {"scan"} => heard = {}
    /\ snapshot = NoSource => heard = {}
    /\ snapshot # NoSource =>
          /\ snapshot.edit <= source.edit
          /\ snapshot.edit = source.edit => snapshot = source
          /\ \A h \in heard :
                /\ snapshot.edit <= h.edit /\ h.edit <= source.edit
                /\ h.edit = snapshot.edit => h = snapshot
    /\ mode = "capture" /\ service \in Steps \ BeforeSnapshot => snapshot # NoSource
    /\ mode = "capture" /\ service \in Steps \ BeforeReading =>
          /\ format = snapshot.shape
          /\ heard # {} \/ (service = "scanning" /\ chunk = 0)
    /\ mode = "capture" /\ service \in {"reserve", "open", "writing", "commit", "promote", "promoted"}
          => heard = {snapshot}
    /\ output # "previous" => heard = {snapshot} /\ format = snapshot.shape

\* The device has the rate it had, or the guard still holds it.
BeforeRate == BeforeReading \cup {"scanning", "scanned", "loaded", "route", "routed",
                                  "configure", "set_rate"}
RateInv ==
    /\ service \in BeforeRate => ~guarded /\ "rate" \notin refused
    /\ guarded => original \in Rates
    /\ original \in Rates => guarded \/ rate = original \/ "rate" \in refused
    /\ service = "done" => ~guarded

IInv == TypeOK /\ FlowInv /\ TokenInv /\ FileInv /\ SourceInv /\ RateInv

\* The call starts in the invariant.
LEMMA InitInv == Init => IInv
<1> SUFFICES ASSUME Init PROVE IInv
  OBVIOUS
<1> USE ConstantsAssumption, MarksAssumption DEF Init
<1>1. TypeOK
  <2>1. source \in Sources
    OBVIOUS
  <2>2. format \in Shapes \cup {"unread"} /\ heard \subseteq Sources /\ refused \subseteq Refusals
    BY Zenon
  <2>3. chunk \in 0 .. Chunks
    OBVIOUS
  <2>4. QED
    BY <2>1, <2>2, <2>3 DEF TypeOK, Steps, Refusals
<1>2. FlowInv /\ TokenInv
  BY DEF FlowInv, TokenInv, Steps, CaptureSteps
<1>3. FileInv
  BY DEF FileInv, Leaving, Ended
<1>4. SourceInv
  BY DEF SourceInv, Steps, BeforeSnapshot, BeforeReading
<1>5. RateInv
  BY DEF RateInv, BeforeRate, BeforeReading, BeforeSnapshot
<1>6. QED
  BY <1>1, <1>2, <1>3, <1>4, <1>5 DEF IInv

\* No step leaves the types.
LEMMA TypeStep == IInv /\ [Next]_vars => TypeOK'
<1> SUFFICES ASSUME IInv, [Next]_vars PROVE TypeOK'
  OBVIOUS
<1> USE ConstantsAssumption, MarksAssumption DEF IInv, TypeOK, RateInv, Steps, Ended
<1>1. CASE Fails
  BY <1>1 DEF Fails, vars, callVars, sourceVars, deviceVars, fileVars, MayFail, Steps, Throw, InBackend
<1>2. CASE ThrowIfCancelled
  BY <1>2 DEF ThrowIfCancelled, vars, callVars, sourceVars, deviceVars, fileVars, AfterCheck
<1>3. CASE CatchBackend
  BY <1>3 DEF CatchBackend, vars, callVars, sourceVars, deviceVars, fileVars
<1>4. CASE PollCancellation
  BY <1>4 DEF PollCancellation, vars, callVars, sourceVars, deviceVars, fileVars, Polling, Throw, InBackend
<1>5. CASE ReadFormat
  BY <1>5 DEF ReadFormat, vars, callVars, sourceVars, deviceVars, fileVars, Sources
<1>6. CASE TakeSnapshot
  BY <1>6 DEF TakeSnapshot, vars, callVars, sourceVars, deviceVars, fileVars
<1>7. CASE ValidateIdentity
  BY <1>7 DEF ValidateIdentity, vars, callVars, sourceVars, deviceVars, fileVars, AfterIdentity
<1>8. CASE OpenSource
  BY <1>8 DEF OpenSource, vars, callVars, sourceVars, deviceVars, fileVars, SourceAsExpected
<1>9. CASE ReadSource
  BY <1>9 DEF ReadSource, vars, callVars, sourceVars, deviceVars, fileVars
<1>10. CASE EndOfSource
  BY <1>10 DEF EndOfSource, vars, callVars, sourceVars, deviceVars, fileVars
<1>11. CASE ValidateRoute
  BY <1>11 DEF ValidateRoute, vars, callVars, sourceVars, deviceVars, fileVars
<1>12. CASE SetSampleRate
  BY <1>12 DEF SetSampleRate, vars, callVars, sourceVars, deviceVars, fileVars, ShouldRestore, Throw, InBackend
<1>13. CASE MakePlan
  BY <1>13 DEF MakePlan, vars, callVars, sourceVars, deviceVars, fileVars
<1>14. CASE BackendReturns
  BY <1>14 DEF BackendReturns, vars, callVars, sourceVars, deviceVars, fileVars
<1>15. CASE Restore
  <2>1. refused' \in {refused} \cup {refused \cup {r} : r \in Refusals}
    BY <1>15 DEF Restore, RestoreRate, Refusals
  <2>2. refused' \subseteq Refusals
    BY <2>1 DEF Refusals
  <2>3. scratch' \in BOOLEAN
    BY <1>15, Zenon DEF Restore, fileVars, TypeOK, IInv
  <2>4. rate' \in Rates /\ guarded' = FALSE
    BY <1>15 DEF Restore, RestoreRate
  <2>5. guarded' \in BOOLEAN
    BY <2>4
  <2>6. service' \in Steps \cup Ended /\ outcome' \in {"none", "ok", "cancelled", "failed"}
    BY <1>15 DEF Restore, callVars
  <2>7. UNCHANGED <<mode, thrown, token, source, format, snapshot, heard, chunk, original,
                   stream, temporary, output>>
    BY <1>15 DEF Restore, vars, callVars, sourceVars, deviceVars, fileVars
  <2>8. QED
    BY <2>2, <2>3, <2>4, <2>5, <2>6, <2>7 DEF Refusals
<1>16. CASE Analyse
  BY <1>16 DEF Analyse, vars, callVars, sourceVars, deviceVars, fileVars, AfterAnalysis
<1>17. CASE ReserveTemporary
  BY <1>17 DEF ReserveTemporary, vars, callVars, sourceVars, deviceVars, fileVars
<1>18. CASE OpenStream
  BY <1>18 DEF OpenStream, vars, callVars, sourceVars, deviceVars, fileVars
<1>19. CASE WriteChunk
  BY <1>19 DEF WriteChunk, vars, callVars, sourceVars, deviceVars, fileVars
<1>20. CASE CloseStream
  BY <1>20 DEF CloseStream, vars, callVars, sourceVars, deviceVars, fileVars
<1>21. CASE BeginOutputCommit
  BY <1>21 DEF BeginOutputCommit, vars, callVars, sourceVars, deviceVars, fileVars
<1>22. CASE Promote
  BY <1>22 DEF Promote, vars, callVars, sourceVars, deviceVars, fileVars
<1>23. CASE Report
  BY <1>23 DEF Report, vars, callVars, sourceVars, deviceVars, fileVars
<1>24. CASE CloseOnExit
  BY <1>24 DEF CloseOnExit, vars, callVars, sourceVars, deviceVars, fileVars
<1>25. CASE DropTemporary
  <2>1. refused' \in {refused} \cup {refused \cup {r} : r \in Refusals}
    BY <1>25 DEF DropTemporary, Refusals
  <2>2. refused' \subseteq Refusals
    BY <2>1 DEF Refusals
  <2>3. scratch' \in BOOLEAN
    BY <1>25, Zenon DEF DropTemporary, fileVars, TypeOK, IInv
  <2>4. QED
    BY <1>25, <2>2, <2>3 DEF DropTemporary, Refusals, vars, callVars, sourceVars, deviceVars, fileVars
<1>26. CASE DropScratch
  <2>1. refused' \in {refused} \cup {refused \cup {r} : r \in Refusals}
    BY <1>26 DEF DropScratch, Refusals
  <2>2. refused' \subseteq Refusals
    BY <2>1 DEF Refusals
  <2>3. scratch' \in BOOLEAN
    BY <1>26, Zenon DEF DropScratch, fileVars, TypeOK, IInv
  <2>4. QED
    BY <1>26, <2>2, <2>3 DEF DropScratch, Refusals, vars, callVars, sourceVars, deviceVars, fileVars
<1>27. CASE Return
  <2>1. refused' \in {refused} \cup {refused \cup {r} : r \in Refusals}
    BY <1>27 DEF Return, RestoreRate, Refusals
  <2>2. refused' \subseteq Refusals
    BY <2>1 DEF Refusals
  <2>3. scratch' \in BOOLEAN
    BY <1>27, Zenon DEF Return, fileVars, TypeOK, IInv
  <2>4. rate' \in Rates /\ guarded' = FALSE
    BY <1>27 DEF Return, RestoreRate
  <2>5. guarded' \in BOOLEAN
    BY <2>4
  <2>6. service' \in Steps \cup Ended /\ outcome' \in {"none", "ok", "cancelled", "failed"}
    BY <1>27 DEF Return, callVars
  <2>7. UNCHANGED <<mode, thrown, token, source, format, snapshot, heard, chunk, original,
                   stream, temporary, output>>
    BY <1>27 DEF Return, vars, callVars, sourceVars, deviceVars, fileVars
  <2>8. QED
    BY <2>2, <2>3, <2>4, <2>5, <2>6, <2>7 DEF Refusals
<1>28. CASE Cancel
  BY <1>28 DEF Cancel, vars, callVars, sourceVars, deviceVars, fileVars, Ended
<1>29. CASE EditSource
  BY <1>29 DEF EditSource, vars, callVars, sourceVars, deviceVars, fileVars, Ended, Sources
<1>30. CASE Kill
  BY <1>30 DEF Kill, vars, callVars, sourceVars, deviceVars, fileVars, Ended
<1>31. CASE UNCHANGED vars
  BY <1>31 DEF vars, callVars, sourceVars, deviceVars, fileVars
<1>32. QED
  BY <1>1, <1>2, <1>3, <1>4, <1>5, <1>6, <1>7, <1>8, <1>9, <1>10, <1>11, <1>12, <1>13, <1>14, <1>15, <1>16, <1>17, <1>18, <1>19, <1>20, <1>21, <1>22, <1>23, <1>24, <1>25, <1>26, <1>27, <1>28, <1>29, <1>30, <1>31 DEF Next, Call

\* Every step leaves the thread in a place that fits its mode and its exception.
LEMMA FlowStep == IInv /\ [Next]_vars => FlowInv'
<1> SUFFICES ASSUME IInv, [Next]_vars PROVE FlowInv'
  OBVIOUS
<1> USE ConstantsAssumption, MarksAssumption DEF IInv, TypeOK, Sources, NoSource, Steps, Ended, FlowInv, CaptureSteps
<1>1. CASE Fails
  BY <1>1 DEF Fails, vars, callVars, sourceVars, deviceVars, fileVars, MayFail, Steps, Throw, InBackend
<1>2. CASE ThrowIfCancelled
  BY <1>2 DEF ThrowIfCancelled, vars, callVars, sourceVars, deviceVars, fileVars, AfterCheck
<1>3. CASE CatchBackend
  BY <1>3 DEF CatchBackend, vars, callVars, sourceVars, deviceVars, fileVars
<1>4. CASE PollCancellation
  BY <1>4 DEF PollCancellation, vars, callVars, sourceVars, deviceVars, fileVars, Polling, Throw, InBackend
<1>5. CASE ReadFormat
  BY <1>5 DEF ReadFormat, vars, callVars, sourceVars, deviceVars, fileVars
<1>6. CASE TakeSnapshot
  BY <1>6 DEF TakeSnapshot, vars, callVars, sourceVars, deviceVars, fileVars
<1>7. CASE ValidateIdentity
  BY <1>7 DEF ValidateIdentity, vars, callVars, sourceVars, deviceVars, fileVars, AfterIdentity
<1>8. CASE OpenSource
  BY <1>8 DEF OpenSource, vars, callVars, sourceVars, deviceVars, fileVars, SourceAsExpected
<1>9. CASE ReadSource
  BY <1>9 DEF ReadSource, vars, callVars, sourceVars, deviceVars, fileVars
<1>10. CASE EndOfSource
  BY <1>10 DEF EndOfSource, vars, callVars, sourceVars, deviceVars, fileVars
<1>11. CASE ValidateRoute
  BY <1>11 DEF ValidateRoute, vars, callVars, sourceVars, deviceVars, fileVars
<1>12. CASE SetSampleRate
  BY <1>12 DEF SetSampleRate, vars, callVars, sourceVars, deviceVars, fileVars, ShouldRestore, Throw, InBackend
<1>13. CASE MakePlan
  BY <1>13 DEF MakePlan, vars, callVars, sourceVars, deviceVars, fileVars
<1>14. CASE BackendReturns
  BY <1>14 DEF BackendReturns, vars, callVars, sourceVars, deviceVars, fileVars
<1>15. CASE Restore
  BY <1>15 DEF Restore, vars, callVars, sourceVars, deviceVars, fileVars, RestoreRate
<1>16. CASE Analyse
  BY <1>16 DEF Analyse, vars, callVars, sourceVars, deviceVars, fileVars, AfterAnalysis
<1>17. CASE ReserveTemporary
  BY <1>17 DEF ReserveTemporary, vars, callVars, sourceVars, deviceVars, fileVars
<1>18. CASE OpenStream
  BY <1>18 DEF OpenStream, vars, callVars, sourceVars, deviceVars, fileVars
<1>19. CASE WriteChunk
  BY <1>19 DEF WriteChunk, vars, callVars, sourceVars, deviceVars, fileVars
<1>20. CASE CloseStream
  BY <1>20 DEF CloseStream, vars, callVars, sourceVars, deviceVars, fileVars
<1>21. CASE BeginOutputCommit
  BY <1>21 DEF BeginOutputCommit, vars, callVars, sourceVars, deviceVars, fileVars
<1>22. CASE Promote
  BY <1>22 DEF Promote, vars, callVars, sourceVars, deviceVars, fileVars
<1>23. CASE Report
  BY <1>23 DEF Report, vars, callVars, sourceVars, deviceVars, fileVars
<1>24. CASE CloseOnExit
  BY <1>24 DEF CloseOnExit, vars, callVars, sourceVars, deviceVars, fileVars
<1>25. CASE DropTemporary
  BY <1>25 DEF DropTemporary, vars, callVars, sourceVars, deviceVars, fileVars
<1>26. CASE DropScratch
  BY <1>26 DEF DropScratch, vars, callVars, sourceVars, deviceVars, fileVars
<1>27. CASE Return
  BY <1>27 DEF Return, vars, callVars, sourceVars, deviceVars, fileVars, RestoreRate
<1>28. CASE Cancel
  BY <1>28 DEF Cancel, vars, callVars, sourceVars, deviceVars, fileVars, Ended
<1>29. CASE EditSource
  BY <1>29 DEF EditSource, vars, callVars, sourceVars, deviceVars, fileVars, Ended
<1>30. CASE Kill
  BY <1>30 DEF Kill, vars, callVars, sourceVars, deviceVars, fileVars, Ended
<1>31. CASE UNCHANGED vars
  BY <1>31 DEF vars, callVars, sourceVars, deviceVars, fileVars
<1>32. QED
  BY <1>1, <1>2, <1>3, <1>4, <1>5, <1>6, <1>7, <1>8, <1>9, <1>10, <1>11, <1>12, <1>13, <1>14, <1>15, <1>16, <1>17, <1>18, <1>19, <1>20, <1>21, <1>22, <1>23, <1>24, <1>25, <1>26, <1>27, <1>28, <1>29, <1>30, <1>31 DEF Next, Call

\* Whoever threw capture_cancelled saw a cancellation, and the commit is final.
LEMMA TokenStep == IInv /\ [Next]_vars => TokenInv'
<1> SUFFICES ASSUME IInv, [Next]_vars PROVE TokenInv'
  OBVIOUS
<1> USE ConstantsAssumption, MarksAssumption DEF IInv, TypeOK, TokenInv, FlowInv, Steps
<1>1. CASE Fails
  BY <1>1 DEF Fails, vars, callVars, sourceVars, deviceVars, fileVars, MayFail, Steps, Throw, InBackend
<1>2. CASE ThrowIfCancelled
  BY <1>2 DEF ThrowIfCancelled, vars, callVars, sourceVars, deviceVars, fileVars, AfterCheck
<1>3. CASE CatchBackend
  BY <1>3 DEF CatchBackend, vars, callVars, sourceVars, deviceVars, fileVars
<1>4. CASE PollCancellation
  BY <1>4 DEF PollCancellation, vars, callVars, sourceVars, deviceVars, fileVars, Polling, Throw, InBackend
<1>5. CASE ReadFormat
  BY <1>5 DEF ReadFormat, vars, callVars, sourceVars, deviceVars, fileVars
<1>6. CASE TakeSnapshot
  BY <1>6 DEF TakeSnapshot, vars, callVars, sourceVars, deviceVars, fileVars
<1>7. CASE ValidateIdentity
  BY <1>7 DEF ValidateIdentity, vars, callVars, sourceVars, deviceVars, fileVars, AfterIdentity
<1>8. CASE OpenSource
  BY <1>8 DEF OpenSource, vars, callVars, sourceVars, deviceVars, fileVars, SourceAsExpected
<1>9. CASE ReadSource
  BY <1>9 DEF ReadSource, vars, callVars, sourceVars, deviceVars, fileVars
<1>10. CASE EndOfSource
  BY <1>10 DEF EndOfSource, vars, callVars, sourceVars, deviceVars, fileVars
<1>11. CASE ValidateRoute
  BY <1>11 DEF ValidateRoute, vars, callVars, sourceVars, deviceVars, fileVars
<1>12. CASE SetSampleRate
  BY <1>12 DEF SetSampleRate, vars, callVars, sourceVars, deviceVars, fileVars, ShouldRestore, Throw, InBackend
<1>13. CASE MakePlan
  BY <1>13 DEF MakePlan, vars, callVars, sourceVars, deviceVars, fileVars
<1>14. CASE BackendReturns
  BY <1>14 DEF BackendReturns, vars, callVars, sourceVars, deviceVars, fileVars
<1>15. CASE Restore
  BY <1>15 DEF Restore, vars, callVars, sourceVars, deviceVars, fileVars, RestoreRate
<1>16. CASE Analyse
  BY <1>16 DEF Analyse, vars, callVars, sourceVars, deviceVars, fileVars, AfterAnalysis
<1>17. CASE ReserveTemporary
  BY <1>17 DEF ReserveTemporary, vars, callVars, sourceVars, deviceVars, fileVars
<1>18. CASE OpenStream
  BY <1>18 DEF OpenStream, vars, callVars, sourceVars, deviceVars, fileVars
<1>19. CASE WriteChunk
  BY <1>19 DEF WriteChunk, vars, callVars, sourceVars, deviceVars, fileVars
<1>20. CASE CloseStream
  BY <1>20 DEF CloseStream, vars, callVars, sourceVars, deviceVars, fileVars
<1>21. CASE BeginOutputCommit
  BY <1>21 DEF BeginOutputCommit, vars, callVars, sourceVars, deviceVars, fileVars
<1>22. CASE Promote
  BY <1>22 DEF Promote, vars, callVars, sourceVars, deviceVars, fileVars
<1>23. CASE Report
  BY <1>23 DEF Report, vars, callVars, sourceVars, deviceVars, fileVars
<1>24. CASE CloseOnExit
  BY <1>24 DEF CloseOnExit, vars, callVars, sourceVars, deviceVars, fileVars
<1>25. CASE DropTemporary
  BY <1>25 DEF DropTemporary, vars, callVars, sourceVars, deviceVars, fileVars
<1>26. CASE DropScratch
  BY <1>26 DEF DropScratch, vars, callVars, sourceVars, deviceVars, fileVars
<1>27. CASE Return
  BY <1>27 DEF Return, vars, callVars, sourceVars, deviceVars, fileVars, RestoreRate
<1>28. CASE Cancel
  BY <1>28 DEF Cancel, vars, callVars, sourceVars, deviceVars, fileVars, Ended
<1>29. CASE EditSource
  BY <1>29 DEF EditSource, vars, callVars, sourceVars, deviceVars, fileVars, Ended
<1>30. CASE Kill
  BY <1>30 DEF Kill, vars, callVars, sourceVars, deviceVars, fileVars, Ended
<1>31. CASE UNCHANGED vars
  BY <1>31 DEF vars, callVars, sourceVars, deviceVars, fileVars
<1>32. QED
  BY <1>1, <1>2, <1>3, <1>4, <1>5, <1>6, <1>7, <1>8, <1>9, <1>10, <1>11, <1>12, <1>13, <1>14, <1>15, <1>16, <1>17, <1>18, <1>19, <1>20, <1>21, <1>22, <1>23, <1>24, <1>25, <1>26, <1>27, <1>28, <1>29, <1>30, <1>31 DEF Next, Call

\* The files follow the thread.
LEMMA FileStep == IInv /\ [Next]_vars => FileInv'
<1> SUFFICES ASSUME IInv, [Next]_vars PROVE FileInv'
  OBVIOUS
<1> USE ConstantsAssumption, MarksAssumption DEF IInv, TypeOK, FileInv, FlowInv, Leaving, Ended, Steps, CaptureSteps
<1>1. CASE Fails
  BY <1>1 DEF Fails, vars, callVars, sourceVars, deviceVars, fileVars, MayFail, Steps, Throw, InBackend
<1>2. CASE ThrowIfCancelled
  BY <1>2 DEF ThrowIfCancelled, vars, callVars, sourceVars, deviceVars, fileVars, AfterCheck
<1>3. CASE CatchBackend
  BY <1>3 DEF CatchBackend, vars, callVars, sourceVars, deviceVars, fileVars
<1>4. CASE PollCancellation
  BY <1>4 DEF PollCancellation, vars, callVars, sourceVars, deviceVars, fileVars, Polling, Throw, InBackend
<1>5. CASE ReadFormat
  BY <1>5 DEF ReadFormat, vars, callVars, sourceVars, deviceVars, fileVars
<1>6. CASE TakeSnapshot
  BY <1>6 DEF TakeSnapshot, vars, callVars, sourceVars, deviceVars, fileVars
<1>7. CASE ValidateIdentity
  BY <1>7 DEF ValidateIdentity, vars, callVars, sourceVars, deviceVars, fileVars, AfterIdentity
<1>8. CASE OpenSource
  BY <1>8 DEF OpenSource, vars, callVars, sourceVars, deviceVars, fileVars, SourceAsExpected
<1>9. CASE ReadSource
  BY <1>9 DEF ReadSource, vars, callVars, sourceVars, deviceVars, fileVars
<1>10. CASE EndOfSource
  BY <1>10 DEF EndOfSource, vars, callVars, sourceVars, deviceVars, fileVars
<1>11. CASE ValidateRoute
  BY <1>11 DEF ValidateRoute, vars, callVars, sourceVars, deviceVars, fileVars
<1>12. CASE SetSampleRate
  BY <1>12 DEF SetSampleRate, vars, callVars, sourceVars, deviceVars, fileVars, ShouldRestore, Throw, InBackend
<1>13. CASE MakePlan
  BY <1>13 DEF MakePlan, vars, callVars, sourceVars, deviceVars, fileVars
<1>14. CASE BackendReturns
  BY <1>14 DEF BackendReturns, vars, callVars, sourceVars, deviceVars, fileVars
<1>15. CASE Restore
  BY <1>15 DEF Restore, vars, callVars, sourceVars, deviceVars, fileVars, RestoreRate
<1>16. CASE Analyse
  BY <1>16 DEF Analyse, vars, callVars, sourceVars, deviceVars, fileVars, AfterAnalysis
<1>17. CASE ReserveTemporary
  BY <1>17 DEF ReserveTemporary, vars, callVars, sourceVars, deviceVars, fileVars
<1>18. CASE OpenStream
  BY <1>18 DEF OpenStream, vars, callVars, sourceVars, deviceVars, fileVars
<1>19. CASE WriteChunk
  BY <1>19 DEF WriteChunk, vars, callVars, sourceVars, deviceVars, fileVars
<1>20. CASE CloseStream
  BY <1>20 DEF CloseStream, vars, callVars, sourceVars, deviceVars, fileVars
<1>21. CASE BeginOutputCommit
  BY <1>21 DEF BeginOutputCommit, vars, callVars, sourceVars, deviceVars, fileVars
<1>22. CASE Promote
  BY <1>22 DEF Promote, vars, callVars, sourceVars, deviceVars, fileVars
<1>23. CASE Report
  BY <1>23 DEF Report, vars, callVars, sourceVars, deviceVars, fileVars
<1>24. CASE CloseOnExit
  BY <1>24 DEF CloseOnExit, vars, callVars, sourceVars, deviceVars, fileVars
<1>25. CASE DropTemporary
  BY <1>25 DEF DropTemporary, vars, callVars, sourceVars, deviceVars, fileVars
<1>26. CASE DropScratch
  BY <1>26 DEF DropScratch, vars, callVars, sourceVars, deviceVars, fileVars
<1>27. CASE Return
  BY <1>27 DEF Return, vars, callVars, sourceVars, deviceVars, fileVars, RestoreRate
<1>28. CASE Cancel
  BY <1>28 DEF Cancel, vars, callVars, sourceVars, deviceVars, fileVars, Ended
<1>29. CASE EditSource
  BY <1>29 DEF EditSource, vars, callVars, sourceVars, deviceVars, fileVars, Ended
<1>30. CASE Kill
  BY <1>30 DEF Kill, vars, callVars, sourceVars, deviceVars, fileVars, Ended
<1>31. CASE UNCHANGED vars
  BY <1>31 DEF vars, callVars, sourceVars, deviceVars, fileVars
<1>32. QED
  BY <1>1, <1>2, <1>3, <1>4, <1>5, <1>6, <1>7, <1>8, <1>9, <1>10, <1>11, <1>12, <1>13, <1>14, <1>15, <1>16, <1>17, <1>18, <1>19, <1>20, <1>21, <1>22, <1>23, <1>24, <1>25, <1>26, <1>27, <1>28, <1>29, <1>30, <1>31 DEF Next, Call

\* A source that passes a comparison has not changed since the snapshot.
LEMMA SourceStep == IInv /\ [Next]_vars => SourceInv'
<1> SUFFICES ASSUME IInv, [Next]_vars PROVE SourceInv'
  OBVIOUS
<1> USE ConstantsAssumption, MarksAssumption DEF IInv, TypeOK, Sources, NoSource, Steps, Ended, SourceInv, FlowInv, FileInv, CaptureSteps, Leaving, BeforeSnapshot, BeforeReading
<1>1. CASE Fails
  BY <1>1 DEF Fails, vars, callVars, sourceVars, deviceVars, fileVars, MayFail, Steps, Throw, InBackend
<1>2. CASE ThrowIfCancelled
  BY <1>2 DEF ThrowIfCancelled, vars, callVars, sourceVars, deviceVars, fileVars, AfterCheck
<1>3. CASE CatchBackend
  BY <1>3 DEF CatchBackend, vars, callVars, sourceVars, deviceVars, fileVars
<1>4. CASE PollCancellation
  BY <1>4 DEF PollCancellation, vars, callVars, sourceVars, deviceVars, fileVars, Polling, Throw, InBackend
<1>5. CASE ReadFormat
  BY <1>5 DEF ReadFormat, vars, callVars, sourceVars, deviceVars, fileVars
<1>6. CASE TakeSnapshot
  BY <1>6 DEF TakeSnapshot, vars, callVars, sourceVars, deviceVars, fileVars
<1>7. CASE ValidateIdentity
  BY <1>7 DEF ValidateIdentity, vars, callVars, sourceVars, deviceVars, fileVars, AfterIdentity
<1>8. CASE OpenSource
  BY <1>8 DEF OpenSource, vars, callVars, sourceVars, deviceVars, fileVars, SourceAsExpected
<1>9. CASE ReadSource
  BY <1>9 DEF ReadSource, vars, callVars, sourceVars, deviceVars, fileVars
<1>10. CASE EndOfSource
  BY <1>10 DEF EndOfSource, vars, callVars, sourceVars, deviceVars, fileVars
<1>11. CASE ValidateRoute
  BY <1>11 DEF ValidateRoute, vars, callVars, sourceVars, deviceVars, fileVars
<1>12. CASE SetSampleRate
  BY <1>12 DEF SetSampleRate, vars, callVars, sourceVars, deviceVars, fileVars, ShouldRestore, Throw, InBackend
<1>13. CASE MakePlan
  BY <1>13 DEF MakePlan, vars, callVars, sourceVars, deviceVars, fileVars
<1>14. CASE BackendReturns
  BY <1>14 DEF BackendReturns, vars, callVars, sourceVars, deviceVars, fileVars
<1>15. CASE Restore
  BY <1>15 DEF Restore, vars, callVars, sourceVars, deviceVars, fileVars, RestoreRate
<1>16. CASE Analyse
  BY <1>16 DEF Analyse, vars, callVars, sourceVars, deviceVars, fileVars, AfterAnalysis
<1>17. CASE ReserveTemporary
  BY <1>17 DEF ReserveTemporary, vars, callVars, sourceVars, deviceVars, fileVars
<1>18. CASE OpenStream
  BY <1>18 DEF OpenStream, vars, callVars, sourceVars, deviceVars, fileVars
<1>19. CASE WriteChunk
  BY <1>19 DEF WriteChunk, vars, callVars, sourceVars, deviceVars, fileVars
<1>20. CASE CloseStream
  BY <1>20 DEF CloseStream, vars, callVars, sourceVars, deviceVars, fileVars
<1>21. CASE BeginOutputCommit
  BY <1>21 DEF BeginOutputCommit, vars, callVars, sourceVars, deviceVars, fileVars
<1>22. CASE Promote
  BY <1>22 DEF Promote, vars, callVars, sourceVars, deviceVars, fileVars
<1>23. CASE Report
  BY <1>23 DEF Report, vars, callVars, sourceVars, deviceVars, fileVars
<1>24. CASE CloseOnExit
  BY <1>24 DEF CloseOnExit, vars, callVars, sourceVars, deviceVars, fileVars
<1>25. CASE DropTemporary
  BY <1>25 DEF DropTemporary, vars, callVars, sourceVars, deviceVars, fileVars
<1>26. CASE DropScratch
  BY <1>26 DEF DropScratch, vars, callVars, sourceVars, deviceVars, fileVars
<1>27. CASE Return
  BY <1>27 DEF Return, vars, callVars, sourceVars, deviceVars, fileVars, RestoreRate
<1>28. CASE Cancel
  BY <1>28 DEF Cancel, vars, callVars, sourceVars, deviceVars, fileVars, Ended
<1>29. CASE EditSource
  BY <1>29 DEF EditSource, vars, callVars, sourceVars, deviceVars, fileVars, Ended
<1>30. CASE Kill
  BY <1>30 DEF Kill, vars, callVars, sourceVars, deviceVars, fileVars, Ended
<1>31. CASE UNCHANGED vars
  BY <1>31 DEF vars, callVars, sourceVars, deviceVars, fileVars
<1>32. QED
  BY <1>1, <1>2, <1>3, <1>4, <1>5, <1>6, <1>7, <1>8, <1>9, <1>10, <1>11, <1>12, <1>13, <1>14, <1>15, <1>16, <1>17, <1>18, <1>19, <1>20, <1>21, <1>22, <1>23, <1>24, <1>25, <1>26, <1>27, <1>28, <1>29, <1>30, <1>31 DEF Next, Call

\* The guard is there whenever the rate may differ.
LEMMA RateStep == IInv /\ [Next]_vars => RateInv'
<1> SUFFICES ASSUME IInv, [Next]_vars PROVE RateInv'
  OBVIOUS
<1> USE ConstantsAssumption, MarksAssumption DEF IInv, TypeOK, RateInv, Steps, BeforeRate, BeforeReading, BeforeSnapshot, Ended
<1>1. CASE Fails
  BY <1>1 DEF Fails, vars, callVars, sourceVars, deviceVars, fileVars, MayFail, Steps, Throw, InBackend
<1>2. CASE ThrowIfCancelled
  BY <1>2 DEF ThrowIfCancelled, vars, callVars, sourceVars, deviceVars, fileVars, AfterCheck
<1>3. CASE CatchBackend
  BY <1>3 DEF CatchBackend, vars, callVars, sourceVars, deviceVars, fileVars
<1>4. CASE PollCancellation
  BY <1>4 DEF PollCancellation, vars, callVars, sourceVars, deviceVars, fileVars, Polling, Throw, InBackend
<1>5. CASE ReadFormat
  BY <1>5 DEF ReadFormat, vars, callVars, sourceVars, deviceVars, fileVars
<1>6. CASE TakeSnapshot
  BY <1>6 DEF TakeSnapshot, vars, callVars, sourceVars, deviceVars, fileVars
<1>7. CASE ValidateIdentity
  BY <1>7 DEF ValidateIdentity, vars, callVars, sourceVars, deviceVars, fileVars, AfterIdentity
<1>8. CASE OpenSource
  BY <1>8 DEF OpenSource, vars, callVars, sourceVars, deviceVars, fileVars, SourceAsExpected
<1>9. CASE ReadSource
  BY <1>9 DEF ReadSource, vars, callVars, sourceVars, deviceVars, fileVars
<1>10. CASE EndOfSource
  BY <1>10 DEF EndOfSource, vars, callVars, sourceVars, deviceVars, fileVars
<1>11. CASE ValidateRoute
  BY <1>11 DEF ValidateRoute, vars, callVars, sourceVars, deviceVars, fileVars
<1>12. CASE SetSampleRate
  BY <1>12 DEF SetSampleRate, vars, callVars, sourceVars, deviceVars, fileVars, ShouldRestore, Throw, InBackend
<1>13. CASE MakePlan
  BY <1>13 DEF MakePlan, vars, callVars, sourceVars, deviceVars, fileVars
<1>14. CASE BackendReturns
  BY <1>14 DEF BackendReturns, vars, callVars, sourceVars, deviceVars, fileVars
<1>15. CASE Restore
  BY <1>15 DEF Restore, vars, callVars, sourceVars, deviceVars, fileVars, RestoreRate
<1>16. CASE Analyse
  BY <1>16 DEF Analyse, vars, callVars, sourceVars, deviceVars, fileVars, AfterAnalysis
<1>17. CASE ReserveTemporary
  BY <1>17 DEF ReserveTemporary, vars, callVars, sourceVars, deviceVars, fileVars
<1>18. CASE OpenStream
  BY <1>18 DEF OpenStream, vars, callVars, sourceVars, deviceVars, fileVars
<1>19. CASE WriteChunk
  BY <1>19 DEF WriteChunk, vars, callVars, sourceVars, deviceVars, fileVars
<1>20. CASE CloseStream
  BY <1>20 DEF CloseStream, vars, callVars, sourceVars, deviceVars, fileVars
<1>21. CASE BeginOutputCommit
  BY <1>21 DEF BeginOutputCommit, vars, callVars, sourceVars, deviceVars, fileVars
<1>22. CASE Promote
  BY <1>22 DEF Promote, vars, callVars, sourceVars, deviceVars, fileVars
<1>23. CASE Report
  BY <1>23 DEF Report, vars, callVars, sourceVars, deviceVars, fileVars
<1>24. CASE CloseOnExit
  BY <1>24 DEF CloseOnExit, vars, callVars, sourceVars, deviceVars, fileVars
<1>25. CASE DropTemporary
  BY <1>25 DEF DropTemporary, vars, callVars, sourceVars, deviceVars, fileVars
<1>26. CASE DropScratch
  BY <1>26 DEF DropScratch, vars, callVars, sourceVars, deviceVars, fileVars
<1>27. CASE Return
  BY <1>27 DEF Return, vars, callVars, sourceVars, deviceVars, fileVars, RestoreRate
<1>28. CASE Cancel
  BY <1>28 DEF Cancel, vars, callVars, sourceVars, deviceVars, fileVars, Ended
<1>29. CASE EditSource
  BY <1>29 DEF EditSource, vars, callVars, sourceVars, deviceVars, fileVars, Ended
<1>30. CASE Kill
  BY <1>30 DEF Kill, vars, callVars, sourceVars, deviceVars, fileVars, Ended
<1>31. CASE UNCHANGED vars
  BY <1>31 DEF vars, callVars, sourceVars, deviceVars, fileVars
<1>32. QED
  BY <1>1, <1>2, <1>3, <1>4, <1>5, <1>6, <1>7, <1>8, <1>9, <1>10, <1>11, <1>12, <1>13, <1>14, <1>15, <1>16, <1>17, <1>18, <1>19, <1>20, <1>21, <1>22, <1>23, <1>24, <1>25, <1>26, <1>27, <1>28, <1>29, <1>30, <1>31 DEF Next, Call

\* The inductive invariant of a call.
THEOREM CallInvariant == Spec => []IInv
<1>1. Init => IInv
  BY InitInv
<1>2. IInv /\ [Next]_vars => IInv'
  BY TypeStep, FlowStep, TokenStep, FileStep, SourceStep, RateStep DEF IInv
<1>3. QED
  BY <1>1, <1>2, PTL DEF Spec

\* The state of a call keeps its types.
THEOREM CallTypeOK == Spec => []TypeOK
<1>1. IInv => TypeOK
  BY DEF IInv
<1>2. QED
  BY <1>1, CallInvariant, PTL

\* An accepted cancellation is never followed by a new output or a success.
THEOREM CallCancelKeepsOutput == Spec => []CancelKeepsOutput
<1>1. IInv => CancelKeepsOutput
  BY DEF IInv, CancelKeepsOutput, TypeOK, TokenInv, FileInv, FlowInv, Leaving
<1>2. QED
  BY <1>1, CallInvariant, PTL

\* No moment shows an output that is neither the previous nor a complete one.
THEOREM CallOutputIsWhole == Spec => []OutputIsWhole
<1>1. IInv => OutputIsWhole
  BY DEF IInv, OutputIsWhole, FileInv
<1>2. QED
  BY <1>1, CallInvariant, PTL

\* What is published was made from one state of the source.
THEOREM CallMadeFromOneSource == Spec => []MadeFromOneSource
<1>1. IInv => MadeFromOneSource
  BY DEF IInv, MadeFromOneSource, SourceInv
<1>2. QED
  BY <1>1, CallInvariant, PTL

\* A call that returned has deleted its files.
THEOREM CallNothingLeftBehind == Spec => []NothingLeftBehind
<1>1. IInv => NothingLeftBehind
  BY DEF IInv, NothingLeftBehind, FileInv
<1>2. QED
  BY <1>1, CallInvariant, PTL

\* A call that returned has given the device its rate back.
THEOREM CallRateIsRestored == Spec => []RateIsRestored
<1>1. IInv => RateIsRestored
  BY DEF IInv, RateIsRestored, RateInv
<1>2. QED
  BY <1>1, CallInvariant, PTL

\* A call does what OutputTransaction allows, whatever the order of its steps
\* and those of the others.
THEOREM CallImplementsTransaction == Spec => ImplementsTransaction
<1> USE DEF Decision
<1>1. Init => Transaction!Init
  BY DEF Init, Transaction!Init
<1>2. IInv /\ [Next]_vars => [Transaction!Next]_(Transaction!transactionVars)
  <2> SUFFICES ASSUME IInv, [Next]_vars
               PROVE  [Transaction!Next]_(Transaction!transactionVars)
    OBVIOUS
  <2> USE DEF IInv, TypeOK, FlowInv, Transaction!transactionVars
  <2>1. CASE UNCHANGED <<mode, token, output, outcome>>
    BY <2>1
  <2>2. CASE BeginOutputCommit
    BY <2>2 DEF BeginOutputCommit, Transaction!Next, Transaction!Decide, callVars, fileVars, TokenInv
  <2>3. CASE Promote
    BY <2>3 DEF Promote, Transaction!Next, Transaction!Replace, callVars, TokenInv, FileInv, CaptureSteps, Steps
  <2>4. CASE Return
    BY <2>4 DEF Return, Transaction!Next, Transaction!Answer, fileVars, TokenInv, FileInv, Leaving
  <2>5. CASE Cancel
    BY <2>5 DEF Cancel, Transaction!Next, Transaction!Decide, callVars, fileVars
  <2>6. QED
    BY <2>1, <2>2, <2>3, <2>4, <2>5
    DEF Next, Call, vars, callVars, fileVars, Fails, ThrowIfCancelled, CatchBackend, PollCancellation, ReadFormat, TakeSnapshot, ValidateIdentity, OpenSource, ReadSource, EndOfSource, ValidateRoute, SetSampleRate, MakePlan, BackendReturns, Restore, Analyse, ReserveTemporary, OpenStream, WriteChunk, CloseStream, Report, CloseOnExit, DropTemporary, DropScratch, EditSource, Kill
<1>3. QED
  BY <1>1, <1>2, CallInvariant, PTL DEF Spec, ImplementsTransaction, Transaction!Spec
=============================================================================
