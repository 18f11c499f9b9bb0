-------------------------- MODULE AsioCaptureProofs --------------------------
(***************************************************************************)
(* Proofs about AsioCapture, for every length of pads, playback, buffer,   *)
(* ring and chunk, any number of driver threads and any number of faults.  *)
(***************************************************************************)
EXTENDS AsioCapture, SequenceTheorems, FiniteSetTheorems, TLAPS

Inside == {"output", "input", "deciding", "failing", "clearing", "finishing"}

CallbackSteps == {"out", "entered", "leaving", "signalling"} \cup Inside

\* The driver may call back, and not all who did have left.
Serving == {"starting", "wait", "drain", "stop", "close", "await_readers"}

BeforeStart ==
    {"construct", "prebuffer", "prebuffer_checks", "prebuffer_finished", "create",
     "prime", "primed", "ready", "start"}

\* Who may be where: callbacks come in after the start and through the gate,
\* all have left at the barrier, and the one that processes holds the flag.
AdmissionInv ==
    /\ control \in BeforeStart \cup Serving \cup AfterBarrier
    /\ callback \in [Callbacks -> CallbackSteps]
    /\ processing \in BOOLEAN
    /\ gateOpen => control \in {"prime", "primed", "ready", "start"}
                                  \cup (Serving \ {"await_readers"})
    /\ stream # "off" => control \in Serving \cup AfterBarrier
    /\ \A t \in Callbacks : callback[t] # "out" => control \in Serving
    /\ \A t \in Callbacks : callback[t] \in Inside => processing
    /\ \A t, u \in Callbacks :
          callback[t] \in Inside /\ callback[u] \in Inside => t = u

\* It holds before the first step.
LEMMA InitAdmission == Init => AdmissionInv
BY DEF Init, AdmissionInv, BeforeStart, CallbackSteps, Inside

\* Every step keeps it; only Begin lets a thread in, and only past the flag.
LEMMA NextAdmission == AdmissionInv /\ [Next]_vars => AdmissionInv'
<1> SUFFICES ASSUME AdmissionInv, [Next]_vars PROVE AdmissionInv'
  OBVIOUS
<1> USE DEF AdmissionInv, BeforeStart, Serving, AfterBarrier, CallbackSteps,
   Inside, controlVars, driverVars, stateVars, threadVars, flagVars, ringVars,
   worldVars, Goto, Throw, ControlOnly, QuietControl, NoHazard, Hazard
<1>1. CASE StartWorkers
  BY <1>1 DEF StartWorkers
<1>2. CASE PrebufferLevel
  BY <1>2 DEF PrebufferLevel
<1>3. CASE PrebufferChecks
  BY <1>3 DEF PrebufferChecks
<1>4. CASE PrebufferFinished
  BY <1>4 DEF PrebufferFinished
<1>5. CASE Create
  BY <1>5 DEF Create
<1>6. CASE Prime
  BY <1>6 DEF Prime, WriteOutput, PlaybackRing!Take
<1>7. CASE Primed
  BY <1>7 DEF Primed
<1>8. CASE Ready
  BY <1>8 DEF Ready
<1>9. CASE Start
  BY <1>9 DEF Start
<1>10. CASE Started
  BY <1>10 DEF Started
<1>11. CASE Wait
  BY <1>11 DEF Wait, WaitThrows
<1>12. CASE DrainDecision
  BY <1>12 DEF DrainDecision
<1>13. CASE Stop
  BY <1>13 DEF Stop
<1>14. CASE CloseGate
  BY <1>14 DEF CloseGate
<1>15. CASE AwaitReaders
  BY <1>15 DEF AwaitReaders
<1>16. CASE Wake
  BY <1>16 DEF Wake
<1>17. CASE JoinPlayback
  BY <1>17 DEF JoinPlayback
<1>18. CASE JoinWriter
  BY <1>18 DEF JoinWriter
<1>19. CASE Dispose
  BY <1>19 DEF Dispose
<1>20. CASE End
  BY <1>20 DEF End
<1>21. CASE PlaybackDecides
  BY <1>21 DEF PlaybackDecides, NotByPlayback
<1>22. CASE PlaybackWrites
  BY <1>22 DEF PlaybackWrites, PlaybackRing!Put, NotByPlayback
<1>23. CASE SourceFails
  BY <1>23 DEF SourceFails, NotByPlayback
<1>24. CASE PlaybackFinishes
  BY <1>24 DEF PlaybackFinishes, NotByPlayback
<1>25. CASE WriterReads
  BY <1>25 DEF WriterReads, RecordingRing!Take, WriterFails, WriterMoves,
     NotByWriter
<1>26. CASE WriterChecksFlag
  BY <1>26 DEF WriterChecksFlag, WriterMoves, NotByWriter
<1>27. CASE WriterFinishes
  BY <1>27 DEF WriterFinishes, WriterMoves, WriterFails, CloseRecording,
     NotByWriter
<1>28. ASSUME NEW t \in Callbacks, Enter(t) PROVE AdmissionInv'
  BY <1>28 DEF Enter, NotByCallbacks, CallbackMoves
<1>29. ASSUME NEW t \in Callbacks, Begin(t) PROVE AdmissionInv'
  <2>1. /\ callback[t] = "entered" /\ UNCHANGED <<control, gateOpen, stream>>
        /\ \/ processing /\ processing' /\ callback' = [callback EXCEPT ![t] = "leaving"]
           \/ /\ ~processing /\ processing'
              /\ \E s \in {"output", "finishing"} : callback' = [callback EXCEPT ![t] = s]
    BY <1>29 DEF Begin, CallbackMoves, NotByCallbacks
  <2>2. CASE processing
    BY <2>1, <2>2
  <2>3. CASE ~processing
    <3>1. \A u \in Callbacks : callback[u] \notin Inside
      BY <2>3
    <3>2. \A u \in Callbacks : callback'[u] \in Inside => u = t
      BY <2>1, <3>1
    <3> QED BY <2>1, <2>3, <3>2
  <2> QED BY <2>2, <2>3
<1>30. ASSUME NEW t \in Callbacks, Output(t) PROVE AdmissionInv'
  BY <1>30 DEF Output, WriteOutput, PlaybackRing!Take, NotByCallbacks,
     CallbackMoves
<1>31. ASSUME NEW t \in Callbacks, Input(t) PROVE AdmissionInv'
  BY <1>31 DEF Input, RecordBlock, RecordingRing!Put, NotByCallbacks,
     CallbackMoves
<1>32. ASSUME NEW t \in Callbacks, Decide(t) PROVE AdmissionInv'
  <2>1. PICK s \in {"finishing", "clearing"} :
          /\ UNCHANGED <<control, gateOpen, stream, processing>>
          /\ callback[t] \in Inside
          /\ callback' = [callback EXCEPT ![t] = s]
    BY <1>32 DEF Decide, NotByCallbacks
  <2>2. CASE s = "finishing"
    BY <2>1, <2>2
  <2>3. CASE s = "clearing"
    BY <2>1, <2>3
  <2> QED BY <2>2, <2>3
<1>33. ASSUME NEW t \in Callbacks, Clear(t) PROVE AdmissionInv'
  <2>1. /\ UNCHANGED <<control, gateOpen, stream>> /\ processing' = FALSE
        /\ callback[t] \in Inside
        /\ \/ callback' = [callback EXCEPT ![t] = "leaving"]
           \/ callback' = [callback EXCEPT ![t] = "signalling"]
    BY <1>33 DEF Clear, NotByCallbacks, CallbackMoves
  <2>2. \A u \in Callbacks : u # t => callback[u] \notin Inside
    BY <2>1
  <2>3. \A u \in Callbacks : callback'[u] \notin Inside
    BY <2>1, <2>2
  <2> QED BY <2>1, <2>3
<1>34. ASSUME NEW t \in Callbacks, Signal(t) PROVE AdmissionInv'
  BY <1>34 DEF Signal, NotByCallbacks, CallbackMoves
<1>35. ASSUME NEW t \in Callbacks, Leave(t) PROVE AdmissionInv'
  BY <1>35 DEF Leave, NotByCallbacks, CallbackMoves
<1>36. CASE Notify
  BY <1>36 DEF Notify, NotByCallbacks, CallbackMoves
<1>37. CASE Cancel
  BY <1>37 DEF Cancel
<1>38. CASE Expire
  BY <1>38 DEF Expire
<1>39. CASE UNCHANGED vars
  BY <1>39 DEF vars
<1> QED
  BY <1>1, <1>2, <1>3, <1>4, <1>5, <1>6, <1>7, <1>8, <1>9, <1>10, <1>11,
     <1>12, <1>13, <1>14, <1>15, <1>16, <1>17, <1>18, <1>19, <1>20, <1>21,
     <1>22, <1>23, <1>24, <1>25, <1>26, <1>27, <1>28, <1>29, <1>30, <1>31,
     <1>32, <1>33, <1>34, <1>35, <1>36, <1>37, <1>38, <1>39 DEF Next,
     ControlStep, PlaybackStep, WriterStep, CallbackStep

\* What the capture holds, and who has ended, at each place of the control
\* thread.
HoldingInv ==
    /\ control = "construct" <=> playbackWorker = "idle"
    /\ control = "construct" <=> writer = "idle"
    /\ control \in {"join_writer", "dispose", "verdict", "ended"} => playbackWorker = "exited"
    /\ joined <=> control \in {"dispose", "verdict", "ended"}
    /\ joined => writer = "exited"
    /\ buffers => control \notin {"construct", "prebuffer", "prebuffer_checks",
                                  "prebuffer_finished", "create", "verdict", "ended"}
    /\ stream \in {"off", "running", "stopped"}
    /\ stream = "running" => control \in {"starting", "wait", "drain", "stop"}
    /\ control = "construct" => scratch = "none"
    /\ control \notin {"construct", "ended"} => scratch \in {"open", "closed"}
    /\ control = "ended" =>
          scratch = (IF outcome = "ok" THEN "transferred" ELSE "deleted")
    /\ outcome # "none" <=> control = "ended"

\* It holds before the first step.
LEMMA InitHolding == Init => HoldingInv
BY DEF Init, HoldingInv

\* Every step keeps it.
LEMMA NextHolding == AdmissionInv /\ HoldingInv /\ [Next]_vars => HoldingInv'
<1> SUFFICES ASSUME AdmissionInv, HoldingInv, [Next]_vars PROVE HoldingInv'
  OBVIOUS
<1> USE DEF AdmissionInv, HoldingInv, BeforeStart, Serving, AfterBarrier,
   controlVars, driverVars, stateVars, threadVars, flagVars, ringVars,
   worldVars, Goto, Throw, ControlOnly, QuietControl, NoHazard, Hazard
<1>1. CASE StartWorkers
  BY <1>1 DEF StartWorkers
<1>2. CASE PrebufferLevel
  BY <1>2 DEF PrebufferLevel
<1>3. CASE PrebufferChecks
  BY <1>3 DEF PrebufferChecks
<1>4. CASE PrebufferFinished
  BY <1>4 DEF PrebufferFinished
<1>5. CASE Create
  BY <1>5 DEF Create
<1>6. CASE Prime
  BY <1>6 DEF Prime, WriteOutput, PlaybackRing!Take
<1>7. CASE Primed
  BY <1>7 DEF Primed
<1>8. CASE Ready
  BY <1>8 DEF Ready
<1>9. CASE Start
  BY <1>9 DEF Start
<1>10. CASE Started
  BY <1>10 DEF Started
<1>11. CASE Wait
  BY <1>11 DEF Wait, WaitThrows
<1>12. CASE DrainDecision
  BY <1>12 DEF DrainDecision
<1>13. CASE Stop
  BY <1>13 DEF Stop
<1>14. CASE CloseGate
  BY <1>14 DEF CloseGate
<1>15. CASE AwaitReaders
  BY <1>15 DEF AwaitReaders
<1>16. CASE Wake
  BY <1>16 DEF Wake
<1>17. CASE JoinPlayback
  BY <1>17 DEF JoinPlayback
<1>18. CASE JoinWriter
  BY <1>18 DEF JoinWriter
<1>19. CASE Dispose
  BY <1>19 DEF Dispose
<1>20. CASE End
  BY <1>20 DEF End, Verdict
<1>21. CASE PlaybackDecides
  BY <1>21 DEF PlaybackDecides, NotByPlayback
<1>22. CASE PlaybackWrites
  BY <1>22 DEF PlaybackWrites, PlaybackRing!Put, NotByPlayback
<1>23. CASE SourceFails
  BY <1>23 DEF SourceFails, NotByPlayback
<1>24. CASE PlaybackFinishes
  BY <1>24 DEF PlaybackFinishes, NotByPlayback
<1>25. CASE WriterReads
  BY <1>25 DEF WriterReads, RecordingRing!Take, WriterFails, WriterMoves,
     NotByWriter
<1>26. CASE WriterChecksFlag
  BY <1>26 DEF WriterChecksFlag, WriterMoves, NotByWriter
<1>27. CASE WriterFinishes
  BY <1>27 DEF WriterFinishes, WriterMoves, WriterFails, CloseRecording,
     NotByWriter
<1>28. ASSUME NEW t \in Callbacks, Enter(t) PROVE HoldingInv'
  BY <1>28 DEF Enter, NotByCallbacks, CallbackMoves
<1>29. ASSUME NEW t \in Callbacks, Begin(t) PROVE HoldingInv'
  BY <1>29 DEF Begin, NotByCallbacks, CallbackMoves
<1>30. ASSUME NEW t \in Callbacks, Output(t) PROVE HoldingInv'
  BY <1>30 DEF Output, WriteOutput, PlaybackRing!Take, NotByCallbacks,
     CallbackMoves
<1>31. ASSUME NEW t \in Callbacks, Input(t) PROVE HoldingInv'
  BY <1>31 DEF Input, RecordBlock, RecordingRing!Put, NotByCallbacks,
     CallbackMoves
<1>32. ASSUME NEW t \in Callbacks, Decide(t) PROVE HoldingInv'
  BY <1>32 DEF Decide, NotByCallbacks, CallbackMoves
<1>33. ASSUME NEW t \in Callbacks, Clear(t) PROVE HoldingInv'
  BY <1>33 DEF Clear, NotByCallbacks, CallbackMoves
<1>34. ASSUME NEW t \in Callbacks, Signal(t) PROVE HoldingInv'
  BY <1>34 DEF Signal, NotByCallbacks, CallbackMoves
<1>35. ASSUME NEW t \in Callbacks, Leave(t) PROVE HoldingInv'
  BY <1>35 DEF Leave, NotByCallbacks, CallbackMoves
<1>36. CASE Notify
  BY <1>36 DEF Notify, NotByCallbacks, CallbackMoves
<1>37. CASE Cancel
  BY <1>37 DEF Cancel
<1>38. CASE Expire
  BY <1>38 DEF Expire
<1>39. CASE UNCHANGED vars
  BY <1>39 DEF vars
<1> QED
  BY <1>1, <1>2, <1>3, <1>4, <1>5, <1>6, <1>7, <1>8, <1>9, <1>10, <1>11,
     <1>12, <1>13, <1>14, <1>15, <1>16, <1>17, <1>18, <1>19, <1>20, <1>21,
     <1>22, <1>23, <1>24, <1>25, <1>26, <1>27, <1>28, <1>29, <1>30, <1>31,
     <1>32, <1>33, <1>34, <1>35, <1>36, <1>37, <1>38, <1>39 DEF Next,
     ControlStep, PlaybackStep, WriterStep, CallbackStep

-----------------------------------------------------------------------------
(* Frames and blocks.                                                      *)

\* A run of frames: its length and its elements.
LEMMA FramesProperties ==
    ASSUME NEW a \in Nat, NEW n \in Nat
    PROVE  /\ Frames(a, n) \in Seq(Nat) /\ Len(Frames(a, n)) = n
           /\ \A i \in 1..n : Frames(a, n)[i] = a + i - 1
<1>1. Frames(a, n) \in [1..n -> Nat]
  BY DEF Frames
<1>2. Frames(a, n) \in Seq(Nat)
  BY <1>1, IsASeq
<1>3. Len(Frames(a, n)) = n
  BY <1>1, <1>2, LenProperties DEF Frames
<1> QED BY <1>2, <1>3 DEF Frames

\* A sequence that counts upwards is a run of frames.
LEMMA FramesEqual ==
    ASSUME NEW a \in Nat, NEW n \in Nat, NEW s \in Seq(Nat), Len(s) = n,
           \A i \in 1..n : s[i] = a + i - 1
    PROVE  s = Frames(a, n)
<1>1. Frames(a, n) \in Seq(Nat) /\ Len(Frames(a, n)) = n
  BY FramesProperties
<1>2. \A i \in 1..n : s[i] = Frames(a, n)[i]
  BY FramesProperties
<1> QED BY <1>1, <1>2, SeqEqual

\* A block that follows on a run of frames makes a longer run.
LEMMA FramesJoin ==
    ASSUME NEW a \in Nat, NEW n \in Nat, NEW m \in Nat
    PROVE  Frames(a, n) \o Frames(a + n, m) = Frames(a, n + m)
<1> DEFINE s == Frames(a, n)
           r == Frames(a + n, m)
<1>0. a + n \in Nat /\ n + m \in Nat
  OBVIOUS
<1>1. s \in Seq(Nat) /\ Len(s) = n /\ \A i \in 1..n : s[i] = a + i - 1
  BY FramesProperties
<1>2. r \in Seq(Nat) /\ Len(r) = m /\ \A i \in 1..m : r[i] = (a + n) + i - 1
  BY <1>0, FramesProperties
<1> HIDE DEF s, r
<1>3. s \o r \in Seq(Nat) /\ Len(s \o r) = n + m
  BY <1>1, <1>2, ConcatProperties
<1>4. ASSUME NEW i \in 1..(n + m) PROVE (s \o r)[i] = a + i - 1
  <2>1. CASE i <= n
    BY <1>1, <1>2, <2>1, ConcatProperties
  <2>2. CASE ~(i <= n)
    <3>1. (s \o r)[i] = r[i - n] /\ i - n \in 1..m
      BY <1>1, <1>2, <2>2, ConcatProperties
    <3>2. r[i - n] = (a + n) + (i - n) - 1
      BY <1>2, <3>1
    <3>3. (a + n) + (i - n) - 1 = a + i - 1
      BY <1>0
    <3> QED BY <3>1, <3>2, <3>3
  <2> QED BY <2>1, <2>2
<1>5. s \o r = Frames(a, n + m)
  <2> DEFINE w == s \o r
             d == n + m
  <2>1. w \in Seq(Nat) /\ Len(w) = d /\ d \in Nat /\ \A i \in 1..d : w[i] = a + i - 1
    BY <1>0, <1>3, <1>4
  <2> HIDE DEF w, d
  <2>2. w = Frames(a, d)
    BY <2>1, FramesEqual
  <2> QED BY <2>2 DEF w, d
<1> QED BY <1>5 DEF s, r

\* The two parts of a run that is cut.
LEMMA FramesCut ==
    ASSUME NEW a \in Nat, NEW n \in Nat, NEW k \in 0..n
    PROVE  /\ SubSeq(Frames(a, n), 1, k) = Frames(a, k)
           /\ SubSeq(Frames(a, n), k + 1, n) = Frames(a + k, n - k)
<1> DEFINE s == Frames(a, n)
<1>1. s \in Seq(Nat) /\ Len(s) = n /\ \A i \in 1..n : s[i] = a + i - 1
  BY FramesProperties
<1> HIDE DEF s
<1>2. /\ SubSeq(s, 1, k) \in Seq(Nat) /\ Len(SubSeq(s, 1, k)) = k
      /\ \A i \in 1..k : SubSeq(s, 1, k)[i] = s[i]
  BY <1>1, SubSeqProperties
<1>3. SubSeq(s, 1, k) = Frames(a, k)
  <2> DEFINE w == SubSeq(s, 1, k)
  <2>1. w \in Seq(Nat) /\ Len(w) = k /\ k \in Nat /\ \A i \in 1..k : w[i] = a + i - 1
    BY <1>1, <1>2
  <2> HIDE DEF w
  <2>2. w = Frames(a, k)
    BY <2>1, FramesEqual
  <2> QED BY <2>2 DEF w
<1>4. /\ SubSeq(s, k + 1, n) \in Seq(Nat) /\ Len(SubSeq(s, k + 1, n)) = n - k
      /\ \A i \in 1..(n - k) : SubSeq(s, k + 1, n)[i] = s[k + i]
  BY <1>1, SubSeqProperties
<1>5. \A i \in 1..(n - k) : SubSeq(s, k + 1, n)[i] = (a + k) + i - 1
  BY <1>1, <1>4
<1>6. SubSeq(s, k + 1, n) = Frames(a + k, n - k)
  <2> DEFINE w == SubSeq(s, k + 1, n)
             b == a + k
             d == n - k
  <2>1. /\ w \in Seq(Nat) /\ Len(w) = d /\ d \in Nat /\ b \in Nat
        /\ \A i \in 1..d : w[i] = b + i - 1
    BY <1>4, <1>5
  <2> HIDE DEF w, b, d
  <2>2. w = Frames(b, d)
    BY <2>1, FramesEqual
  <2> QED BY <2>2 DEF w, b, d
<1> QED BY <1>3, <1>6 DEF s

\* Appending two blocks is appending their concatenation.
LEMMA JoinsAssociate ==
    \A s, q, r \in Seq(Nat) : (s \o q) \o r = s \o (q \o r)
<1> SUFFICES ASSUME NEW s \in Seq(Nat), NEW q \in Seq(Nat), NEW r \in Seq(Nat)
             PROVE  (s \o q) \o r = s \o (q \o r)
  OBVIOUS
<1> QED BY ConcatAssociative, SMTT(60)

\* What leaves a queue at one end and joins what was taken is neither lost
\* nor moved.
LEMMA TakeKeepsTheStream ==
    ASSUME NEW s \in Seq(Nat), NEW q \in Seq(Nat), NEW k \in 0..Len(q)
    PROVE  /\ s \o SubSeq(q, 1, k) \in Seq(Nat)
           /\ SubSeq(q, k + 1, Len(q)) \in Seq(Nat)
           /\ Len(SubSeq(q, k + 1, Len(q))) = Len(q) - k
           /\ (s \o SubSeq(q, 1, k)) \o SubSeq(q, k + 1, Len(q)) = s \o q
<1> DEFINE head == SubSeq(q, 1, k)
           tail == SubSeq(q, k + 1, Len(q))
<1>0. Len(q) \in Nat /\ k \in Nat /\ k <= Len(q)
  BY LenProperties
<1>1. /\ head \in Seq(Nat) /\ Len(head) = k
      /\ \A i \in 1..k : head[i] = q[i]
  BY SubSeqProperties, LenProperties
<1>2. /\ tail \in Seq(Nat) /\ Len(tail) = Len(q) - k
      /\ \A i \in 1..(Len(q) - k) : tail[i] = q[k + i]
  BY SubSeqProperties, LenProperties
<1> HIDE DEF head, tail
<1>3. head \o tail \in Seq(Nat) /\ Len(head \o tail) = Len(q)
  <2>1. head \o tail \in Seq(Nat) /\ Len(head \o tail) = Len(head) + Len(tail)
    BY <1>1, <1>2, ConcatProperties
  <2>2. Len(head) + Len(tail) = Len(q)
    BY <1>0, <1>1, <1>2
  <2> QED BY <2>1, <2>2
<1>4. ASSUME NEW i \in 1..Len(q) PROVE (head \o tail)[i] = q[i]
  <2>1. CASE i <= k
    <3>1. (head \o tail)[i] = head[i] /\ i \in 1..k
      BY <1>0, <1>1, <1>2, <2>1, ConcatProperties
    <3> QED BY <1>1, <3>1
  <2>2. CASE ~(i <= k)
    <3>1. (head \o tail)[i] = tail[i - k] /\ i - k \in 1..(Len(q) - k)
      <4>1. /\ i \in 1..(Len(head) + Len(tail)) /\ ~(i <= Len(head))
            /\ Len(head) = k /\ i - k \in 1..(Len(q) - k)
        BY <1>0, <1>1, <1>2, <2>2
      <4>2. (head \o tail)[i] = IF i <= Len(head) THEN head[i] ELSE tail[i - Len(head)]
        BY <1>1, <1>2, <4>1, ConcatProperties
      <4> QED BY <4>1, <4>2
    <3>2. tail[i - k] = q[k + (i - k)] /\ k + (i - k) = i
      BY <1>0, <1>2, <3>1
    <3> QED BY <3>1, <3>2
  <2> QED BY <2>1, <2>2
<1>5. head \o tail = q
  BY <1>3, <1>4, SeqEqual
<1>6. (s \o head) \o tail = s \o q
  <2>1. (s \o head) \o tail = s \o (head \o tail)
    BY <1>1, <1>2, JoinsAssociate
  <2> QED BY <1>5, <2>1
<1>7. s \o head \in Seq(Nat)
  BY <1>1, ConcatProperties
<1> QED BY <1>2, <1>6, <1>7 DEF head, tail

\* Blocks never go past the end and keep the order of cursors.
LEMMA BlockProperties ==
    ASSUME NEW c \in 0..TotalFrames
    PROVE  /\ TotalFrames \in Nat
           /\ RemainingBlock(c) \in Nat
           /\ c + RemainingBlock(c) \in 0..TotalFrames
           /\ \A d \in 0..TotalFrames :
                 c <= d => c + RemainingBlock(c) <= d + RemainingBlock(d)
BY LengthsAssumption, SMT DEF RemainingBlock, TotalFrames, Smaller, Larger

\* The playback frames before a position and those in a block add up, and all of
\* them lie before the end.
LEMMA PlaybackBeforeProperties ==
    ASSUME NEW c \in Nat, NEW n \in Nat
    PROVE  /\ PlaybackBefore(c) \in 0..PlaybackFrames
           /\ PlaybackIn(c, n) \in Nat
           /\ PlaybackBefore(c + n) = PlaybackBefore(c) + PlaybackIn(c, n)
           /\ PlaybackBefore(TotalFrames) = PlaybackFrames
<1>1. PadFrames \in Nat /\ PlaybackFrames \in Nat
  BY LengthsAssumption
<1>2. PlaybackBefore(c) \in 0..PlaybackFrames
  BY <1>1, SMT DEF PlaybackBefore, Smaller, Larger
<1>3. PlaybackBefore(c + n) \in Nat /\ PlaybackBefore(c) <= PlaybackBefore(c + n)
  BY <1>1, SMT DEF PlaybackBefore, Smaller, Larger
<1>4. PlaybackBefore(TotalFrames) = PlaybackFrames
  BY <1>1, SMT DEF PlaybackBefore, Smaller, Larger, TotalFrames
<1> QED BY <1>2, <1>3, <1>4 DEF PlaybackIn

-----------------------------------------------------------------------------
(* The streams.                                                            *)

TimelineInv ==
    timeline \in [output : 0..TotalFrames, recorded : 0..TotalFrames, firstInput : BOOLEAN]

\* Whatever happened, the playback goes from the source to the driver in order.
PlaybackInv ==
    /\ Len(played) \in Nat /\ Len(playQueue) \in Nat
    /\ Len(played) + Len(playQueue) <= PlaybackFrames
    /\ Len(playQueue) <= RingFrames
    /\ played = Frames(0, Len(played))
    /\ playQueue = Frames(Len(played), Len(playQueue))

RecordingInv == file \in Seq(Nat) /\ recQueue \in Seq(Nat)

\* A block is played before it is recorded.
LeadInv ==
    /\ timeline.recorded <= timeline.output
    /\ \A t \in Callbacks : callback[t] = "input" =>
          timeline.recorded + RemainingBlock(timeline.recorded) <= timeline.output

StreamInv == TimelineInv /\ PlaybackInv /\ RecordingInv /\ LeadInv /\ StreamsInStep

\* It holds before the first step.
LEMMA InitStream == Init => StreamInv
<1> SUFFICES ASSUME Init PROVE StreamInv
  OBVIOUS
<1>1. played = <<>> /\ playQueue = <<>> /\ file = <<>> /\ recQueue = <<>>
  BY DEF Init, PlaybackRing!Init, RecordingRing!Init
<1>2. timeline = [output |-> 0, recorded |-> 0, firstInput |-> TRUE]
  BY DEF Init
<1>3. <<>> \in Seq(Nat) /\ Len(<<>>) = 0 /\ Frames(0, 0) = <<>>
  <2>1. Frames(0, 0) \in Seq(Nat) /\ Len(Frames(0, 0)) = 0
    BY FramesProperties
  <2> QED BY <2>1, EmptySeq
<1>4. TotalFrames \in Nat
  BY LengthsAssumption, SMT DEF TotalFrames
<1>5. TimelineInv
  BY <1>2, <1>4 DEF TimelineInv
<1>6. PlaybackInv
  BY <1>1, <1>3, LengthsAssumption DEF PlaybackInv
<1>7. RecordingInv
  BY <1>1, <1>3 DEF RecordingInv
<1>8. LeadInv
  BY <1>2 DEF Init, LeadInv
<1>9. PlaybackBefore(0) = 0
  BY LengthsAssumption, SMT DEF PlaybackBefore, Smaller, Larger
<1>10. <<>> \o <<>> = <<>>
  BY <1>3, ConcatEmptySeq
<1>11. StreamsInStep
  BY <1>1, <1>2, <1>3, <1>9, <1>10 DEF StreamsInStep
<1> QED BY <1>5, <1>6, <1>7, <1>8, <1>11 DEF StreamInv

\* An output block keeps the playback in order, and without a failure in step.
LEMMA OutputInStep ==
    ASSUME TimelineInv, PlaybackInv, WriteOutput
    PROVE  /\ TimelineInv' /\ PlaybackInv'
           /\ timeline'.recorded = timeline.recorded
           /\ timeline'.output = timeline.output + RemainingBlock(timeline.output)
           /\ failure' = "none" =>
                 /\ failure = "none"
                 /\ Len(played) = PlaybackBefore(timeline.output) =>
                       Len(played') = PlaybackBefore(timeline'.output)
<1> DEFINE block == RemainingBlock(timeline.output)
           overlap == PlaybackIn(timeline.output, block)
           p == Len(played)
           q == Len(playQueue)
<1>1. timeline.output \in 0..TotalFrames /\ TotalFrames \in Nat
      /\ block \in Nat /\ timeline.output + block \in 0..TotalFrames
  <2>1. timeline.output \in 0..TotalFrames
    BY DEF TimelineInv
  <2> QED BY <2>1, BlockProperties
<1>2. timeline' = [timeline EXCEPT !.output = @ + block]
  BY DEF WriteOutput
<1> HIDE DEF block
<1>3. TimelineInv' /\ timeline'.recorded = timeline.recorded
      /\ timeline'.output = timeline.output + block
  BY <1>1, <1>2 DEF TimelineInv
<1>4. overlap \in Nat
      /\ PlaybackBefore(timeline'.output) = PlaybackBefore(timeline.output) + overlap
  <2>1. timeline.output \in Nat
    BY <1>1
  <2> QED BY <1>1, <1>3, <2>1, PlaybackBeforeProperties
<1>5. \/ overlap = 0 /\ UNCHANGED <<played, playQueue, failure>>
      \/ overlap <= q /\ UNCHANGED failure
         /\ played' = played \o SubSeq(playQueue, 1, overlap)
         /\ playQueue' = SubSeq(playQueue, overlap + 1, q)
      \/ UNCHANGED <<played, playQueue>> /\ failure' = FirstFailure("playback_underflow")
  BY DEF WriteOutput, PlaybackRing!Take, block
<1> HIDE DEF overlap
<1>6. CASE overlap = 0 /\ UNCHANGED <<played, playQueue, failure>>
  <2>1. PlaybackInv'
    BY <1>6 DEF PlaybackInv
  <2>2. PlaybackBefore(timeline.output) \in Nat
    <3>1. timeline.output \in Nat
      BY <1>1
    <3>2. PlaybackBefore(timeline.output) \in 0..PlaybackFrames
      BY <1>1, <3>1, PlaybackBeforeProperties
    <3> QED BY <3>2
  <2> QED BY <1>3, <1>4, <1>6, <2>1, <2>2 DEF block
<1>7. CASE overlap <= q /\ UNCHANGED failure
           /\ played' = played \o SubSeq(playQueue, 1, overlap)
           /\ playQueue' = SubSeq(playQueue, overlap + 1, q)
  <2>1. p \in Nat /\ q \in Nat /\ played = Frames(0, p) /\ playQueue = Frames(p, q)
    BY DEF PlaybackInv
  <2> HIDE DEF p, q
  <2>2. SubSeq(playQueue, 1, overlap) = Frames(p, overlap)
        /\ SubSeq(playQueue, overlap + 1, q) = Frames(p + overlap, q - overlap)
    <3>1. overlap \in 0..q /\ p \in Nat /\ q \in Nat
      BY <1>4, <1>7, <2>1
    <3> QED BY <2>1, <3>1, FramesCut
  <2>3. Frames(0, p) \o Frames(0 + p, overlap) = Frames(0, p + overlap)
    BY <1>4, <2>1, FramesJoin
  <2>4. played' = Frames(0, p + overlap) /\ playQueue' = Frames(p + overlap, q - overlap)
    <3>1. 0 + p = p
      BY <2>1
    <3> QED BY <1>7, <2>1, <2>2, <2>3, <3>1
  <2>5. Len(played') = p + overlap /\ Len(playQueue') = q - overlap
    <3>1. p + overlap \in Nat /\ q - overlap \in Nat /\ 0 \in Nat
      BY <1>4, <1>7, <2>1
    <3> QED BY <2>4, <3>1, FramesProperties
  <2>6. p + overlap \in Nat /\ q - overlap \in Nat
        /\ (p + overlap) + (q - overlap) = p + q /\ q - overlap <= q
    BY <1>4, <1>7, <2>1
  <2>7. PlaybackInv'
    BY <2>1, <2>4, <2>5, <2>6, LengthsAssumption DEF PlaybackInv, p, q
  <2> QED BY <1>3, <1>4, <1>7, <2>5, <2>7 DEF block, p
<1>8. CASE UNCHANGED <<played, playQueue>> /\ failure' = FirstFailure("playback_underflow")
  <2>1. PlaybackInv'
    BY <1>8 DEF PlaybackInv
  <2>2. failure' # "none"
    BY <1>8 DEF FirstFailure
  <2> QED BY <1>3, <2>1, <2>2 DEF block
<1> QED BY <1>5, <1>6, <1>7, <1>8

\* In the priming and in a callback alike.
LEMMA OutputKeepsStreams ==
    ASSUME StreamInv, WriteOutput, UNCHANGED <<file, recQueue>>, faults \subseteq faults'
    PROVE  StreamInv'
<1> USE DEF StreamInv
<1>1. /\ TimelineInv' /\ PlaybackInv'
      /\ timeline'.recorded = timeline.recorded
      /\ timeline'.output = timeline.output + RemainingBlock(timeline.output)
  BY OutputInStep
<1>2. RecordingInv'
  BY DEF RecordingInv
<1>3. LeadInv'
  <2>1. timeline.recorded \in 0..TotalFrames /\ timeline.output \in 0..TotalFrames
        /\ timeline.recorded <= timeline.output
    BY DEF TimelineInv, LeadInv
  <2>2. RemainingBlock(timeline.recorded) \in Nat
        /\ timeline.recorded + RemainingBlock(timeline.recorded)
              <= timeline.output + RemainingBlock(timeline.output)
    BY <2>1, BlockProperties
  <2>3. timeline.recorded <= timeline.output + RemainingBlock(timeline.output)
    <3>1. RemainingBlock(timeline.output) \in Nat /\ TotalFrames \in Nat
      BY <2>1, BlockProperties
    <3> QED BY <2>1, <3>1
  <2> QED BY <1>1, <2>2, <2>3 DEF LeadInv
<1>4. StreamsInStep'
  <2> SUFFICES ASSUME failure' = "none", "conversion" \notin faults'
               PROVE  /\ played' = Frames(0, PlaybackBefore(timeline'.output))
                      /\ file' \o recQueue' = Frames(0, timeline'.recorded)
    BY DEF StreamsInStep
  <2>1. failure = "none" /\ "conversion" \notin faults
    BY OutputInStep
  <2>2. played = Frames(0, PlaybackBefore(timeline.output))
        /\ file \o recQueue = Frames(0, timeline.recorded)
    BY <2>1 DEF StreamsInStep
  <2>3. PlaybackBefore(timeline.output) \in Nat
    <3>1. timeline.output \in 0..TotalFrames /\ TotalFrames \in Nat
      BY BlockProperties DEF TimelineInv
    <3>2. timeline.output \in Nat /\ 0 \in Nat
      BY <3>1
    <3>3. PlaybackBefore(timeline.output) \in 0..PlaybackFrames
      BY <3>2, PlaybackBeforeProperties
    <3> QED BY <3>3
  <2>4. Len(played) = PlaybackBefore(timeline.output)
    BY <2>2, <2>3, FramesProperties
  <2>5. Len(played') = PlaybackBefore(timeline'.output)
    BY <2>4, OutputInStep
  <2> QED BY <1>1, <2>2, <2>5 DEF PlaybackInv
<1> QED BY <1>1, <1>2, <1>3, <1>4

\* An input block goes to the ring whole, or it is published as a failure.
LEMMA InputKeepsStreams ==
    ASSUME StreamInv, AdmissionInv, NEW t \in Callbacks, Input(t)
    PROVE  StreamInv'
<1> DEFINE r == timeline.recorded
           block == RemainingBlock(r)
<1>1. /\ callback[t] = "input" /\ callback \in [Callbacks -> CallbackSteps]
      /\ \E s \in {"deciding", "failing"} : callback' = [callback EXCEPT ![t] = s]
      /\ UNCHANGED <<played, playQueue>>
      /\ file' = file
  BY DEF Input, CallbackMoves, RecordBlock, RecordingRing!Put, AdmissionInv
<1>2. \A u \in Callbacks : callback'[u] # "input"
  BY <1>1 DEF AdmissionInv, Inside
<1>3. /\ r \in 0..TotalFrames /\ timeline.output \in 0..TotalFrames /\ TotalFrames \in Nat
      /\ block \in Nat /\ r + block \in 0..TotalFrames /\ r + block <= timeline.output
  <2>1. r \in 0..TotalFrames /\ timeline.output \in 0..TotalFrames
        /\ r + block <= timeline.output
    BY <1>1 DEF StreamInv, TimelineInv, LeadInv
  <2> QED BY <2>1, BlockProperties
<1>4. PlaybackInv'
  BY <1>1 DEF StreamInv, PlaybackInv
<1>5. \/ /\ timeline' = [timeline EXCEPT !.firstInput = FALSE]
         /\ UNCHANGED <<failure, recQueue, faults>>
      \/ /\ timeline' = [timeline EXCEPT !.recorded = @ + block]
         /\ \/ recQueue' = recQueue \o Frames(r, block) /\ UNCHANGED failure
            \/ failure' = FirstFailure("recording_overflow") /\ UNCHANGED recQueue
         /\ UNCHANGED faults
      \/ /\ timeline' = [timeline EXCEPT !.recorded = @ + block]
         /\ UNCHANGED <<failure, recQueue>>
         /\ "conversion" \in faults'
  BY DEF Input, RecordBlock, RecordingRing!Put, NoHazard, Hazard
<1> HIDE DEF block
<1>6. CASE /\ timeline' = [timeline EXCEPT !.firstInput = FALSE]
           /\ UNCHANGED <<failure, recQueue, faults>>
  <2>1. TimelineInv' /\ timeline'.recorded = r /\ timeline'.output = timeline.output
    BY <1>6 DEF StreamInv, TimelineInv
  <2>2. LeadInv' /\ RecordingInv'
    BY <1>1, <1>2, <1>6, <2>1 DEF StreamInv, LeadInv, RecordingInv
  <2>3. StreamsInStep'
    BY <1>1, <1>6, <2>1 DEF StreamInv, StreamsInStep
  <2> QED BY <1>4, <2>1, <2>2, <2>3 DEF StreamInv
<1>7. CASE timeline' = [timeline EXCEPT !.recorded = @ + block]
  <2>1. TimelineInv' /\ timeline'.recorded = r + block /\ timeline'.output = timeline.output
    BY <1>3, <1>7 DEF StreamInv, TimelineInv
  <2>2. LeadInv'
    BY <1>2, <1>3, <2>1 DEF LeadInv
  <2>3. /\ file \in Seq(Nat) /\ recQueue \in Seq(Nat) /\ Frames(r, block) \in Seq(Nat)
        /\ recQueue \o Frames(r, block) \in Seq(Nat)
    <3>1. r \in Nat
      BY <1>3
    <3>2. Frames(r, block) \in Seq(Nat)
      BY <1>3, <3>1, FramesProperties
    <3>3. file \in Seq(Nat) /\ recQueue \in Seq(Nat)
      BY DEF StreamInv, RecordingInv
    <3> QED BY <3>2, <3>3, ConcatProperties
  <2>4. RecordingInv'
    <3>1. recQueue' = recQueue \/ recQueue' = recQueue \o Frames(r, block)
      BY <1>5
    <3> QED BY <1>1, <2>3, <3>1 DEF RecordingInv
  <2>5. StreamsInStep'
    <3> SUFFICES ASSUME failure' = "none", "conversion" \notin faults'
                 PROVE  /\ played' = Frames(0, PlaybackBefore(timeline'.output))
                        /\ file' \o recQueue' = Frames(0, timeline'.recorded)
      BY DEF StreamsInStep
    <3>1. CASE timeline' = [timeline EXCEPT !.firstInput = FALSE]
      <4>1. timeline'.recorded = r
        BY <3>1 DEF StreamInv, TimelineInv
      <4>2. block = 0
        BY <1>3, <2>1, <4>1
      <4>3. CASE recQueue' = recQueue /\ failure' = failure /\ faults' = faults
        BY <1>1, <2>1, <3>1, <4>1, <4>3 DEF StreamInv, StreamsInStep
      <4>4. CASE recQueue' = recQueue \o Frames(r, block) /\ UNCHANGED <<failure, faults>>
        <5>1. Frames(r, block) = <<>>
          <6>1. r \in Nat /\ 0 \in Nat
            BY <1>3
          <6>2. Frames(r, 0) \in Seq(Nat) /\ Len(Frames(r, 0)) = 0
            BY <6>1, FramesProperties
          <6> QED BY <4>2, <6>2, EmptySeq
        <5>2. recQueue' = recQueue
          BY <2>3, <4>4, <5>1, ConcatEmptySeq
        <5> QED BY <4>3, <4>4, <5>2
      <4> QED BY <1>5, <4>3, <4>4 DEF FirstFailure
    <3>2. CASE timeline' # [timeline EXCEPT !.firstInput = FALSE]
      <4>1. /\ recQueue' = recQueue \o Frames(r, block) /\ failure = "none"
            /\ "conversion" \notin faults
        BY <1>5, <3>2 DEF FirstFailure
      <4>2. file \o recQueue = Frames(0, r) /\ played = Frames(0, PlaybackBefore(timeline.output))
        BY <4>1 DEF StreamInv, StreamsInStep
      <4>3. file \o (recQueue \o Frames(r, block)) = (file \o recQueue) \o Frames(r, block)
        BY <2>3, JoinsAssociate, ZenonT(60)
      <4>4. 0 \in Nat /\ r \in Nat /\ 0 + r = r
        BY <1>3
      <4>5. Frames(0, r) \o Frames(0 + r, block) = Frames(0, r + block)
        BY <1>3, <4>4, FramesJoin
      <4>6. Frames(0, r) \o Frames(r, block) = Frames(0, r + block)
        BY <4>4, <4>5
      <4> QED BY <1>1, <2>1, <4>1, <4>2, <4>3, <4>6
    <3> QED BY <3>1, <3>2
  <2> QED BY <1>4, <2>1, <2>2, <2>4, <2>5 DEF StreamInv
<1> QED BY <1>5, <1>6, <1>7

\* The playback worker appends the frames that follow.
LEMMA PlaybackWritesInOrder ==
    ASSUME PlaybackInv, PlaybackWrites
    PROVE  PlaybackInv'
<1> DEFINE p == Len(played)
           q == Len(playQueue)
           n == Smaller(Smaller(RingFrames - q, ChunkFrames), PlaybackFrames - (p + q))
<1>1. /\ played' = played /\ playQueue' = playQueue \o Frames(p + q, n)
  BY DEF PlaybackWrites, PlaybackRing!Put, PlaybackRing!Room
<1>2. /\ p \in Nat /\ q \in Nat /\ p + q <= PlaybackFrames /\ q <= RingFrames
      /\ played = Frames(0, p) /\ playQueue = Frames(p, q)
  BY DEF PlaybackInv
<1> HIDE DEF p, q
<1>3. /\ n \in Nat /\ p + q \in Nat /\ q + n \in Nat /\ q + n <= RingFrames
      /\ p + (q + n) <= PlaybackFrames
  BY <1>2, LengthsAssumption, SMT DEF Smaller
<1> HIDE DEF n
<1>4. playQueue' = Frames(p, q + n)
  <2>1. Frames(p, q) \o Frames(p + q, n) = Frames(p, q + n)
    BY <1>2, <1>3, FramesJoin
  <2> QED BY <1>1, <1>2, <2>1
<1>5. Len(playQueue') = q + n /\ Len(played') = p
  <2>1. Len(Frames(p, q + n)) = q + n
    BY <1>2, <1>3, FramesProperties
  <2> QED BY <1>1, <1>4, <2>1 DEF p
<1> QED BY <1>1, <1>2, <1>3, <1>4, <1>5 DEF PlaybackInv, p

\* The writer moves frames from the ring to the file, and a block it loses is
\* published as a failure.
LEMMA WriterReadsInOrder ==
    ASSUME RecordingInv, WriterReads
    PROVE  /\ RecordingInv'
           /\ Len(recQueue') <= Len(recQueue)
           /\ failure' = "none" =>
                 failure = "none" /\ file' \o recQueue' = file \o recQueue
<1> DEFINE n == Smaller(Len(recQueue), ChunkFrames)
<1>1. file \in Seq(Nat) /\ recQueue \in Seq(Nat) /\ Len(recQueue) \in Nat
  BY LenProperties DEF RecordingInv
<1>2. n \in 0..Len(recQueue)
  BY <1>1, LengthsAssumption, SMT DEF Smaller
<1>3. \/ UNCHANGED <<recQueue, file, failure>>
      \/ /\ recQueue' = SubSeq(recQueue, n + 1, Len(recQueue))
         /\ file' = file \o SubSeq(recQueue, 1, n)
         /\ failure' = failure \/ failure' = FirstFailure("writer_failure")
      \/ /\ recQueue' = SubSeq(recQueue, n + 1, Len(recQueue)) /\ file' = file
         /\ failure' = FirstFailure("writer_failure")
  BY DEF WriterReads, RecordingRing!Take, WriterFails
<1> HIDE DEF n
<1>4. /\ file \o SubSeq(recQueue, 1, n) \in Seq(Nat)
      /\ SubSeq(recQueue, n + 1, Len(recQueue)) \in Seq(Nat)
      /\ Len(SubSeq(recQueue, n + 1, Len(recQueue))) <= Len(recQueue)
      /\ (file \o SubSeq(recQueue, 1, n)) \o SubSeq(recQueue, n + 1, Len(recQueue))
            = file \o recQueue
  <2>1. Len(recQueue) - n <= Len(recQueue)
    BY <1>1, <1>2
  <2>2. Len(SubSeq(recQueue, n + 1, Len(recQueue))) = Len(recQueue) - n
    BY <1>1, <1>2, TakeKeepsTheStream
  <2>3. /\ file \o SubSeq(recQueue, 1, n) \in Seq(Nat)
        /\ SubSeq(recQueue, n + 1, Len(recQueue)) \in Seq(Nat)
        /\ (file \o SubSeq(recQueue, 1, n)) \o SubSeq(recQueue, n + 1, Len(recQueue))
              = file \o recQueue
    BY <1>1, <1>2, TakeKeepsTheStream
  <2> QED BY <2>1, <2>2, <2>3
<1>5. CASE UNCHANGED <<recQueue, file, failure>>
  BY <1>1, <1>5 DEF RecordingInv
<1>6. CASE /\ recQueue' = SubSeq(recQueue, n + 1, Len(recQueue))
           /\ file' = file \o SubSeq(recQueue, 1, n)
           /\ failure' = failure \/ failure' = FirstFailure("writer_failure")
  <2>1. RecordingInv' /\ Len(recQueue') <= Len(recQueue)
        /\ file' \o recQueue' = file \o recQueue
    BY <1>4, <1>6 DEF RecordingInv
  <2>2. failure' = "none" => failure = "none"
    BY <1>6 DEF FirstFailure
  <2> QED BY <2>1, <2>2
<1>7. CASE /\ recQueue' = SubSeq(recQueue, n + 1, Len(recQueue)) /\ file' = file
           /\ failure' = FirstFailure("writer_failure")
  <2>1. RecordingInv' /\ Len(recQueue') <= Len(recQueue)
    BY <1>1, <1>4, <1>7 DEF RecordingInv
  <2>2. failure' # "none"
    BY <1>7 DEF FirstFailure
  <2> QED BY <2>1, <2>2
<1> QED BY <1>3, <1>5, <1>6, <1>7

\* Every step keeps the streams.
LEMMA NextStream == AdmissionInv /\ StreamInv /\ [Next]_vars => StreamInv'
<1> SUFFICES ASSUME AdmissionInv, StreamInv, [Next]_vars PROVE StreamInv'
  OBVIOUS
<1> USE DEF FirstFailure, controlVars, driverVars, stateVars, threadVars,
   flagVars, ringVars, worldVars, Goto, Throw, ControlOnly, QuietControl,
   NoHazard, Hazard
<1>0. ASSUME UNCHANGED <<timeline, played, playQueue, file, recQueue>>,
             failure' = "none" => failure = "none", faults \subseteq faults',
             \A t \in Callbacks : callback'[t] = "input" => callback[t] = "input"
      PROVE  StreamInv'
  BY <1>0 DEF StreamInv, TimelineInv, PlaybackInv, RecordingInv, LeadInv, StreamsInStep
<1>1. CASE StartWorkers
  BY <1>1, <1>0 DEF StartWorkers
<1>2. CASE PrebufferLevel
  BY <1>2, <1>0 DEF PrebufferLevel
<1>3. CASE PrebufferChecks
  BY <1>3, <1>0 DEF PrebufferChecks
<1>4. CASE PrebufferFinished
  BY <1>4, <1>0 DEF PrebufferFinished
<1>5. CASE Create
  BY <1>5, <1>0 DEF Create
<1>6. CASE Prime
  <2>1. WriteOutput /\ UNCHANGED <<file, recQueue>> /\ faults \subseteq faults'
    BY <1>6 DEF Prime
  <2> QED BY <2>1, OutputKeepsStreams
<1>7. CASE Primed
  BY <1>7, <1>0 DEF Primed
<1>8. CASE Ready
  BY <1>8, <1>0 DEF Ready
<1>9. CASE Start
  BY <1>9, <1>0 DEF Start
<1>10. CASE Started
  BY <1>10, <1>0 DEF Started
<1>11. CASE Wait
  BY <1>11, <1>0 DEF Wait, WaitThrows
<1>12. CASE DrainDecision
  BY <1>12, <1>0 DEF DrainDecision
<1>13. CASE Stop
  BY <1>13, <1>0 DEF Stop
<1>14. CASE CloseGate
  BY <1>14, <1>0 DEF CloseGate
<1>15. CASE AwaitReaders
  BY <1>15, <1>0 DEF AwaitReaders
<1>16. CASE Wake
  BY <1>16, <1>0 DEF Wake
<1>17. CASE JoinPlayback
  BY <1>17, <1>0 DEF JoinPlayback
<1>18. CASE JoinWriter
  BY <1>18, <1>0 DEF JoinWriter
<1>19. CASE Dispose
  BY <1>19, <1>0 DEF Dispose
<1>20. CASE End
  BY <1>20, <1>0 DEF End
<1>21. CASE PlaybackDecides
  BY <1>21, <1>0 DEF PlaybackDecides, NotByPlayback
<1>22. CASE PlaybackWrites
  <2>1. UNCHANGED <<timeline, file, recQueue, failure, faults, callback, played>>
    BY <1>22 DEF PlaybackWrites, NotByPlayback, PlaybackRing!Put
  <2>2. PlaybackInv'
    BY <1>22, PlaybackWritesInOrder DEF StreamInv
  <2> QED
    BY <2>1, <2>2 DEF StreamInv, TimelineInv, RecordingInv, LeadInv, StreamsInStep
<1>23. CASE SourceFails
  BY <1>23, <1>0 DEF SourceFails, NotByPlayback
<1>24. CASE PlaybackFinishes
  BY <1>24, <1>0 DEF PlaybackFinishes, NotByPlayback
<1>25. CASE WriterReads
  <2>1. UNCHANGED <<timeline, played, playQueue, callback>> /\ faults \subseteq faults'
    BY <1>25 DEF WriterReads, NotByWriter
  <2>2. RecordingInv' /\ (failure' = "none" =>
           failure = "none" /\ file' \o recQueue' = file \o recQueue)
    BY <1>25, WriterReadsInOrder DEF StreamInv
  <2> QED
    BY <2>1, <2>2 DEF StreamInv, TimelineInv, PlaybackInv, LeadInv, StreamsInStep
<1>26. CASE WriterChecksFlag
  BY <1>26, <1>0 DEF WriterChecksFlag, WriterMoves, NotByWriter
<1>27. CASE WriterFinishes
  BY <1>27, <1>0 DEF WriterFinishes, WriterMoves, WriterFails, CloseRecording,
     NotByWriter
<1>28. ASSUME NEW t \in Callbacks, Enter(t) PROVE StreamInv'
  <2>1. UNCHANGED <<timeline, played, playQueue, file, recQueue>>
        /\ (failure' = "none" => failure = "none") /\ faults \subseteq faults'
    BY <1>28 DEF Enter, NotByCallbacks
  <2>2. \E s \in CallbackSteps \ {"input"} : callback' = [callback EXCEPT ![t] = s]
    BY <1>28 DEF Enter, CallbackMoves, CallbackSteps, Inside
  <2>3. \A u \in Callbacks : callback'[u] = "input" => callback[u] = "input"
    BY <2>2 DEF AdmissionInv
  <2> QED BY <1>0, <2>1, <2>3
<1>29. ASSUME NEW t \in Callbacks, Begin(t) PROVE StreamInv'
  <2>1. UNCHANGED <<timeline, played, playQueue, file, recQueue>>
        /\ (failure' = "none" => failure = "none") /\ faults \subseteq faults'
    BY <1>29 DEF Begin, NotByCallbacks
  <2>2. \E s \in CallbackSteps \ {"input"} : callback' = [callback EXCEPT ![t] = s]
    BY <1>29 DEF Begin, CallbackMoves, CallbackSteps, Inside
  <2>3. \A u \in Callbacks : callback'[u] = "input" => callback[u] = "input"
    BY <2>2 DEF AdmissionInv
  <2> QED BY <1>0, <2>1, <2>3
<1>30. ASSUME NEW t \in Callbacks, Output(t) PROVE StreamInv'
  <2>1. WriteOutput /\ UNCHANGED <<file, recQueue>> /\ faults \subseteq faults'
    BY <1>30 DEF Output, NotByCallbacks
  <2> QED BY <2>1, OutputKeepsStreams
<1>31. ASSUME NEW t \in Callbacks, Input(t) PROVE StreamInv'
  BY <1>31, InputKeepsStreams
<1>32. ASSUME NEW t \in Callbacks, Decide(t) PROVE StreamInv'
  <2>1. UNCHANGED <<timeline, played, playQueue, file, recQueue>>
        /\ (failure' = "none" => failure = "none") /\ faults \subseteq faults'
    BY <1>32 DEF Decide, NotByCallbacks
  <2>2. \E s \in CallbackSteps \ {"input"} : callback' = [callback EXCEPT ![t] = s]
    BY <1>32 DEF Decide, CallbackMoves, CallbackSteps, Inside
  <2>3. \A u \in Callbacks : callback'[u] = "input" => callback[u] = "input"
    BY <2>2 DEF AdmissionInv
  <2> QED BY <1>0, <2>1, <2>3
<1>33. ASSUME NEW t \in Callbacks, Clear(t) PROVE StreamInv'
  <2>1. UNCHANGED <<timeline, played, playQueue, file, recQueue>>
        /\ (failure' = "none" => failure = "none") /\ faults \subseteq faults'
    BY <1>33 DEF Clear, NotByCallbacks
  <2>2. \E s \in CallbackSteps \ {"input"} : callback' = [callback EXCEPT ![t] = s]
    BY <1>33 DEF Clear, CallbackMoves, CallbackSteps, Inside
  <2>3. \A u \in Callbacks : callback'[u] = "input" => callback[u] = "input"
    BY <2>2 DEF AdmissionInv
  <2> QED BY <1>0, <2>1, <2>3
<1>34. ASSUME NEW t \in Callbacks, Signal(t) PROVE StreamInv'
  <2>1. UNCHANGED <<timeline, played, playQueue, file, recQueue>>
        /\ (failure' = "none" => failure = "none") /\ faults \subseteq faults'
    BY <1>34 DEF Signal, NotByCallbacks
  <2>2. \E s \in CallbackSteps \ {"input"} : callback' = [callback EXCEPT ![t] = s]
    BY <1>34 DEF Signal, CallbackMoves, CallbackSteps, Inside
  <2>3. \A u \in Callbacks : callback'[u] = "input" => callback[u] = "input"
    BY <2>2 DEF AdmissionInv
  <2> QED BY <1>0, <2>1, <2>3
<1>35. ASSUME NEW t \in Callbacks, Leave(t) PROVE StreamInv'
  <2>1. UNCHANGED <<timeline, played, playQueue, file, recQueue>>
        /\ (failure' = "none" => failure = "none") /\ faults \subseteq faults'
    BY <1>35 DEF Leave, NotByCallbacks
  <2>2. \E s \in CallbackSteps \ {"input"} : callback' = [callback EXCEPT ![t] = s]
    BY <1>35 DEF Leave, CallbackMoves, CallbackSteps, Inside
  <2>3. \A u \in Callbacks : callback'[u] = "input" => callback[u] = "input"
    BY <2>2 DEF AdmissionInv
  <2> QED BY <1>0, <2>1, <2>3
<1>36. CASE Notify
  BY <1>36, <1>0 DEF Notify, NotByCallbacks, CallbackMoves
<1>37. CASE Cancel
  BY <1>37, <1>0 DEF Cancel
<1>38. CASE Expire
  BY <1>38, <1>0 DEF Expire
<1>39. CASE UNCHANGED vars
  BY <1>39, <1>0 DEF vars
<1> QED
  BY <1>1, <1>2, <1>3, <1>4, <1>5, <1>6, <1>7, <1>8, <1>9, <1>10, <1>11,
     <1>12, <1>13, <1>14, <1>15, <1>16, <1>17, <1>18, <1>19, <1>20, <1>21,
     <1>22, <1>23, <1>24, <1>25, <1>26, <1>27, <1>28, <1>29, <1>30, <1>31,
     <1>32, <1>33, <1>34, <1>35, <1>36, <1>37, <1>38, <1>39 DEF Next,
     ControlStep, PlaybackStep, WriterStep, CallbackStep

-----------------------------------------------------------------------------
(* The verdict.                                                            *)

\* The callbacks count what they recorded, a conversion that failed is never
\* forgotten, the writer finishes with a whole file, and a success found
\* everything as a success needs it.
SuccessInv ==
    /\ thrown \in {"none", "cancelled", "backend_failure"} \cup Failures
    /\ failure \in {"none"} \cup Failures
    /\ completedFrames \in Nat /\ completedFrames <= timeline.recorded
    /\ "conversion" \in faults =>
          \/ thrown # "none" \/ "conversion" \in events
          \/ \E t \in Callbacks : callback[t] = "failing"
    /\ writerFinished => writer = "exited" /\ Len(file) = TotalFrames
    /\ outcome = "ok" =>
          /\ thrown = "none" /\ failure = "none" /\ events = {}
          /\ completedFrames >= TotalFrames /\ writerFinished /\ scratch = "transferred"

\* It holds before the first step.
LEMMA InitSuccess == Init => SuccessInv
BY DEF Init, SuccessInv, Failures

\* What a callback counts, it has recorded.
LEMMA InputCounts ==
    ASSUME StreamInv, completedFrames \in Nat, completedFrames <= timeline.recorded,
           NEW t \in Callbacks, Input(t)
    PROVE  completedFrames' \in Nat /\ completedFrames' <= timeline'.recorded
<1> DEFINE block == RemainingBlock(timeline.recorded)
<1>1. timeline.recorded \in Nat /\ block \in Nat
  <2>1. timeline.recorded \in 0..TotalFrames
    BY DEF StreamInv, TimelineInv
  <2>2. block \in Nat /\ TotalFrames \in Nat
    BY <2>1, BlockProperties
  <2> QED BY <2>1, <2>2
<1>2. \/ timeline' = [timeline EXCEPT !.firstInput = FALSE] /\ UNCHANGED completedFrames
      \/ /\ timeline' = [timeline EXCEPT !.recorded = @ + block]
         /\ completedFrames' = timeline'.recorded \/ UNCHANGED completedFrames
  BY DEF Input
<1>3. DOMAIN timeline = {"output", "recorded", "firstInput"}
      /\ timeline \in [output : 0..TotalFrames, recorded : 0..TotalFrames, firstInput : BOOLEAN]
  BY DEF StreamInv, TimelineInv
<1> HIDE DEF block
<1>4. CASE timeline' = [timeline EXCEPT !.firstInput = FALSE] /\ UNCHANGED completedFrames
  <2>1. timeline'.recorded = timeline.recorded
    BY <1>3, <1>4
  <2> QED BY <1>4, <2>1
<1>5. CASE /\ timeline' = [timeline EXCEPT !.recorded = @ + block]
           /\ completedFrames' = timeline'.recorded \/ UNCHANGED completedFrames
  <2>1. timeline'.recorded = timeline.recorded + block
    BY <1>3, <1>5
  <2> QED BY <1>1, <1>5, <2>1
<1> QED BY <1>2, <1>4, <1>5

\* Every step keeps it.
LEMMA NextSuccess == AdmissionInv /\ HoldingInv /\ StreamInv /\ SuccessInv /\
   [Next]_vars => SuccessInv'
<1> SUFFICES ASSUME AdmissionInv, HoldingInv, StreamInv, SuccessInv,
   [Next]_vars PROVE SuccessInv'
  OBVIOUS
<1> USE DEF AdmissionInv, HoldingInv, SuccessInv, Serving, FirstFailure,
   Failures, AfterBarrier, BeforeStart, controlVars, driverVars, stateVars,
   threadVars, flagVars, ringVars, worldVars, Goto, Throw, ControlOnly,
   QuietControl, NoHazard, Hazard
<1>1. CASE StartWorkers
  BY <1>1 DEF StartWorkers
<1>2. CASE PrebufferLevel
  BY <1>2 DEF PrebufferLevel
<1>3. CASE PrebufferChecks
  BY <1>3 DEF PrebufferChecks
<1>4. CASE PrebufferFinished
  BY <1>4 DEF PrebufferFinished
<1>5. CASE Create
  BY <1>5 DEF Create
<1>6. CASE Prime
  BY <1>6 DEF Prime, WriteOutput, PlaybackRing!Take
<1>7. CASE Primed
  BY <1>7 DEF Primed
<1>8. CASE Ready
  BY <1>8 DEF Ready
<1>9. CASE Start
  BY <1>9 DEF Start
<1>10. CASE Started
  BY <1>10 DEF Started
<1>11. CASE Wait
  BY <1>11 DEF Wait, WaitThrows
<1>12. CASE DrainDecision
  BY <1>12 DEF DrainDecision
<1>13. CASE Stop
  BY <1>13 DEF Stop
<1>14. CASE CloseGate
  BY <1>14 DEF CloseGate
<1>15. CASE AwaitReaders
  BY <1>15 DEF AwaitReaders
<1>16. CASE Wake
  BY <1>16 DEF Wake
<1>17. CASE JoinPlayback
  BY <1>17 DEF JoinPlayback
<1>18. CASE JoinWriter
  BY <1>18 DEF JoinWriter
<1>19. CASE Dispose
  BY <1>19 DEF Dispose
<1>20. CASE End
  <2>1. TotalFrames \in Nat /\ control = "verdict" /\ outcome' \in {Verdict, "backend_failure"}
        /\ scratch' = (IF outcome' = "ok" THEN "transferred" ELSE "deleted")
    BY <1>20, LengthsAssumption DEF End, TotalFrames
  <2>2. UNCHANGED <<thrown, failure, events, completedFrames, timeline, writer, writerFinished,
                    file, callback>> /\ faults \subseteq faults'
    BY <1>20 DEF End
  <2>3. "conversion" \in faults' => "conversion" \in faults
    BY <1>20 DEF End
  <2>4. outcome' = "ok" => Verdict = "ok"
    BY <2>1
  <2>5. Verdict = "ok" => /\ thrown = "none" /\ failure = "none" /\ events = {}
                          /\ ~(completedFrames < TotalFrames) /\ writerFinished
    BY DEF Verdict
  <2> QED BY <2>1, <2>2, <2>3, <2>4, <2>5
<1>21. CASE PlaybackDecides
  BY <1>21 DEF PlaybackDecides, NotByPlayback
<1>22. CASE PlaybackWrites
  BY <1>22 DEF PlaybackWrites, PlaybackRing!Put, NotByPlayback
<1>23. CASE SourceFails
  BY <1>23 DEF SourceFails, NotByPlayback
<1>24. CASE PlaybackFinishes
  BY <1>24 DEF PlaybackFinishes, NotByPlayback
<1>25. CASE WriterReads
  BY <1>25 DEF WriterReads, RecordingRing!Take, WriterFails, WriterMoves,
     NotByWriter
<1>26. CASE WriterChecksFlag
  BY <1>26 DEF WriterChecksFlag, WriterMoves, NotByWriter
<1>27. CASE WriterFinishes
  BY <1>27 DEF WriterFinishes, WriterMoves, WriterFails, CloseRecording,
     NotByWriter
<1>28. ASSUME NEW t \in Callbacks, Enter(t) PROVE SuccessInv'
  BY <1>28 DEF Enter, NotByCallbacks, CallbackMoves
<1>29. ASSUME NEW t \in Callbacks, Begin(t) PROVE SuccessInv'
  BY <1>29 DEF Begin, NotByCallbacks, CallbackMoves
<1>30. ASSUME NEW t \in Callbacks, Output(t) PROVE SuccessInv'
  BY <1>30 DEF Output, WriteOutput, PlaybackRing!Take, NotByCallbacks,
     CallbackMoves
<1>31. ASSUME NEW t \in Callbacks, Input(t) PROVE SuccessInv'
  <2>1. /\ UNCHANGED <<control, outcome, thrown, events, writer, writerFinished, file>>
        /\ callback[t] = "input"
    BY <1>31 DEF Input, RecordBlock, RecordingRing!Put, NotByCallbacks, CallbackMoves
  <2>2. completedFrames' \in Nat /\ completedFrames' <= timeline'.recorded
    BY <1>31, InputCounts
  <2>3. failure' \in {failure, FirstFailure("recording_overflow")}
    BY <1>31 DEF Input, RecordBlock
  <2>4. \/ callback' = [callback EXCEPT ![t] = "deciding"] /\ UNCHANGED faults
        \/ callback' = [callback EXCEPT ![t] = "failing"]
    BY <1>31 DEF Input, CallbackMoves
  <2>5. "conversion" \in faults' =>
           \/ thrown' # "none" \/ "conversion" \in events'
           \/ \E u \in Callbacks : callback'[u] = "failing"
    BY <2>1, <2>4
  <2> QED BY <2>1, <2>2, <2>3, <2>5
<1>32. ASSUME NEW t \in Callbacks, Decide(t) PROVE SuccessInv'
  BY <1>32 DEF Decide, NotByCallbacks, CallbackMoves
<1>33. ASSUME NEW t \in Callbacks, Clear(t) PROVE SuccessInv'
  BY <1>33 DEF Clear, NotByCallbacks, CallbackMoves
<1>34. ASSUME NEW t \in Callbacks, Signal(t) PROVE SuccessInv'
  BY <1>34 DEF Signal, NotByCallbacks, CallbackMoves
<1>35. ASSUME NEW t \in Callbacks, Leave(t) PROVE SuccessInv'
  BY <1>35 DEF Leave, NotByCallbacks, CallbackMoves
<1>36. CASE Notify
  BY <1>36 DEF Notify, NotByCallbacks, CallbackMoves
<1>37. CASE Cancel
  BY <1>37 DEF Cancel
<1>38. CASE Expire
  BY <1>38 DEF Expire
<1>39. CASE UNCHANGED vars
  BY <1>39 DEF vars
<1> QED
  BY <1>1, <1>2, <1>3, <1>4, <1>5, <1>6, <1>7, <1>8, <1>9, <1>10, <1>11,
     <1>12, <1>13, <1>14, <1>15, <1>16, <1>17, <1>18, <1>19, <1>20, <1>21,
     <1>22, <1>23, <1>24, <1>25, <1>26, <1>27, <1>28, <1>29, <1>30, <1>31,
     <1>32, <1>33, <1>34, <1>35, <1>36, <1>37, <1>38, <1>39 DEF Next,
     ControlStep, PlaybackStep, WriterStep, CallbackStep

-----------------------------------------------------------------------------
(* The theorems.                                                           *)

IInv == AdmissionInv /\ HoldingInv /\ StreamInv /\ SuccessInv

\* The inductive invariant holds in every behaviour.
THEOREM CaptureInvariant == Spec => []IInv
<1>1. Init => IInv
  BY InitAdmission, InitHolding, InitStream, InitSuccess DEF IInv
<1>2. IInv /\ [Next]_vars => IInv'
  BY NextAdmission, NextHolding, NextStream, NextSuccess DEF IInv
<1> QED BY <1>1, <1>2, PTL DEF Spec

\* At most one callback is inside the guarded part of process, and none is
\* while the control thread primes or disposes of the buffers.
THEOREM CaptureOneProcessor == Spec => []OneProcessor
<1>1. IInv => OneProcessor
  <2> SUFFICES ASSUME AdmissionInv PROVE OneProcessor
    BY DEF IInv
  <2>1. \A t \in Processing : t \in Callbacks /\ callback[t] \in Inside
    BY DEF Processing, AdmissionInv, CallbackSteps
  <2>2. Cardinality(Processing) <= 1
    <3>1. CASE Processing = {}
      BY <3>1, FS_EmptySet
    <3>2. CASE Processing # {}
      <4>1. PICK t \in Processing : TRUE
        BY <3>2
      <4>2. Processing = {t}
        BY <2>1, <4>1 DEF AdmissionInv
      <4>3. Cardinality({t}) = 1
        BY FS_Singleton
      <4> QED BY <4>2, <4>3
    <3> QED BY <3>1, <3>2
  <2>3. control \in {"prime", "dispose", "verdict", "ended"} => Processing = {}
    BY <2>1 DEF AdmissionInv, Serving, Inside
  <2> QED BY <2>2, <2>3 DEF OneProcessor
<1> QED BY <1>1, CaptureInvariant, PTL

\* Without a failure the rings and the file hold exactly what the timeline says.
THEOREM CaptureStreamsInStep == Spec => []StreamsInStep
<1>1. IInv => StreamsInStep
  BY DEF IInv, StreamInv
<1> QED BY <1>1, CaptureInvariant, PTL

\* A success left nothing out: the whole playback was played, the file holds
\* the whole recording in order, and nothing was there to complain of.
THEOREM CaptureSuccessIsComplete == Spec => []SuccessIsComplete
<1>1. IInv => SuccessIsComplete
  <2> SUFFICES ASSUME IInv, outcome = "ok" PROVE
         /\ played = Frames(0, PlaybackFrames) /\ file = Frames(0, TotalFrames)
         /\ failure = "none" /\ events = {} /\ scratch = "transferred"
    BY DEF SuccessIsComplete
  <2>1. /\ thrown = "none" /\ failure = "none" /\ events = {} /\ scratch = "transferred"
        /\ completedFrames \in Nat /\ completedFrames >= TotalFrames
        /\ completedFrames <= timeline.recorded /\ Len(file) = TotalFrames
    BY DEF IInv, SuccessInv
  <2>2. \A t \in Callbacks : callback[t] = "out"
    BY DEF IInv, HoldingInv, AdmissionInv, Serving
  <2>3. "conversion" \notin faults
    BY <2>1, <2>2 DEF IInv, SuccessInv
  <2>4. played = Frames(0, PlaybackBefore(timeline.output))
        /\ file \o recQueue = Frames(0, timeline.recorded)
    BY <2>1, <2>3 DEF IInv, StreamInv, StreamsInStep
  <2>5. TotalFrames \in Nat /\ 0 \in Nat
    BY LengthsAssumption DEF TotalFrames
  <2>6. timeline.recorded = TotalFrames /\ timeline.output = TotalFrames
    <3>1. /\ timeline.recorded \in 0..TotalFrames /\ timeline.output \in 0..TotalFrames
          /\ timeline.recorded <= timeline.output
      BY DEF IInv, StreamInv, TimelineInv, LeadInv
    <3> QED BY <2>1, <2>5, <3>1
  <2>7. played = Frames(0, PlaybackFrames)
    BY <2>4, <2>5, <2>6, PlaybackBeforeProperties
  <2>8. file \in Seq(Nat) /\ recQueue \in Seq(Nat)
    BY DEF IInv, StreamInv, RecordingInv
  <2>9. recQueue = <<>>
    <3>1. Len(file \o recQueue) = TotalFrames
      BY <2>4, <2>5, <2>6, FramesProperties
    <3>2. Len(file \o recQueue) = Len(file) + Len(recQueue) /\ Len(recQueue) \in Nat
      BY <2>8, ConcatProperties, LenProperties
    <3>3. Len(recQueue) = 0
      BY <2>1, <2>5, <3>1, <3>2
    <3> QED BY <2>8, <3>3, EmptySeq
  <2>10. file = Frames(0, TotalFrames)
    <3>1. file \o recQueue = file
      BY <2>8, <2>9, ConcatEmptySeq
    <3> QED BY <2>4, <2>6, <3>1
  <2> QED BY <2>1, <2>7, <2>10
<1> QED BY <1>1, CaptureInvariant, PTL

\* Past the barrier no step touches what the callbacks had to say.
LEMMA QuietSteps == IInv /\ control \in AfterBarrier /\ [Next]_vars =>
   QuietStep
<1> SUFFICES ASSUME IInv, control \in AfterBarrier, [Next]_vars PROVE
   QuietStep
  OBVIOUS
<1> USE DEF IInv, AdmissionInv, HoldingInv, Serving, BeforeStart,
   AfterBarrier, controlVars, driverVars, stateVars, threadVars, flagVars,
   ringVars, worldVars, Goto, Throw, ControlOnly, QuietControl, NoHazard,
   Hazard
<1>0. Len(recQueue) \in Nat /\ Len(recQueue) <= Len(recQueue)
  BY LenProperties DEF StreamInv, RecordingInv
<1>1. CASE StartWorkers
  BY <1>1, <1>0 DEF StartWorkers, QuietStep
<1>2. CASE PrebufferLevel
  BY <1>2, <1>0 DEF PrebufferLevel, QuietStep
<1>3. CASE PrebufferChecks
  BY <1>3, <1>0 DEF PrebufferChecks, QuietStep
<1>4. CASE PrebufferFinished
  BY <1>4, <1>0 DEF PrebufferFinished, QuietStep
<1>5. CASE Create
  BY <1>5, <1>0 DEF Create, QuietStep
<1>6. CASE Prime
  BY <1>6, <1>0 DEF Prime, WriteOutput, PlaybackRing!Take, QuietStep
<1>7. CASE Primed
  BY <1>7, <1>0 DEF Primed, QuietStep
<1>8. CASE Ready
  BY <1>8, <1>0 DEF Ready, QuietStep
<1>9. CASE Start
  BY <1>9, <1>0 DEF Start, QuietStep
<1>10. CASE Started
  BY <1>10, <1>0 DEF Started, QuietStep
<1>11. CASE Wait
  BY <1>11, <1>0 DEF Wait, WaitThrows, QuietStep
<1>12. CASE DrainDecision
  BY <1>12, <1>0 DEF DrainDecision, QuietStep
<1>13. CASE Stop
  BY <1>13, <1>0 DEF Stop, QuietStep
<1>14. CASE CloseGate
  BY <1>14, <1>0 DEF CloseGate, QuietStep
<1>15. CASE AwaitReaders
  BY <1>15, <1>0 DEF AwaitReaders, QuietStep
<1>16. CASE Wake
  BY <1>16, <1>0 DEF Wake, QuietStep
<1>17. CASE JoinPlayback
  BY <1>17, <1>0 DEF JoinPlayback, QuietStep
<1>18. CASE JoinWriter
  BY <1>18, <1>0 DEF JoinWriter, QuietStep
<1>19. CASE Dispose
  BY <1>19, <1>0 DEF Dispose, QuietStep
<1>20. CASE End
  BY <1>20, <1>0 DEF End, QuietStep
<1>21. CASE PlaybackDecides
  BY <1>21, <1>0 DEF PlaybackDecides, NotByPlayback, QuietStep
<1>22. CASE PlaybackWrites
  BY <1>22, <1>0 DEF PlaybackWrites, PlaybackRing!Put, NotByPlayback,
     QuietStep
<1>23. CASE SourceFails
  BY <1>23, <1>0 DEF SourceFails, NotByPlayback, QuietStep
<1>24. CASE PlaybackFinishes
  BY <1>24, <1>0 DEF PlaybackFinishes, NotByPlayback, QuietStep
<1>25. CASE WriterReads
  BY <1>25, WriterReadsInOrder DEF StreamInv, WriterReads, NotByWriter, QuietStep
<1>26. CASE WriterChecksFlag
  BY <1>26, <1>0 DEF WriterChecksFlag, WriterMoves, NotByWriter, QuietStep
<1>27. CASE WriterFinishes
  BY <1>27, <1>0 DEF WriterFinishes, WriterMoves, WriterFails, CloseRecording,
     NotByWriter, QuietStep
<1>28. ASSUME NEW t \in Callbacks, Enter(t) PROVE QuietStep
  BY <1>28, <1>0 DEF Enter, NotByCallbacks, CallbackMoves, QuietStep
<1>29. ASSUME NEW t \in Callbacks, Begin(t) PROVE QuietStep
  BY <1>29, <1>0 DEF Begin, NotByCallbacks, CallbackMoves, QuietStep
<1>30. ASSUME NEW t \in Callbacks, Output(t) PROVE QuietStep
  BY <1>30, <1>0 DEF Output, WriteOutput, PlaybackRing!Take, NotByCallbacks,
     CallbackMoves, QuietStep
<1>31. ASSUME NEW t \in Callbacks, Input(t) PROVE QuietStep
  BY <1>31, <1>0 DEF Input, RecordBlock, RecordingRing!Put, NotByCallbacks,
     CallbackMoves, QuietStep
<1>32. ASSUME NEW t \in Callbacks, Decide(t) PROVE QuietStep
  BY <1>32, <1>0 DEF Decide, NotByCallbacks, CallbackMoves, QuietStep
<1>33. ASSUME NEW t \in Callbacks, Clear(t) PROVE QuietStep
  BY <1>33, <1>0 DEF Clear, NotByCallbacks, CallbackMoves, QuietStep
<1>34. ASSUME NEW t \in Callbacks, Signal(t) PROVE QuietStep
  BY <1>34, <1>0 DEF Signal, NotByCallbacks, CallbackMoves, QuietStep
<1>35. ASSUME NEW t \in Callbacks, Leave(t) PROVE QuietStep
  BY <1>35, <1>0 DEF Leave, NotByCallbacks, CallbackMoves, QuietStep
<1>36. CASE Notify
  BY <1>36, <1>0 DEF Notify, NotByCallbacks, CallbackMoves, QuietStep
<1>37. CASE Cancel
  BY <1>37, <1>0 DEF Cancel, QuietStep
<1>38. CASE Expire
  BY <1>38, <1>0 DEF Expire, QuietStep
<1>39. CASE UNCHANGED vars
  BY <1>39, <1>0 DEF vars, QuietStep
<1> QED
  BY <1>1, <1>2, <1>3, <1>4, <1>5, <1>6, <1>7, <1>8, <1>9, <1>10, <1>11,
     <1>12, <1>13, <1>14, <1>15, <1>16, <1>17, <1>18, <1>19, <1>20, <1>21,
     <1>22, <1>23, <1>24, <1>25, <1>26, <1>27, <1>28, <1>29, <1>30, <1>31,
     <1>32, <1>33, <1>34, <1>35, <1>36, <1>37, <1>38, <1>39 DEF Next,
     ControlStep, PlaybackStep, WriterStep, CallbackStep

\* Once the gate is closed and drained the rings and the callbacks' flags are
\* left to the writer and the verdict.
THEOREM CaptureQuietAfterBarrier == Spec => QuietAfterBarrier
<1>1. IInv /\ [Next]_vars => [(control \in AfterBarrier => QuietStep)]_vars
  BY QuietSteps
<1> QED BY <1>1, CaptureInvariant, PTL DEF Spec, QuietAfterBarrier

-----------------------------------------------------------------------------
(* The refinement of CaptureLifecycle.                                     *)

Busy == \E t \in Callbacks : callback[t] # "out"
Working == playbackWorker # "idle" /\ ~joined
Stored == scratch \in {"open", "closed"}

LifecycleStep == [Lifecycle!Next]_<<Held, failure, outcome>>

\* What it means to hold each resource, ...
LEMMA HeldMembers ==
    /\ "stream" \in Held <=> stream = "running"
    /\ "gate" \in Held <=> gateOpen
    /\ "callbacks" \in Held <=> Busy
    /\ "workers" \in Held <=> Working
    /\ "buffers" \in Held <=> buffers
    /\ "scratch" \in Held <=> Stored
    /\ Held \subseteq {"stream", "gate", "callbacks", "workers", "buffers", "scratch"}
BY DEF Held, Busy, Working, Stored

\* ... and to hold it after a step.
LEMMA HeldMembersNext ==
    /\ "stream" \in Held' <=> stream' = "running"
    /\ "gate" \in Held' <=> gateOpen'
    /\ "callbacks" \in Held' <=> Busy'
    /\ "workers" \in Held' <=> Working'
    /\ "buffers" \in Held' <=> buffers'
    /\ "scratch" \in Held' <=> Stored'
    /\ Held' \subseteq {"stream", "gate", "callbacks", "workers", "buffers", "scratch"}
BY DEF Held, Busy, Working, Stored

\* A set that agrees with another on every resource but one.
LEMMA OneLess ==
    ASSUME NEW r \in {"stream", "gate", "callbacks", "workers", "buffers", "scratch"},
           r \in Held, r \notin Held',
           \A x \in {"stream", "gate", "callbacks", "workers", "buffers", "scratch"} \ {r} :
              x \in Held' <=> x \in Held
    PROVE  Held' = Held \ {r}
<1>1. Held \subseteq {"stream", "gate", "callbacks", "workers", "buffers", "scratch"}
      /\ Held' \subseteq {"stream", "gate", "callbacks", "workers", "buffers", "scratch"}
  BY HeldMembers, HeldMembersNext
<1> QED BY <1>1

\* The first callback that comes in.
LEMMA CallbacksJoin ==
    ASSUME Busy', UNCHANGED <<stream, gateOpen, buffers>>,
           Working' = Working, Stored' = Stored
    PROVE  Held' = Held \cup {"callbacks"}
<1>1. /\ "stream" \in Held' <=> "stream" \in Held
      /\ "gate" \in Held' <=> "gate" \in Held
      /\ "workers" \in Held' <=> "workers" \in Held
      /\ "buffers" \in Held' <=> "buffers" \in Held
      /\ "scratch" \in Held' <=> "scratch" \in Held
      /\ "callbacks" \in Held'
  BY HeldMembers, HeldMembersNext
<1>2. /\ Held \subseteq {"stream", "gate", "callbacks", "workers", "buffers", "scratch"}
      /\ Held' \subseteq {"stream", "gate", "callbacks", "workers", "buffers", "scratch"}
  BY HeldMembers, HeldMembersNext
<1>3. \A x : x \in Held' <=> x \in Held \cup {"callbacks"}
  BY <1>1, <1>2
<1> QED BY <1>3

\* The resources of CaptureLifecycle, listed.
LEMMA LifecycleResources ==
    Lifecycle!Resources = {"stream", "gate", "callbacks", "workers", "buffers", "scratch"}
BY DEF Lifecycle!Resources, Lifecycle!UsersOf

\* A step that takes nothing and gives nothing back publishes a failure, or
\* nobody sees it.
LEMMA Stays ==
    ASSUME stream' = "running" <=> stream = "running", gateOpen' <=> gateOpen,
           Busy' <=> Busy, Working' <=> Working, buffers' <=> buffers, Stored' <=> Stored,
           outcome' = outcome, failure' = failure \/ (failure = "none" /\ failure' # "none")
    PROVE  LifecycleStep
<1>1. Held' = Held
  <2>1. /\ "stream" \in Held' <=> "stream" \in Held
        /\ "gate" \in Held' <=> "gate" \in Held
        /\ "callbacks" \in Held' <=> "callbacks" \in Held
        /\ "workers" \in Held' <=> "workers" \in Held
        /\ "buffers" \in Held' <=> "buffers" \in Held
        /\ "scratch" \in Held' <=> "scratch" \in Held
    BY HeldMembers, HeldMembersNext
  <2>2. \A x \in {"stream", "gate", "callbacks", "workers", "buffers", "scratch"} :
           x \in Held' <=> x \in Held
    BY <2>1
  <2>3. Held \subseteq {"stream", "gate", "callbacks", "workers", "buffers", "scratch"}
        /\ Held' \subseteq {"stream", "gate", "callbacks", "workers", "buffers", "scratch"}
    BY HeldMembers, HeldMembersNext
  <2>4. \A x : x \in Held' <=> x \in Held
    BY <2>2, <2>3
  <2> QED BY <2>4
<1>2. CASE failure' = failure
  BY <1>1, <1>2 DEF LifecycleStep
<1>3. CASE failure = "none" /\ failure' # "none"
  BY <1>1, <1>3 DEF LifecycleStep, Lifecycle!Next, Lifecycle!Fail
<1> QED BY <1>2, <1>3

\* A step that takes some of the resources.
LEMMA Takes ==
    ASSUME NEW S \in SUBSET {"stream", "gate", "callbacks", "workers", "buffers", "scratch"},
           S # {}, Held' = Held \cup S, "callbacks" \in S => gateOpen,
           outcome = "none", UNCHANGED <<failure, outcome>>
    PROVE  LifecycleStep
<1>1. Lifecycle!Acquire(S)
  BY HeldMembers DEF Lifecycle!Acquire
<1> QED BY <1>1, LifecycleResources DEF LifecycleStep, Lifecycle!Next

\* A step that gives one of them back, when none of its users is held.
LEMMA GivesBack ==
    ASSUME NEW r \in {"stream", "gate", "callbacks", "workers", "buffers", "scratch"},
           r \in Held, Lifecycle!UsersOf[r] \cap Held = {}, Held' = Held \ {r},
           UNCHANGED <<failure, outcome>>
    PROVE  LifecycleStep
<1>1. Lifecycle!Release(r)
  BY DEF Lifecycle!Release
<1> QED BY <1>1, LifecycleResources DEF LifecycleStep, Lifecycle!Next

\* Every step takes, gives back, fails, ends, or stays.
LEMMA StepsImplementLifecycle == IInv /\ [Next]_vars => LifecycleStep
<1> SUFFICES ASSUME IInv, [Next]_vars PROVE LifecycleStep
  OBVIOUS
<1> USE DEF IInv, AdmissionInv, HoldingInv, SuccessInv, FirstFailure,
   Failures, Serving, BeforeStart, AfterBarrier, Inside, CallbackSteps,
   controlVars, driverVars, stateVars, threadVars, flagVars, ringVars,
   worldVars, Goto, Throw, ControlOnly, QuietControl, NoHazard, Hazard
<1>0. /\ {"workers", "scratch"} # {} /\ {"gate", "buffers"} # {} /\ {"stream"} # {}
      /\ "callbacks" \notin {"workers", "scratch"} \cup {"gate", "buffers"} \cup {"stream"}
  BY ZenonT(60)
<1>1. CASE StartWorkers
  <2>1. Held' = Held \cup {"workers", "scratch"}
    BY <1>1, HeldMembers, HeldMembersNext, ZenonT(60) DEF StartWorkers, Busy, Working, Stored
  <2>2. outcome = "none" /\ UNCHANGED <<failure, outcome>>
    BY <1>1 DEF StartWorkers
  <2> QED BY <1>0, <2>1, <2>2, Takes
<1>2. CASE PrebufferLevel
  BY <1>2, Stays DEF PrebufferLevel, Busy, Working, Stored
<1>3. CASE PrebufferChecks
  BY <1>3, Stays DEF PrebufferChecks, Busy, Working, Stored
<1>4. CASE PrebufferFinished
  BY <1>4, Stays DEF PrebufferFinished, Busy, Working, Stored
<1>5. CASE Create
  <2>1. Held' = Held \cup {"gate", "buffers"}
    BY <1>5, HeldMembers, HeldMembersNext DEF Create, Busy, Working, Stored
  <2>2. outcome = "none" /\ UNCHANGED <<failure, outcome>>
    BY <1>5 DEF Create
  <2> QED BY <1>0, <2>1, <2>2, Takes
<1>6. CASE Prime
  BY <1>6, Stays DEF Prime, Busy, Working, Stored, WriteOutput,
     PlaybackRing!Take
<1>7. CASE Primed
  BY <1>7, Stays DEF Primed, Busy, Working, Stored
<1>8. CASE Ready
  BY <1>8, Stays DEF Ready, Busy, Working, Stored
<1>9. CASE Start
  <2>1. Held' = Held \cup {"stream"}
    BY <1>9, HeldMembers, HeldMembersNext DEF Start, Busy, Working, Stored
  <2>2. outcome = "none" /\ UNCHANGED <<failure, outcome>>
    BY <1>9 DEF Start
  <2> QED BY <1>0, <2>1, <2>2, Takes
<1>10. CASE Started
  BY <1>10, Stays DEF Started, Busy, Working, Stored
<1>11. CASE Wait
  BY <1>11, Stays DEF Wait, Busy, Working, Stored, WaitThrows
<1>12. CASE DrainDecision
  BY <1>12, Stays DEF DrainDecision, Busy, Working, Stored
<1>13. CASE Stop
  <2>1. UNCHANGED <<failure, outcome>>
    BY <1>13 DEF Stop
  <2>2. CASE stream = "running"
    <3>1. Held' = Held \ {"stream"} /\ "stream" \in Held
      <4>1. UNCHANGED <<gateOpen, callback, playbackWorker, joined, buffers, scratch>>
        BY <1>13, <2>2 DEF Stop
      <4>2. stream' # "running"
        BY <1>13 DEF Stop
      <4>3. /\ "gate" \in Held' <=> "gate" \in Held
            /\ "callbacks" \in Held' <=> "callbacks" \in Held
            /\ "workers" \in Held' <=> "workers" \in Held
            /\ "buffers" \in Held' <=> "buffers" \in Held
            /\ "scratch" \in Held' <=> "scratch" \in Held
        BY <2>2, <4>1, <4>2, HeldMembers, HeldMembersNext DEF Busy, Working, Stored
      <4>4. "stream" \in Held /\ "stream" \notin Held'
        BY <2>2, <4>1, <4>2, HeldMembers, HeldMembersNext DEF Busy, Working, Stored
      <4>5. \A x \in {"stream", "gate", "callbacks", "workers", "buffers", "scratch"}
                     \ {"stream"} :
              x \in Held' <=> x \in Held
        BY <4>3
      <4> QED BY <4>4, <4>5, OneLess
    <3>2. Lifecycle!UsersOf["stream"] \cap Held = {}
      BY <1>13, HeldMembers DEF Stop, Busy, Working, Lifecycle!UsersOf
    <3> QED BY <2>1, <3>1, <3>2, GivesBack
  <2>3. CASE ~(stream = "running")
    BY <1>13, <2>1, <2>3, Stays DEF Stop, Busy, Working, Stored
  <2> QED BY <2>2, <2>3
<1>14. CASE CloseGate
  <2>1. UNCHANGED <<failure, outcome>>
    BY <1>14 DEF CloseGate
  <2>2. CASE gateOpen
    <3>1. Held' = Held \ {"gate"} /\ "gate" \in Held
      <4>1. UNCHANGED <<stream, callback, playbackWorker, joined, buffers, scratch>>
        BY <1>14, <2>2 DEF CloseGate
      <4>2. ~gateOpen'
        BY <1>14 DEF CloseGate
      <4>3. /\ "stream" \in Held' <=> "stream" \in Held
            /\ "callbacks" \in Held' <=> "callbacks" \in Held
            /\ "workers" \in Held' <=> "workers" \in Held
            /\ "buffers" \in Held' <=> "buffers" \in Held
            /\ "scratch" \in Held' <=> "scratch" \in Held
        BY <2>2, <4>1, <4>2, HeldMembers, HeldMembersNext DEF Busy, Working, Stored
      <4>4. "gate" \in Held /\ "gate" \notin Held'
        BY <2>2, <4>1, <4>2, HeldMembers, HeldMembersNext DEF Busy, Working, Stored
      <4>5. \A x \in {"stream", "gate", "callbacks", "workers", "buffers", "scratch"}
                     \ {"gate"} :
              x \in Held' <=> x \in Held
        BY <4>3
      <4> QED BY <4>4, <4>5, OneLess
    <3>2. Lifecycle!UsersOf["gate"] \cap Held = {}
      BY <1>14, HeldMembers DEF CloseGate, Busy, Working, Lifecycle!UsersOf
    <3> QED BY <2>1, <3>1, <3>2, GivesBack
  <2>3. CASE ~(gateOpen)
    BY <1>14, <2>1, <2>3, Stays DEF CloseGate, Busy, Working, Stored
  <2> QED BY <2>2, <2>3
<1>15. CASE AwaitReaders
  BY <1>15, Stays DEF AwaitReaders, Busy, Working, Stored
<1>16. CASE Wake
  BY <1>16, Stays DEF Wake, Busy, Working, Stored
<1>17. CASE JoinPlayback
  BY <1>17, Stays DEF JoinPlayback, Busy, Working, Stored
<1>18. CASE JoinWriter
  <2>1. UNCHANGED <<failure, outcome>>
    BY <1>18 DEF JoinWriter
  <2>2. CASE playbackWorker # "idle"
    <3>1. Held' = Held \ {"workers"} /\ "workers" \in Held
      <4>1. UNCHANGED <<stream, gateOpen, callback, playbackWorker, buffers, scratch>>
        BY <1>18, <2>2 DEF JoinWriter
      <4>2. joined' /\ ~joined
        BY <1>18 DEF JoinWriter
      <4>3. /\ "stream" \in Held' <=> "stream" \in Held
            /\ "gate" \in Held' <=> "gate" \in Held
            /\ "callbacks" \in Held' <=> "callbacks" \in Held
            /\ "buffers" \in Held' <=> "buffers" \in Held
            /\ "scratch" \in Held' <=> "scratch" \in Held
        BY <2>2, <4>1, <4>2, HeldMembers, HeldMembersNext DEF Busy, Working, Stored
      <4>4. "workers" \in Held /\ "workers" \notin Held'
        BY <2>2, <4>1, <4>2, HeldMembers, HeldMembersNext DEF Busy, Working, Stored
      <4>5. \A x \in {"stream", "gate", "callbacks", "workers", "buffers", "scratch"}
                     \ {"workers"} :
              x \in Held' <=> x \in Held
        BY <4>3
      <4> QED BY <4>4, <4>5, OneLess
    <3>2. Lifecycle!UsersOf["workers"] \cap Held = {}
      BY <1>18, HeldMembers DEF JoinWriter, Busy, Working, Lifecycle!UsersOf
    <3> QED BY <2>1, <3>1, <3>2, GivesBack
  <2>3. CASE ~(playbackWorker # "idle")
    BY <1>18, <2>1, <2>3, Stays DEF JoinWriter, Busy, Working, Stored
  <2> QED BY <2>2, <2>3
<1>19. CASE Dispose
  <2>1. UNCHANGED <<failure, outcome>>
    BY <1>19 DEF Dispose
  <2>2. CASE buffers
    <3>1. Held' = Held \ {"buffers"} /\ "buffers" \in Held
      <4>1. UNCHANGED <<stream, gateOpen, callback, playbackWorker, joined, scratch>>
        BY <1>19, <2>2 DEF Dispose
      <4>2. ~buffers'
        BY <1>19 DEF Dispose
      <4>3. /\ "stream" \in Held' <=> "stream" \in Held
            /\ "gate" \in Held' <=> "gate" \in Held
            /\ "callbacks" \in Held' <=> "callbacks" \in Held
            /\ "workers" \in Held' <=> "workers" \in Held
            /\ "scratch" \in Held' <=> "scratch" \in Held
        BY <2>2, <4>1, <4>2, HeldMembers, HeldMembersNext DEF Busy, Working, Stored
      <4>4. "buffers" \in Held /\ "buffers" \notin Held'
        BY <2>2, <4>1, <4>2, HeldMembers, HeldMembersNext DEF Busy, Working, Stored
      <4>5. \A x \in {"stream", "gate", "callbacks", "workers", "buffers", "scratch"}
                     \ {"buffers"} :
              x \in Held' <=> x \in Held
        BY <4>3
      <4> QED BY <4>4, <4>5, OneLess
    <3>2. Lifecycle!UsersOf["buffers"] \cap Held = {}
      BY <1>19, HeldMembers DEF Dispose, Busy, Working, Lifecycle!UsersOf
    <3> QED BY <2>1, <3>1, <3>2, GivesBack
  <2>3. CASE ~(buffers)
    BY <1>19, <2>1, <2>3, Stays DEF Dispose, Busy, Working, Stored
  <2> QED BY <2>2, <2>3
<1>20. CASE End
  <2>1. /\ control = "verdict" /\ outcome' \in {Verdict, "backend_failure"}
        /\ scratch' = (IF outcome' = "ok" THEN "transferred" ELSE "deleted")
        /\ UNCHANGED <<stream, gateOpen, buffers, playbackWorker, joined, callback, failure>>
    BY <1>20 DEF End
  <2>2. Verdict # "none" /\ (Verdict = "ok" => failure = "none")
    BY DEF Verdict
  <2>3. Held \subseteq {"scratch"} /\ Held' = {}
    BY <2>1, HeldMembers, HeldMembersNext DEF Busy, Working, Stored
  <2>4. outcome = "none" /\ outcome' # "none" /\ (outcome' = "ok" => failure = "none")
    BY <2>1, <2>2
  <2>5. Lifecycle!End(outcome')
    BY <2>1, <2>3, <2>4 DEF Lifecycle!End
  <2> QED BY <2>5 DEF LifecycleStep, Lifecycle!Next
<1>21. CASE PlaybackDecides
  BY <1>21, Stays DEF PlaybackDecides, Busy, Working, Stored, NotByPlayback
<1>22. CASE PlaybackWrites
  BY <1>22, Stays DEF PlaybackWrites, Busy, Working, Stored, PlaybackRing!Put,
     NotByPlayback
<1>23. CASE SourceFails
  BY <1>23, Stays DEF SourceFails, Busy, Working, Stored, NotByPlayback
<1>24. CASE PlaybackFinishes
  BY <1>24, Stays DEF PlaybackFinishes, Busy, Working, Stored, NotByPlayback
<1>25. CASE WriterReads
  BY <1>25, Stays DEF WriterReads, Busy, Working, Stored, RecordingRing!Take,
     WriterFails, WriterMoves, NotByWriter
<1>26. CASE WriterChecksFlag
  BY <1>26, Stays DEF WriterChecksFlag, Busy, Working, Stored, WriterMoves,
     NotByWriter
<1>27. CASE WriterFinishes
  BY <1>27, Stays DEF WriterFinishes, Busy, Working, Stored, WriterMoves,
     WriterFails, CloseRecording, NotByWriter
<1>28. ASSUME NEW t \in Callbacks, Enter(t) PROVE LifecycleStep
  <2>1. /\ gateOpen /\ outcome = "none" /\ UNCHANGED <<failure, outcome>>
        /\ callback' = [callback EXCEPT ![t] = "entered"]
        /\ UNCHANGED <<stream, gateOpen, buffers, playbackWorker, joined, scratch>>
    BY <1>28 DEF Enter, CallbackMoves, NotByCallbacks
  <2>2. Busy'
    BY <2>1 DEF Busy
  <2>3. CASE Busy
    BY <2>1, <2>2, <2>3, Stays DEF Working, Stored
  <2>4. CASE ~Busy
    <3>1. Working' = Working /\ Stored' = Stored
      BY <2>1 DEF Working, Stored
    <3>2. Held' = Held \cup {"callbacks"}
      <4>1. stream' = stream /\ gateOpen' = gateOpen /\ buffers' = buffers
        BY <2>1
      <4> QED BY <2>2, <3>1, <4>1, CallbacksJoin
    <3> QED BY <2>1, <3>2, Takes
  <2> QED BY <2>3, <2>4
<1>29. ASSUME NEW t \in Callbacks, Begin(t) PROVE LifecycleStep
  BY <1>29, Stays DEF Begin, Busy, Working, Stored, NotByCallbacks,
     CallbackMoves
<1>30. ASSUME NEW t \in Callbacks, Output(t) PROVE LifecycleStep
  BY <1>30, Stays DEF Output, Busy, Working, Stored, WriteOutput,
     PlaybackRing!Take, NotByCallbacks, CallbackMoves
<1>31. ASSUME NEW t \in Callbacks, Input(t) PROVE LifecycleStep
  BY <1>31, Stays DEF Input, Busy, Working, Stored, RecordBlock,
     RecordingRing!Put, NotByCallbacks, CallbackMoves
<1>32. ASSUME NEW t \in Callbacks, Decide(t) PROVE LifecycleStep
  BY <1>32, Stays DEF Decide, Busy, Working, Stored, NotByCallbacks,
     CallbackMoves
<1>33. ASSUME NEW t \in Callbacks, Clear(t) PROVE LifecycleStep
  BY <1>33, Stays DEF Clear, Busy, Working, Stored, NotByCallbacks,
     CallbackMoves
<1>34. ASSUME NEW t \in Callbacks, Signal(t) PROVE LifecycleStep
  BY <1>34, Stays DEF Signal, Busy, Working, Stored, NotByCallbacks,
     CallbackMoves
<1>35. ASSUME NEW t \in Callbacks, Leave(t) PROVE LifecycleStep
  <2>1. /\ UNCHANGED <<failure, outcome>>
        /\ UNCHANGED <<stream, gateOpen, buffers, playbackWorker, joined, scratch>>
        /\ Busy
    BY <1>35 DEF Leave, CallbackMoves, NotByCallbacks, Busy
  <2>2. CASE Busy'
    BY <2>1, <2>2, Stays DEF Working, Stored
  <2>3. CASE ~Busy'
    <3>1. Held' = Held \ {"callbacks"} /\ "callbacks" \in Held
      <4>1. /\ "stream" \in Held' <=> "stream" \in Held
            /\ "gate" \in Held' <=> "gate" \in Held
            /\ "workers" \in Held' <=> "workers" \in Held
            /\ "buffers" \in Held' <=> "buffers" \in Held
            /\ "scratch" \in Held' <=> "scratch" \in Held
        BY <2>1, <2>3, HeldMembers, HeldMembersNext DEF Working, Stored
      <4>2. "callbacks" \in Held /\ "callbacks" \notin Held'
        BY <2>1, <2>3, HeldMembers, HeldMembersNext DEF Working, Stored
      <4>3. \A x \in {"stream", "gate", "callbacks", "workers", "buffers", "scratch"}
                     \ {"callbacks"} :
              x \in Held' <=> x \in Held
        BY <4>1
      <4> QED BY <4>2, <4>3, OneLess
    <3>2. Lifecycle!UsersOf["callbacks"] = {}
      BY DEF Lifecycle!UsersOf
    <3> QED BY <2>1, <3>1, <3>2, GivesBack
  <2> QED BY <2>2, <2>3
<1>36. CASE Notify
  BY <1>36, Stays DEF Notify, Busy, Working, Stored, NotByCallbacks,
     CallbackMoves
<1>37. CASE Cancel
  BY <1>37, Stays DEF Cancel, Busy, Working, Stored
<1>38. CASE Expire
  BY <1>38, Stays DEF Expire, Busy, Working, Stored
<1>39. CASE UNCHANGED vars
  <2>1. UNCHANGED <<Held, failure, outcome>>
    BY <1>39 DEF vars, Held
  <2> QED BY <2>1 DEF LifecycleStep
<1> QED
  BY <1>1, <1>2, <1>3, <1>4, <1>5, <1>6, <1>7, <1>8, <1>9, <1>10, <1>11,
     <1>12, <1>13, <1>14, <1>15, <1>16, <1>17, <1>18, <1>19, <1>20, <1>21,
     <1>22, <1>23, <1>24, <1>25, <1>26, <1>27, <1>28, <1>29, <1>30, <1>31,
     <1>32, <1>33, <1>34, <1>35, <1>36, <1>37, <1>38, <1>39 DEF Next,
     ControlStep, PlaybackStep, WriterStep, CallbackStep

\* A capture implements CaptureLifecycle.
THEOREM CaptureImplementsLifecycle == Spec => ImplementsLifecycle
<1>1. Init => Lifecycle!Init
  BY DEF Init, Held, Lifecycle!Init
<1>2. IInv /\ [Next]_vars => [Lifecycle!Next]_<<Held, failure, outcome>>
  BY StepsImplementLifecycle DEF LifecycleStep
<1> QED
  BY <1>1, <1>2, CaptureInvariant, PTL
     DEF Spec, ImplementsLifecycle, Lifecycle!Spec, Lifecycle!lifecycleVars

-----------------------------------------------------------------------------
(* The causes.                                                             *)

Unwinding == {"stop", "close", "await_readers"} \cup AfterBarrier
Failed == failure # "none" \/ events # {}

\* Why the control thread is where it is: a wait that ended on its own met a
\* failure or a recording that is complete, and only such a recording is
\* drained, by workers nobody told to stop.
ControlInv ==
    /\ exit \in {"none", "cancelled", "timed_out"}
    /\ exit # "none" => control \in {"drain"} \cup Unwinding
    /\ thrown # "none" => control \in Unwinding
    /\ drain => control \in Unwinding /\ thrown = "none" /\ recordingFinished
    /\ stopRequested => control \in AfterBarrier /\ ~drain
    /\ control \in {"drain"} \cup Unwinding /\ exit = "none" /\ thrown = "none" => Failed \/ done
    /\ control \in Unwinding /\ exit = "none" /\ thrown = "none" => Failed \/ drain
    /\ done \/ (\E t \in Callbacks : callback[t] \in {"finishing", "signalling"}) =>
          Failed \/ recordingFinished
    /\ writer = "exited" => writerFinished \/ failure # "none" \/ stopRequested \/ thrown # "none"

\* What the token, the clock and the faults leave behind.
FaultsInv ==
    /\ exit = "cancelled" \/ thrown = "cancelled" => cancelled
    /\ exit = "timed_out" => expired
    /\ thrown = "backend_failure" \/ latenciesChanged \/ cleanupFailed => faults # {}
    /\ \A t \in Callbacks : callback[t] = "failing" => "conversion" \in faults
    /\ failure = "source_failure" => "source" \in faults
    /\ thrown \in Failures /\ thrown # "playback_underflow" => failure = thrown

\* The frames are counted: none is in the file or the ring that was not
\* recorded, and only a failure that is published leaves one out.
CountsInv ==
    /\ Len(file) + Len(recQueue) <= timeline.recorded
    /\ completedFrames = timeline.recorded \/ "conversion" \in faults
    /\ recordingFinished =>
          /\ timeline.recorded = TotalFrames
          /\ Len(file) + Len(recQueue) = TotalFrames \/ faults \cap {"file", "conversion"} # {}
    /\ writer = "recheck" => recordingFinished
    /\ failure = "recording_overflow" => RecordingShort
    /\ failure = "writer_failure" => faults \cap {"file", "conversion"} # {}

\* A prebuffering that was given up leaves the stream off and the playback
\* where it is.
NeverStarted ==
    /\ stream = "off" /\ control \in AfterBarrier
    /\ expired \/ "source" \in faults \/ Len(playQueue) = PlaybackFrames

Unprimed == BeforeStart \ {"primed", "ready", "start"}

\* The playback falls behind the timeline only with a failure that is
\* published, and never catches up.
ShortInv ==
    /\ control \in Unprimed => timeline.output = 0
    /\ Len(played) <= PlaybackBefore(timeline.output)
    /\ playbackConsumed \/ Len(played) < PlaybackFrames
    /\ playbackFinished \/ playbackWorker = "finishing" =>
          Len(played) + Len(playQueue) = PlaybackFrames \/ "source" \in faults
    /\ failure = "playback_underflow" \/ thrown = "playback_underflow" =>
          PlaybackShort \/ NeverStarted

\* Nothing the verdict was read from changes once it was given.
OutcomeInv ==
    outcome # "none" => outcome = Verdict \/ (outcome = "backend_failure" /\ faults # {})

\* It holds before the first step.
LEMMA InitControl == Init => ControlInv
BY DEF Init, ControlInv, Failed, Unwinding, AfterBarrier

\* Every step keeps it.
LEMMA NextControl ==
   AdmissionInv /\ SuccessInv /\ ControlInv /\ [Next]_vars => ControlInv'
<1> SUFFICES ASSUME AdmissionInv, SuccessInv, ControlInv, [Next]_vars PROVE ControlInv'
  OBVIOUS
<1> USE DEF AdmissionInv, ControlInv, Failed, Unwinding, FirstFailure,
   Failures, FatalDriverEvent, ShouldStop, SuccessInv, Serving, AfterBarrier,
   BeforeStart, CallbackSteps, Inside, controlVars, driverVars, stateVars,
   threadVars, flagVars, ringVars, worldVars, Goto, Throw, ControlOnly,
   QuietControl, NoHazard, Hazard
<1>1. CASE StartWorkers
  BY <1>1 DEF StartWorkers
<1>2. CASE PrebufferLevel
  BY <1>2 DEF PrebufferLevel
<1>3. CASE PrebufferChecks
  BY <1>3 DEF PrebufferChecks
<1>4. CASE PrebufferFinished
  BY <1>4 DEF PrebufferFinished
<1>5. CASE Create
  BY <1>5 DEF Create
<1>6. CASE Prime
  BY <1>6 DEF Prime, WriteOutput, PlaybackRing!Take
<1>7. CASE Primed
  BY <1>7 DEF Primed
<1>8. CASE Ready
  BY <1>8 DEF Ready
<1>9. CASE Start
  BY <1>9 DEF Start
<1>10. CASE Started
  BY <1>10 DEF Started
<1>11. CASE Wait
  BY <1>11 DEF Wait, WaitThrows
<1>12. CASE DrainDecision
  BY <1>12 DEF DrainDecision
<1>13. CASE Stop
  BY <1>13 DEF Stop
<1>14. CASE CloseGate
  BY <1>14 DEF CloseGate
<1>15. CASE AwaitReaders
  BY <1>15 DEF AwaitReaders
<1>16. CASE Wake
  BY <1>16 DEF Wake
<1>17. CASE JoinPlayback
  BY <1>17 DEF JoinPlayback
<1>18. CASE JoinWriter
  BY <1>18 DEF JoinWriter
<1>19. CASE Dispose
  BY <1>19 DEF Dispose
<1>20. CASE End
  BY <1>20 DEF End
<1>21. CASE PlaybackDecides
  BY <1>21 DEF PlaybackDecides, NotByPlayback
<1>22. CASE PlaybackWrites
  BY <1>22 DEF PlaybackWrites, PlaybackRing!Put, NotByPlayback
<1>23. CASE SourceFails
  BY <1>23 DEF SourceFails, NotByPlayback
<1>24. CASE PlaybackFinishes
  BY <1>24 DEF PlaybackFinishes, NotByPlayback
<1>25. CASE WriterReads
  BY <1>25 DEF WriterReads, RecordingRing!Take, WriterFails, WriterMoves,
     NotByWriter
<1>26. CASE WriterChecksFlag
  BY <1>26 DEF WriterChecksFlag, WriterMoves, NotByWriter
<1>27. CASE WriterFinishes
  BY <1>27 DEF WriterFinishes, WriterMoves, WriterFails, CloseRecording,
     NotByWriter
<1>28. ASSUME NEW t \in Callbacks, Enter(t) PROVE ControlInv'
  BY <1>28 DEF Enter, NotByCallbacks, CallbackMoves
<1>29. ASSUME NEW t \in Callbacks, Begin(t) PROVE ControlInv'
  BY <1>29 DEF Begin, NotByCallbacks, CallbackMoves
<1>30. ASSUME NEW t \in Callbacks, Output(t) PROVE ControlInv'
  BY <1>30 DEF Output, WriteOutput, PlaybackRing!Take, NotByCallbacks,
     CallbackMoves
<1>31. ASSUME NEW t \in Callbacks, Input(t) PROVE ControlInv'
  BY <1>31 DEF Input, RecordBlock, RecordingRing!Put, NotByCallbacks,
     CallbackMoves
<1>32. ASSUME NEW t \in Callbacks, Decide(t) PROVE ControlInv'
  BY <1>32 DEF Decide, NotByCallbacks, CallbackMoves
<1>33. ASSUME NEW t \in Callbacks, Clear(t) PROVE ControlInv'
  BY <1>33 DEF Clear, NotByCallbacks, CallbackMoves
<1>34. ASSUME NEW t \in Callbacks, Signal(t) PROVE ControlInv'
  BY <1>34 DEF Signal, NotByCallbacks, CallbackMoves
<1>35. ASSUME NEW t \in Callbacks, Leave(t) PROVE ControlInv'
  BY <1>35 DEF Leave, NotByCallbacks, CallbackMoves
<1>36. CASE Notify
  BY <1>36 DEF Notify, NotByCallbacks, CallbackMoves
<1>37. CASE Cancel
  BY <1>37 DEF Cancel
<1>38. CASE Expire
  BY <1>38 DEF Expire
<1>39. CASE UNCHANGED vars
  BY <1>39 DEF vars
<1> QED
  BY <1>1, <1>2, <1>3, <1>4, <1>5, <1>6, <1>7, <1>8, <1>9, <1>10, <1>11,
     <1>12, <1>13, <1>14, <1>15, <1>16, <1>17, <1>18, <1>19, <1>20, <1>21,
     <1>22, <1>23, <1>24, <1>25, <1>26, <1>27, <1>28, <1>29, <1>30, <1>31,
     <1>32, <1>33, <1>34, <1>35, <1>36, <1>37, <1>38, <1>39 DEF Next,
     ControlStep, PlaybackStep, WriterStep, CallbackStep

\* It holds before the first step.
LEMMA InitFaults == Init => FaultsInv
BY DEF Init, FaultsInv, Failures

\* Every step keeps it.
LEMMA NextFaults ==
   AdmissionInv /\ SuccessInv /\ ControlInv /\ FaultsInv /\ [Next]_vars => FaultsInv'
<1> SUFFICES ASSUME AdmissionInv, SuccessInv, ControlInv, FaultsInv, [Next]_vars PROVE FaultsInv'
  OBVIOUS
<1> USE DEF AdmissionInv, ControlInv, FaultsInv, FirstFailure, Failures,
   SuccessInv, Unwinding, AfterBarrier, controlVars, driverVars, stateVars,
   threadVars, flagVars, ringVars, worldVars, Goto, Throw, ControlOnly,
   QuietControl, NoHazard, Hazard
<1>1. CASE StartWorkers
  BY <1>1 DEF StartWorkers
<1>2. CASE PrebufferLevel
  BY <1>2 DEF PrebufferLevel
<1>3. CASE PrebufferChecks
  BY <1>3 DEF PrebufferChecks
<1>4. CASE PrebufferFinished
  BY <1>4 DEF PrebufferFinished
<1>5. CASE Create
  BY <1>5 DEF Create
<1>6. CASE Prime
  BY <1>6 DEF Prime, WriteOutput, PlaybackRing!Take
<1>7. CASE Primed
  BY <1>7 DEF Primed
<1>8. CASE Ready
  BY <1>8 DEF Ready
<1>9. CASE Start
  BY <1>9 DEF Start
<1>10. CASE Started
  BY <1>10 DEF Started
<1>11. CASE Wait
  BY <1>11 DEF Wait, WaitThrows
<1>12. CASE DrainDecision
  BY <1>12 DEF DrainDecision
<1>13. CASE Stop
  BY <1>13 DEF Stop
<1>14. CASE CloseGate
  BY <1>14 DEF CloseGate
<1>15. CASE AwaitReaders
  BY <1>15 DEF AwaitReaders
<1>16. CASE Wake
  BY <1>16 DEF Wake
<1>17. CASE JoinPlayback
  BY <1>17 DEF JoinPlayback
<1>18. CASE JoinWriter
  BY <1>18 DEF JoinWriter
<1>19. CASE Dispose
  BY <1>19 DEF Dispose
<1>20. CASE End
  BY <1>20 DEF End
<1>21. CASE PlaybackDecides
  BY <1>21 DEF PlaybackDecides, NotByPlayback
<1>22. CASE PlaybackWrites
  BY <1>22 DEF PlaybackWrites, PlaybackRing!Put, NotByPlayback
<1>23. CASE SourceFails
  BY <1>23 DEF SourceFails, NotByPlayback
<1>24. CASE PlaybackFinishes
  BY <1>24 DEF PlaybackFinishes, NotByPlayback
<1>25. CASE WriterReads
  BY <1>25 DEF WriterReads, RecordingRing!Take, WriterFails, WriterMoves,
     NotByWriter
<1>26. CASE WriterChecksFlag
  BY <1>26 DEF WriterChecksFlag, WriterMoves, NotByWriter
<1>27. CASE WriterFinishes
  BY <1>27 DEF WriterFinishes, WriterMoves, WriterFails, CloseRecording,
     NotByWriter
<1>28. ASSUME NEW t \in Callbacks, Enter(t) PROVE FaultsInv'
  BY <1>28 DEF Enter, NotByCallbacks, CallbackMoves
<1>29. ASSUME NEW t \in Callbacks, Begin(t) PROVE FaultsInv'
  BY <1>29 DEF Begin, NotByCallbacks, CallbackMoves
<1>30. ASSUME NEW t \in Callbacks, Output(t) PROVE FaultsInv'
  BY <1>30 DEF Output, WriteOutput, PlaybackRing!Take, NotByCallbacks,
     CallbackMoves
<1>31. ASSUME NEW t \in Callbacks, Input(t) PROVE FaultsInv'
  BY <1>31 DEF Input, RecordBlock, RecordingRing!Put, NotByCallbacks,
     CallbackMoves
<1>32. ASSUME NEW t \in Callbacks, Decide(t) PROVE FaultsInv'
  BY <1>32 DEF Decide, NotByCallbacks, CallbackMoves
<1>33. ASSUME NEW t \in Callbacks, Clear(t) PROVE FaultsInv'
  BY <1>33 DEF Clear, NotByCallbacks, CallbackMoves
<1>34. ASSUME NEW t \in Callbacks, Signal(t) PROVE FaultsInv'
  BY <1>34 DEF Signal, NotByCallbacks, CallbackMoves
<1>35. ASSUME NEW t \in Callbacks, Leave(t) PROVE FaultsInv'
  BY <1>35 DEF Leave, NotByCallbacks, CallbackMoves
<1>36. CASE Notify
  BY <1>36 DEF Notify, NotByCallbacks, CallbackMoves
<1>37. CASE Cancel
  BY <1>37 DEF Cancel
<1>38. CASE Expire
  BY <1>38 DEF Expire
<1>39. CASE UNCHANGED vars
  BY <1>39 DEF vars
<1> QED
  BY <1>1, <1>2, <1>3, <1>4, <1>5, <1>6, <1>7, <1>8, <1>9, <1>10, <1>11,
     <1>12, <1>13, <1>14, <1>15, <1>16, <1>17, <1>18, <1>19, <1>20, <1>21,
     <1>22, <1>23, <1>24, <1>25, <1>26, <1>27, <1>28, <1>29, <1>30, <1>31,
     <1>32, <1>33, <1>34, <1>35, <1>36, <1>37, <1>38, <1>39 DEF Next,
     ControlStep, PlaybackStep, WriterStep, CallbackStep

\* It holds before the first step.
LEMMA InitOutcome == Init => OutcomeInv
BY DEF Init, OutcomeInv

\* Every step keeps it.
LEMMA NextOutcome ==
   AdmissionInv /\ HoldingInv /\ OutcomeInv /\ [Next]_vars => OutcomeInv'
<1> SUFFICES ASSUME AdmissionInv, HoldingInv, OutcomeInv, [Next]_vars PROVE OutcomeInv'
  OBVIOUS
<1> USE DEF AdmissionInv, HoldingInv, OutcomeInv, Verdict, Serving,
   AfterBarrier, BeforeStart, controlVars, driverVars, stateVars, threadVars,
   flagVars, ringVars, worldVars, Goto, Throw, ControlOnly, QuietControl,
   NoHazard, Hazard
<1>1. CASE StartWorkers
  BY <1>1 DEF StartWorkers
<1>2. CASE PrebufferLevel
  BY <1>2 DEF PrebufferLevel
<1>3. CASE PrebufferChecks
  BY <1>3 DEF PrebufferChecks
<1>4. CASE PrebufferFinished
  BY <1>4 DEF PrebufferFinished
<1>5. CASE Create
  BY <1>5 DEF Create
<1>6. CASE Prime
  BY <1>6 DEF Prime, WriteOutput, PlaybackRing!Take
<1>7. CASE Primed
  BY <1>7 DEF Primed
<1>8. CASE Ready
  BY <1>8 DEF Ready
<1>9. CASE Start
  BY <1>9 DEF Start
<1>10. CASE Started
  BY <1>10 DEF Started
<1>11. CASE Wait
  BY <1>11 DEF Wait, WaitThrows
<1>12. CASE DrainDecision
  BY <1>12 DEF DrainDecision
<1>13. CASE Stop
  BY <1>13 DEF Stop
<1>14. CASE CloseGate
  BY <1>14 DEF CloseGate
<1>15. CASE AwaitReaders
  BY <1>15 DEF AwaitReaders
<1>16. CASE Wake
  BY <1>16 DEF Wake
<1>17. CASE JoinPlayback
  BY <1>17 DEF JoinPlayback
<1>18. CASE JoinWriter
  BY <1>18 DEF JoinWriter
<1>19. CASE Dispose
  BY <1>19 DEF Dispose
<1>20. CASE End
  <2>1. UNCHANGED <<thrown, exit, cancelled, failure, events, cleanupFailed,
                    completedFrames, writerFinished>>
    BY <1>20 DEF End
  <2>2. Verdict' = Verdict
    BY <2>1 DEF Verdict
  <2>3. outcome' = Verdict \/ (outcome' = "backend_failure" /\ faults' # {})
    BY <1>20 DEF End
  <2> QED BY <2>2, <2>3
<1>21. CASE PlaybackDecides
  BY <1>21 DEF PlaybackDecides, NotByPlayback
<1>22. CASE PlaybackWrites
  BY <1>22 DEF PlaybackWrites, PlaybackRing!Put, NotByPlayback
<1>23. CASE SourceFails
  BY <1>23 DEF SourceFails, NotByPlayback
<1>24. CASE PlaybackFinishes
  BY <1>24 DEF PlaybackFinishes, NotByPlayback
<1>25. CASE WriterReads
  BY <1>25 DEF WriterReads, RecordingRing!Take, WriterFails, WriterMoves,
     NotByWriter
<1>26. CASE WriterChecksFlag
  BY <1>26 DEF WriterChecksFlag, WriterMoves, NotByWriter
<1>27. CASE WriterFinishes
  BY <1>27 DEF WriterFinishes, WriterMoves, WriterFails, CloseRecording,
     NotByWriter
<1>28. ASSUME NEW t \in Callbacks, Enter(t) PROVE OutcomeInv'
  BY <1>28 DEF Enter, NotByCallbacks, CallbackMoves
<1>29. ASSUME NEW t \in Callbacks, Begin(t) PROVE OutcomeInv'
  BY <1>29 DEF Begin, NotByCallbacks, CallbackMoves
<1>30. ASSUME NEW t \in Callbacks, Output(t) PROVE OutcomeInv'
  BY <1>30 DEF Output, WriteOutput, PlaybackRing!Take, NotByCallbacks,
     CallbackMoves
<1>31. ASSUME NEW t \in Callbacks, Input(t) PROVE OutcomeInv'
  BY <1>31 DEF Input, RecordBlock, RecordingRing!Put, NotByCallbacks,
     CallbackMoves
<1>32. ASSUME NEW t \in Callbacks, Decide(t) PROVE OutcomeInv'
  BY <1>32 DEF Decide, NotByCallbacks, CallbackMoves
<1>33. ASSUME NEW t \in Callbacks, Clear(t) PROVE OutcomeInv'
  BY <1>33 DEF Clear, NotByCallbacks, CallbackMoves
<1>34. ASSUME NEW t \in Callbacks, Signal(t) PROVE OutcomeInv'
  BY <1>34 DEF Signal, NotByCallbacks, CallbackMoves
<1>35. ASSUME NEW t \in Callbacks, Leave(t) PROVE OutcomeInv'
  BY <1>35 DEF Leave, NotByCallbacks, CallbackMoves
<1>36. CASE Notify
  BY <1>36 DEF Notify, NotByCallbacks, CallbackMoves
<1>37. CASE Cancel
  BY <1>37 DEF Cancel
<1>38. CASE Expire
  BY <1>38 DEF Expire
<1>39. CASE UNCHANGED vars
  BY <1>39 DEF vars
<1> QED
  BY <1>1, <1>2, <1>3, <1>4, <1>5, <1>6, <1>7, <1>8, <1>9, <1>10, <1>11,
     <1>12, <1>13, <1>14, <1>15, <1>16, <1>17, <1>18, <1>19, <1>20, <1>21,
     <1>22, <1>23, <1>24, <1>25, <1>26, <1>27, <1>28, <1>29, <1>30, <1>31,
     <1>32, <1>33, <1>34, <1>35, <1>36, <1>37, <1>38, <1>39 DEF Next,
     ControlStep, PlaybackStep, WriterStep, CallbackStep

\* The writer moves what it reads, and it loses a block only to a fault.
LEMMA WriterReadCounts ==
    ASSUME RecordingInv, WriterReads
    PROVE  \/ /\ Len(file') + Len(recQueue') = Len(file) + Len(recQueue)
              /\ failure' = failure \/ Len(file') > TotalFrames
           \/ /\ Len(file') + Len(recQueue') <= Len(file) + Len(recQueue)
              /\ "file" \in faults' /\ failure' = FirstFailure("writer_failure")
<1> DEFINE n == Smaller(Len(recQueue), ChunkFrames)
<1>1. file \in Seq(Nat) /\ recQueue \in Seq(Nat) /\ Len(recQueue) \in Nat /\ Len(file) \in Nat
  BY LenProperties DEF RecordingInv
<1>2. n \in 0..Len(recQueue)
  BY <1>1, LengthsAssumption, SMT DEF Smaller
<1>3. \/ UNCHANGED <<recQueue, file, failure>>
      \/ /\ recQueue' = SubSeq(recQueue, n + 1, Len(recQueue))
         /\ file' = file \o SubSeq(recQueue, 1, n)
         /\ failure' = failure \/ Len(file') > TotalFrames
      \/ /\ recQueue' = SubSeq(recQueue, n + 1, Len(recQueue)) /\ file' = file
         /\ "file" \in faults' /\ failure' = FirstFailure("writer_failure")
  BY DEF WriterReads, RecordingRing!Take, WriterFails, Hazard
<1> HIDE DEF n
<1>4. /\ Len(SubSeq(recQueue, n + 1, Len(recQueue))) = Len(recQueue) - n
      /\ Len(file \o SubSeq(recQueue, 1, n)) + Len(SubSeq(recQueue, n + 1, Len(recQueue)))
            = Len(file) + Len(recQueue)
  <2> DEFINE s == file \o SubSeq(recQueue, 1, n)
             r == SubSeq(recQueue, n + 1, Len(recQueue))
  <2>1. s \in Seq(Nat) /\ r \in Seq(Nat) /\ Len(r) = Len(recQueue) - n
        /\ s \o r = file \o recQueue
    BY <1>1, <1>2, TakeKeepsTheStream
  <2> HIDE DEF s, r
  <2>2. Len(s \o r) = Len(s) + Len(r) /\ Len(file \o recQueue) = Len(file) + Len(recQueue)
    BY <1>1, <2>1, ConcatProperties
  <2>3. Len(s) + Len(r) = Len(file) + Len(recQueue)
    BY <2>1, <2>2
  <2> QED BY <2>1, <2>3 DEF s, r
<1>5. Len(recQueue) - n <= Len(recQueue)
      /\ Len(file) + (Len(recQueue) - n) <= Len(file) + Len(recQueue)
  BY <1>1, <1>2
<1> QED BY <1>3, <1>4, <1>5

\* A callback records a block of the remaining frames: in the ring, or it says
\* so, or the conversion failed.
LEMMA InputRecords ==
    ASSUME StreamInv, NEW t \in Callbacks, Input(t)
    PROVE  \E n \in Nat :
           /\ timeline'.recorded = timeline.recorded + n
           /\ timeline.recorded + n <= TotalFrames
           /\ \/ Len(recQueue') = Len(recQueue) + n /\ UNCHANGED failure
              \/ /\ n > 0 /\ UNCHANGED recQueue
                 /\ failure' \in {failure, FirstFailure("recording_overflow")}
           /\ \/ completedFrames' = timeline'.recorded \/ "conversion" \in faults'
              \/ n = 0 /\ UNCHANGED completedFrames
<1> DEFINE r == timeline.recorded
           block == RemainingBlock(r)
<1>1. /\ r \in 0..TotalFrames /\ TotalFrames \in Nat
      /\ block \in Nat /\ r + block \in 0..TotalFrames
  <2>1. r \in 0..TotalFrames
    BY DEF StreamInv, TimelineInv
  <2> QED BY <2>1, BlockProperties
<1>2. timeline \in [output : 0..TotalFrames, recorded : 0..TotalFrames, firstInput : BOOLEAN]
  BY DEF StreamInv, TimelineInv
<1>3. recQueue \in Seq(Nat) /\ Len(recQueue) \in Nat
  BY LenProperties DEF StreamInv, RecordingInv
<1>4. \/ /\ timeline' = [timeline EXCEPT !.firstInput = FALSE]
         /\ UNCHANGED <<failure, recQueue, completedFrames>>
      \/ /\ timeline' = [timeline EXCEPT !.recorded = @ + block] /\ block > 0
         /\ completedFrames' = timeline'.recorded
         /\ \/ recQueue' = recQueue \o Frames(r, block) /\ UNCHANGED failure
            \/ failure' = FirstFailure("recording_overflow") /\ UNCHANGED recQueue
      \/ /\ timeline' = [timeline EXCEPT !.recorded = @ + block] /\ block > 0
         /\ UNCHANGED <<failure, recQueue>> /\ "conversion" \in faults'
  BY DEF Input, RecordBlock, RecordingRing!Put, Hazard
<1> HIDE DEF block
<1>5. CASE /\ timeline' = [timeline EXCEPT !.firstInput = FALSE]
           /\ UNCHANGED <<failure, recQueue, completedFrames>>
  <2>1. /\ timeline'.recorded = r + 0 /\ r + 0 <= TotalFrames /\ 0 \in Nat
        /\ Len(recQueue') = Len(recQueue) + 0
    BY <1>1, <1>2, <1>3, <1>5
  <2> QED BY <1>5, <2>1
<1>6. CASE timeline' = [timeline EXCEPT !.recorded = @ + block] /\ block > 0
  <2>1. timeline'.recorded = r + block /\ r + block <= TotalFrames
    BY <1>1, <1>2, <1>6
  <2>2. recQueue' = recQueue \o Frames(r, block) => Len(recQueue') = Len(recQueue) + block
    <3>1. r \in Nat
      BY <1>1
    <3>2. Frames(r, block) \in Seq(Nat) /\ Len(Frames(r, block)) = block
      BY <1>1, <3>1, FramesProperties
    <3> QED BY <1>3, <3>2, ConcatProperties
  <2>3. timeline' # [timeline EXCEPT !.firstInput = FALSE]
    <3>1. r + block # r /\ [timeline EXCEPT !.firstInput = FALSE].recorded = r
      BY <1>1, <1>2, <1>6
    <3> QED BY <2>1, <3>1
  <2> QED BY <1>1, <1>4, <1>6, <2>1, <2>2, <2>3 DEF FirstFailure
<1> QED BY <1>4, <1>5, <1>6

\* It holds before the first step.
LEMMA InitCounts == Init => CountsInv
<1> SUFFICES ASSUME Init PROVE CountsInv
  OBVIOUS
<1>1. Len(<<>>) = 0 /\ file = <<>> /\ recQueue = <<>>
  BY EmptySeq DEF Init, PlaybackRing!Init, RecordingRing!Init
<1> QED BY <1>1 DEF Init, CountsInv

\* Every step keeps it.
LEMMA NextCounts ==
   AdmissionInv /\ HoldingInv /\ StreamInv /\ CountsInv /\ [Next]_vars => CountsInv'
<1> SUFFICES ASSUME AdmissionInv, HoldingInv, StreamInv, CountsInv, [Next]_vars PROVE CountsInv'
  OBVIOUS
<1> USE DEF FirstFailure, controlVars, driverVars, stateVars, threadVars,
   flagVars, ringVars, worldVars, Goto, Throw, ControlOnly, QuietControl,
   NoHazard, Hazard
<1>0. ASSUME timeline'.recorded = timeline.recorded,
             UNCHANGED <<file, recQueue, completedFrames, recordingFinished>>,
             faults \subseteq faults', writer' = "recheck" => writer = "recheck",
             failure' \in {"recording_overflow", "writer_failure"} => failure' = failure
      PROVE  CountsInv'
  BY <1>0 DEF CountsInv, RecordingShort
<1>1. CASE StartWorkers
  BY <1>1, <1>0 DEF StartWorkers
<1>2. CASE PrebufferLevel
  BY <1>2, <1>0 DEF PrebufferLevel
<1>3. CASE PrebufferChecks
  BY <1>3, <1>0 DEF PrebufferChecks
<1>4. CASE PrebufferFinished
  BY <1>4, <1>0 DEF PrebufferFinished
<1>5. CASE Create
  BY <1>5, <1>0 DEF Create
<1>6. CASE Prime
  <2>1. /\ WriteOutput /\ UNCHANGED <<file, recQueue, completedFrames, recordingFinished, writer>>
        /\ faults \subseteq faults'
    BY <1>6 DEF Prime
  <2>2. timeline'.recorded = timeline.recorded
    BY <2>1, OutputInStep DEF StreamInv
  <2>3. failure' = failure \/ failure' = "playback_underflow"
    BY <2>1 DEF WriteOutput
  <2> QED BY <1>0, <2>1, <2>2, <2>3
<1>7. CASE Primed
  BY <1>7, <1>0 DEF Primed
<1>8. CASE Ready
  BY <1>8, <1>0 DEF Ready
<1>9. CASE Start
  BY <1>9, <1>0 DEF Start
<1>10. CASE Started
  BY <1>10, <1>0 DEF Started
<1>11. CASE Wait
  BY <1>11, <1>0 DEF Wait, WaitThrows
<1>12. CASE DrainDecision
  BY <1>12, <1>0 DEF DrainDecision
<1>13. CASE Stop
  BY <1>13, <1>0 DEF Stop
<1>14. CASE CloseGate
  BY <1>14, <1>0 DEF CloseGate
<1>15. CASE AwaitReaders
  BY <1>15, <1>0 DEF AwaitReaders
<1>16. CASE Wake
  BY <1>16, <1>0 DEF Wake
<1>17. CASE JoinPlayback
  BY <1>17, <1>0 DEF JoinPlayback
<1>18. CASE JoinWriter
  BY <1>18, <1>0 DEF JoinWriter
<1>19. CASE Dispose
  BY <1>19, <1>0 DEF Dispose
<1>20. CASE End
  BY <1>20, <1>0 DEF End
<1>21. CASE PlaybackDecides
  BY <1>21, <1>0 DEF PlaybackDecides, NotByPlayback
<1>22. CASE PlaybackWrites
  BY <1>22, <1>0 DEF PlaybackWrites, PlaybackRing!Put, NotByPlayback
<1>23. CASE SourceFails
  BY <1>23, <1>0 DEF SourceFails, NotByPlayback
<1>24. CASE PlaybackFinishes
  BY <1>24, <1>0 DEF PlaybackFinishes, NotByPlayback
<1>25. CASE WriterReads
  <2>1. /\ UNCHANGED <<timeline, completedFrames, recordingFinished>> /\ faults \subseteq faults'
        /\ writer' # "recheck"
    BY <1>25 DEF WriterReads, WriterMoves, WriterFails, NotByWriter
  <2>2. /\ Len(file) \in Nat /\ Len(recQueue) \in Nat
        /\ Len(file') \in Nat /\ Len(recQueue') \in Nat
        /\ timeline.recorded \in Nat /\ TotalFrames \in Nat /\ timeline.recorded <= TotalFrames
    <3>1. file \in Seq(Nat) /\ recQueue \in Seq(Nat) /\ file' \in Seq(Nat) /\ recQueue' \in Seq(Nat)
      BY <1>25, WriterReadsInOrder DEF StreamInv, RecordingInv
    <3>2. timeline.recorded \in 0..TotalFrames /\ TotalFrames \in Nat
      BY LengthsAssumption DEF StreamInv, TimelineInv, TotalFrames
    <3> QED BY <3>1, <3>2, LenProperties
  <2>3. \/ /\ Len(file') + Len(recQueue') = Len(file) + Len(recQueue)
           /\ failure' = failure \/ Len(file') > TotalFrames
        \/ /\ Len(file') + Len(recQueue') <= Len(file) + Len(recQueue)
           /\ "file" \in faults' /\ failure' = FirstFailure("writer_failure")
    BY <1>25, WriterReadCounts DEF StreamInv
  <2>4. Len(file) + Len(recQueue) <= timeline.recorded
    BY DEF CountsInv
  <2>5. CASE /\ Len(file') + Len(recQueue') = Len(file) + Len(recQueue) /\ failure' = failure
    BY <2>1, <2>5 DEF CountsInv, RecordingShort
  <2>6. CASE /\ Len(file') + Len(recQueue') = Len(file) + Len(recQueue)
             /\ Len(file') > TotalFrames
    BY <2>2, <2>4, <2>6
  <2>7. CASE /\ Len(file') + Len(recQueue') <= Len(file) + Len(recQueue)
             /\ "file" \in faults' /\ failure' = FirstFailure("writer_failure")
    <3>1. Len(file') + Len(recQueue') <= timeline'.recorded
      BY <2>1, <2>2, <2>4, <2>7
    <3>2. RecordingShort => RecordingShort'
      BY <2>1, <2>2, <2>7 DEF RecordingShort
    <3>3. failure' = "recording_overflow" => failure = "recording_overflow"
      BY <2>7
    <3> QED BY <2>1, <2>7, <3>1, <3>2, <3>3 DEF CountsInv
  <2> QED BY <2>3, <2>5, <2>6, <2>7
<1>26. CASE WriterChecksFlag
  <2>1. /\ UNCHANGED <<timeline, file, recQueue, completedFrames, recordingFinished, failure, faults>>
        /\ writer' = "recheck" => recordingFinished
    BY <1>26 DEF WriterChecksFlag, WriterMoves, NotByWriter
  <2> QED BY <2>1 DEF CountsInv, RecordingShort
<1>27. CASE WriterFinishes
  <2>1. /\ UNCHANGED <<timeline, file, recQueue, completedFrames, recordingFinished>>
        /\ writer = "recheck" /\ faults \subseteq faults' /\ writer' # "recheck"
        /\ \/ failure' = failure
           \/ /\ failure' = FirstFailure("writer_failure")
              /\ \/ "file" \in faults'
                 \/ recQueue = <<>> /\ Len(file) # TotalFrames
    BY <1>27 DEF WriterFinishes, CloseRecording, WriterMoves, WriterFails, NotByWriter
  <2>2. CASE failure' = failure
    BY <1>0, <2>1, <2>2
  <2>3. CASE /\ failure' = FirstFailure("writer_failure")
             /\ \/ "file" \in faults'
                \/ recQueue = <<>> /\ Len(file) # TotalFrames
    <3>1. recQueue = <<>> => Len(file) + Len(recQueue) = Len(file)
      <4>1. Len(<<>>) = 0 /\ Len(file) \in Nat
        BY EmptySeq, LenProperties DEF StreamInv, RecordingInv
      <4> QED BY <4>1
    <3>2. faults' \cap {"file", "conversion"} # {}
      BY <2>1, <2>3, <3>1 DEF CountsInv
    <3> QED BY <2>1, <2>3, <3>2 DEF CountsInv, RecordingShort
  <2> QED BY <2>1, <2>2, <2>3
<1>28. ASSUME NEW t \in Callbacks, Enter(t) PROVE CountsInv'
  BY <1>28, <1>0 DEF Enter, NotByCallbacks, CallbackMoves
<1>29. ASSUME NEW t \in Callbacks, Begin(t) PROVE CountsInv'
  BY <1>29, <1>0 DEF Begin, NotByCallbacks, CallbackMoves
<1>30. ASSUME NEW t \in Callbacks, Output(t) PROVE CountsInv'
  <2>1. /\ WriteOutput /\ UNCHANGED <<file, recQueue, completedFrames, recordingFinished, writer>>
        /\ faults \subseteq faults'
    BY <1>30 DEF Output, NotByCallbacks
  <2>2. timeline'.recorded = timeline.recorded
    BY <2>1, OutputInStep DEF StreamInv
  <2>3. failure' = failure \/ failure' = "playback_underflow"
    BY <2>1 DEF WriteOutput
  <2> QED BY <1>0, <2>1, <2>2, <2>3
<1>31. ASSUME NEW t \in Callbacks, Input(t) PROVE CountsInv'
  <2>1. UNCHANGED <<recordingFinished, writer, file>> /\ faults \subseteq faults'
    BY <1>31 DEF Input, RecordBlock, RecordingRing!Put, NotByCallbacks
  <2>2. PICK n \in Nat :
           /\ timeline'.recorded = timeline.recorded + n
           /\ timeline.recorded + n <= TotalFrames
           /\ \/ Len(recQueue') = Len(recQueue) + n /\ UNCHANGED failure
              \/ /\ n > 0 /\ UNCHANGED recQueue
                 /\ failure' \in {failure, FirstFailure("recording_overflow")}
           /\ \/ completedFrames' = timeline'.recorded \/ "conversion" \in faults'
              \/ n = 0 /\ UNCHANGED completedFrames
    BY <1>31, InputRecords
  <2>3. /\ Len(file) \in Nat /\ Len(recQueue) \in Nat
        /\ timeline.recorded \in Nat /\ TotalFrames \in Nat
    <3>1. timeline.recorded \in 0..TotalFrames /\ TotalFrames \in Nat
      BY LengthsAssumption DEF StreamInv, TimelineInv, TotalFrames
    <3> QED BY <3>1, LenProperties DEF StreamInv, RecordingInv
  <2>4. /\ Len(file) + Len(recQueue) <= timeline.recorded
        /\ failure = "recording_overflow" => Len(file) + Len(recQueue) < timeline.recorded
    BY DEF CountsInv, RecordingShort
  <2>5. Len(file') + Len(recQueue') <= timeline'.recorded
    BY <2>1, <2>2, <2>3, <2>4
  <2>6. completedFrames' = timeline'.recorded \/ "conversion" \in faults'
    <3>1. completedFrames = timeline.recorded \/ "conversion" \in faults
      BY DEF CountsInv
    <3> QED BY <2>1, <2>2, <2>3, <3>1
  <2>7. recordingFinished => n = 0
    BY <2>2, <2>3 DEF CountsInv
  <2>8. recordingFinished => timeline'.recorded = TotalFrames /\ Len(recQueue') = Len(recQueue)
    BY <2>2, <2>3, <2>7 DEF CountsInv
  <2>9. failure' = "recording_overflow" => RecordingShort'
    <3>1. CASE Len(recQueue') = Len(recQueue) + n /\ UNCHANGED failure
      BY <2>1, <2>2, <2>3, <2>4, <3>1 DEF RecordingShort
    <3>2. CASE n > 0 /\ UNCHANGED recQueue
      BY <2>1, <2>2, <2>3, <2>4, <3>2 DEF RecordingShort
    <3> QED BY <2>2, <3>1, <3>2
  <2>10. failure' = "writer_failure" => failure = "writer_failure"
    BY <2>2
  <2> QED BY <2>1, <2>5, <2>6, <2>8, <2>9, <2>10 DEF CountsInv
<1>32. ASSUME NEW t \in Callbacks, Decide(t) PROVE CountsInv'
  <2>1. /\ UNCHANGED <<timeline, file, recQueue, completedFrames, writer, faults>>
        /\ \/ UNCHANGED <<failure, recordingFinished>>
           \/ /\ failure = "none" /\ RecordingComplete /\ recordingFinished'
              /\ failure' \in {"none", "playback_underflow"}
    BY <1>32 DEF Decide, NotByCallbacks
  <2>2. CASE UNCHANGED <<failure, recordingFinished>>
    BY <1>0, <2>1, <2>2
  <2>3. CASE /\ failure = "none" /\ RecordingComplete /\ recordingFinished'
             /\ failure' \in {"none", "playback_underflow"}
    <3>1. timeline.recorded \in 0..TotalFrames /\ TotalFrames \in Nat
      BY LengthsAssumption DEF StreamInv, TimelineInv, TotalFrames
    <3>2. timeline.recorded = TotalFrames
      BY <2>3, <3>1 DEF RecordingComplete
    <3>3. "conversion" \notin faults => Len(file) + Len(recQueue) = TotalFrames
      <4> SUFFICES ASSUME "conversion" \notin faults
                   PROVE  Len(file) + Len(recQueue) = TotalFrames
        OBVIOUS
      <4>1. file \o recQueue = Frames(0, TotalFrames)
        BY <2>3, <3>2 DEF StreamInv, StreamsInStep
      <4>2. file \in Seq(Nat) /\ recQueue \in Seq(Nat)
        BY DEF StreamInv, RecordingInv
      <4>3. Len(file \o recQueue) = Len(file) + Len(recQueue)
        BY <4>2, ConcatProperties
      <4>4. Len(Frames(0, TotalFrames)) = TotalFrames
        <5>1. 0 \in Nat
          OBVIOUS
        <5> QED BY <3>1, <5>1, FramesProperties
      <4> QED BY <4>1, <4>3, <4>4
    <3> QED BY <2>1, <2>3, <3>2, <3>3 DEF CountsInv
  <2> QED BY <2>1, <2>2, <2>3
<1>33. ASSUME NEW t \in Callbacks, Clear(t) PROVE CountsInv'
  BY <1>33, <1>0 DEF Clear, NotByCallbacks, CallbackMoves
<1>34. ASSUME NEW t \in Callbacks, Signal(t) PROVE CountsInv'
  BY <1>34, <1>0 DEF Signal, NotByCallbacks, CallbackMoves
<1>35. ASSUME NEW t \in Callbacks, Leave(t) PROVE CountsInv'
  BY <1>35, <1>0 DEF Leave, NotByCallbacks, CallbackMoves
<1>36. CASE Notify
  BY <1>36, <1>0 DEF Notify, NotByCallbacks, CallbackMoves
<1>37. CASE Cancel
  BY <1>37, <1>0 DEF Cancel
<1>38. CASE Expire
  BY <1>38, <1>0 DEF Expire
<1>39. CASE UNCHANGED vars
  BY <1>39, <1>0 DEF vars
<1> QED
  BY <1>1, <1>2, <1>3, <1>4, <1>5, <1>6, <1>7, <1>8, <1>9, <1>10, <1>11,
     <1>12, <1>13, <1>14, <1>15, <1>16, <1>17, <1>18, <1>19, <1>20, <1>21,
     <1>22, <1>23, <1>24, <1>25, <1>26, <1>27, <1>28, <1>29, <1>30, <1>31,
     <1>32, <1>33, <1>34, <1>35, <1>36, <1>37, <1>38, <1>39 DEF Next,
     ControlStep, PlaybackStep, WriterStep, CallbackStep


\* What an output block does to the playback: it takes what it covers, or it
\* takes nothing and says why.
LEMMA OutputCounts ==
    ASSUME TimelineInv, PlaybackInv, WriteOutput
    PROVE  \E n \in Nat :
              /\ PlaybackBefore(timeline'.output) = PlaybackBefore(timeline.output) + n
              /\ \/ /\ Len(played') = Len(played) + n
                    /\ Len(playQueue') = Len(playQueue) - n
                    /\ UNCHANGED failure
                    /\ \/ n = 0 /\ UNCHANGED playbackConsumed
                       \/ playbackConsumed' = (playbackConsumed \/ Len(played') >= PlaybackFrames)
                 \/ /\ UNCHANGED <<played, playQueue, playbackConsumed>>
                    /\ n > Len(playQueue)
                    /\ failure' = FirstFailure("playback_underflow")
<1> DEFINE block == RemainingBlock(timeline.output)
           n == PlaybackIn(timeline.output, block)
<1>1. timeline'.output = timeline.output + block
  BY OutputInStep
<1>2. timeline.output \in 0..TotalFrames /\ TotalFrames \in Nat /\ block \in Nat
  <2>1. timeline.output \in 0..TotalFrames
    BY DEF TimelineInv
  <2> QED BY <2>1, BlockProperties
<1>3. n \in Nat
      /\ PlaybackBefore(timeline'.output) = PlaybackBefore(timeline.output) + n
  <2>1. timeline.output \in Nat
    BY <1>2
  <2> QED BY <1>1, <1>2, <2>1, PlaybackBeforeProperties
<1>4. \/ n = 0 /\ UNCHANGED <<played, playQueue, failure, playbackConsumed>>
      \/ /\ n <= Len(playQueue) /\ UNCHANGED failure
         /\ played' = played \o SubSeq(playQueue, 1, n)
         /\ playQueue' = SubSeq(playQueue, n + 1, Len(playQueue))
         /\ playbackConsumed' = (playbackConsumed \/ Len(played') >= PlaybackFrames)
      \/ /\ UNCHANGED <<played, playQueue, playbackConsumed>> /\ n > Len(playQueue)
         /\ failure' = FirstFailure("playback_underflow")
  BY DEF WriteOutput, PlaybackRing!Take
<1> HIDE DEF block, n
<1>5. /\ Len(played) \in Nat /\ Len(playQueue) \in Nat
      /\ played \in Seq(Nat) /\ playQueue \in Seq(Nat)
  <2>1. /\ Len(played) \in Nat /\ Len(playQueue) \in Nat /\ 0 \in Nat
        /\ played = Frames(0, Len(played)) /\ playQueue = Frames(Len(played), Len(playQueue))
    BY DEF PlaybackInv
  <2>2. Frames(0, Len(played)) \in Seq(Nat) /\ Frames(Len(played), Len(playQueue)) \in Seq(Nat)
    BY <2>1, FramesProperties
  <2> QED BY <2>1, <2>2
<1>6. CASE n = 0 /\ UNCHANGED <<played, playQueue, failure, playbackConsumed>>
  <2>1. Len(played') = Len(played) + n /\ Len(playQueue') = Len(playQueue) - n
    BY <1>5, <1>6
  <2> QED BY <1>3, <1>6, <2>1
<1>7. CASE /\ n <= Len(playQueue) /\ UNCHANGED failure
           /\ played' = played \o SubSeq(playQueue, 1, n)
           /\ playQueue' = SubSeq(playQueue, n + 1, Len(playQueue))
           /\ playbackConsumed' = (playbackConsumed \/ Len(played') >= PlaybackFrames)
  <2>1. n \in 0..Len(playQueue)
    BY <1>3, <1>5, <1>7
  <2>2. Len(playQueue') = Len(playQueue) - n /\ played' \in Seq(Nat)
        /\ playQueue' \in Seq(Nat) /\ played' \o playQueue' = played \o playQueue
    BY <1>5, <1>7, <2>1, TakeKeepsTheStream
  <2>3. Len(played') + Len(playQueue') = Len(played) + Len(playQueue)
    <3>1. /\ Len(played' \o playQueue') = Len(played') + Len(playQueue')
          /\ Len(played \o playQueue) = Len(played) + Len(playQueue)
      BY <1>5, <2>2, ConcatProperties
    <3> QED BY <2>2, <3>1
  <2>4. Len(played') = Len(played) + n
    <3>1. Len(played') \in Nat
      BY <2>2, LenProperties
    <3> QED BY <1>3, <1>5, <2>2, <2>3, <3>1
  <2> QED BY <1>3, <1>7, <2>2, <2>4
<1>8. CASE /\ UNCHANGED <<played, playQueue, playbackConsumed>> /\ n > Len(playQueue)
           /\ failure' = FirstFailure("playback_underflow")
  BY <1>3, <1>8
<1> QED BY <1>4, <1>6, <1>7, <1>8

\* In the priming and in a callback alike, a block that falls short says so.
LEMMA OutputKeepsShort ==
    ASSUME StreamInv, ShortInv, WriteOutput, control \notin AfterBarrier,
           control' \notin Unprimed, UNCHANGED <<playbackFinished, playbackWorker>>,
           faults \subseteq faults',
           thrown' = "playback_underflow" => thrown = "playback_underflow"
    PROVE  ShortInv'
<1>1. TimelineInv /\ PlaybackInv /\ PlaybackInv'
  BY OutputInStep DEF StreamInv
<1>2. PICK n \in Nat :
         /\ PlaybackBefore(timeline'.output) = PlaybackBefore(timeline.output) + n
         /\ \/ /\ Len(played') = Len(played) + n
               /\ Len(playQueue') = Len(playQueue) - n
               /\ UNCHANGED failure
               /\ \/ n = 0 /\ UNCHANGED playbackConsumed
                  \/ playbackConsumed' = (playbackConsumed \/ Len(played') >= PlaybackFrames)
            \/ /\ UNCHANGED <<played, playQueue, playbackConsumed>>
               /\ n > Len(playQueue)
               /\ failure' = FirstFailure("playback_underflow")
  BY <1>1, OutputCounts
<1>3. /\ Len(played) \in Nat /\ Len(playQueue) \in Nat /\ Len(played') \in Nat
      /\ PlaybackBefore(timeline.output) \in Nat /\ PlaybackFrames \in Nat
  <2>1. timeline.output \in 0..TotalFrames /\ TotalFrames \in Nat
    BY <1>1, LengthsAssumption DEF TimelineInv, TotalFrames
  <2>2. timeline.output \in Nat /\ 0 \in Nat /\ PlaybackFrames \in Nat
    BY <2>1, LengthsAssumption
  <2>3. PlaybackBefore(timeline.output) \in 0..PlaybackFrames
    BY <2>2, PlaybackBeforeProperties
  <2> QED BY <1>1, <2>2, <2>3 DEF PlaybackInv
<1>4. /\ Len(played) <= PlaybackBefore(timeline.output)
      /\ playbackConsumed \/ Len(played) < PlaybackFrames
      /\ failure = "playback_underflow" \/ thrown = "playback_underflow" =>
            Len(played) < PlaybackBefore(timeline.output)
  BY DEF ShortInv, PlaybackShort, NeverStarted
<1>5. /\ Len(played') <= PlaybackBefore(timeline'.output)
      /\ PlaybackShort \/ failure' # failure => PlaybackShort'
  BY <1>2, <1>3, <1>4 DEF PlaybackShort
<1>6. playbackConsumed' \/ Len(played') < PlaybackFrames
  <2>1. CASE UNCHANGED playbackConsumed /\ Len(played') = Len(played)
    BY <1>4, <2>1
  <2>2. CASE playbackConsumed' = (playbackConsumed \/ Len(played') >= PlaybackFrames)
    <3>1. Len(played') >= PlaybackFrames \/ Len(played') < PlaybackFrames
      BY <1>3
    <3> QED BY <2>2, <3>1
  <2>3. n = 0 => Len(played) + n = Len(played)
    BY <1>3
  <2> QED BY <1>2, <2>1, <2>2, <2>3
<1>7. Len(played') + Len(playQueue') = Len(played) + Len(playQueue)
  BY <1>2, <1>3
<1>8. failure' = "playback_underflow" \/ thrown' = "playback_underflow" => PlaybackShort'
  BY <1>4, <1>5 DEF PlaybackShort
<1> QED BY <1>5, <1>6, <1>7, <1>8 DEF ShortInv

\* The playback worker only adds, and it finishes with the last frame.
LEMMA PlaybackWriteCounts ==
    ASSUME PlaybackInv, PlaybackWrites
    PROVE  /\ Len(playQueue') >= Len(playQueue)
           /\ playbackWorker' = "finishing" => Len(played') + Len(playQueue') = PlaybackFrames
<1> DEFINE p == Len(played)
           q == Len(playQueue)
           n == Smaller(Smaller(RingFrames - q, ChunkFrames), PlaybackFrames - (p + q))
<1>1. /\ played' = played /\ playQueue' = playQueue \o Frames(p + q, n)
      /\ playbackWorker' = (IF p + q + n = PlaybackFrames THEN "finishing" ELSE "deciding")
  BY DEF PlaybackWrites, PlaybackRing!Put, PlaybackRing!Room
<1>2. /\ p \in Nat /\ q \in Nat /\ p + q <= PlaybackFrames /\ q <= RingFrames
      /\ playQueue = Frames(p, q)
  BY DEF PlaybackInv
<1> HIDE DEF p, q
<1>3. n \in Nat /\ p + q \in Nat
  BY <1>2, LengthsAssumption, SMT DEF Smaller
<1> HIDE DEF n
<1>4. /\ playQueue \in Seq(Nat) /\ Len(playQueue) = q
      /\ Frames(p + q, n) \in Seq(Nat) /\ Len(Frames(p + q, n)) = n
  BY <1>2, <1>3, FramesProperties
<1>5. Len(playQueue') = q + n
  <2>1. playQueue' = playQueue \o Frames(p + q, n)
    BY <1>1
  <2>2. Len(playQueue \o Frames(p + q, n)) = Len(playQueue) + Len(Frames(p + q, n))
    BY <1>4, ConcatProperties
  <2> QED BY <1>4, <2>1, <2>2
<1>6. q + n >= q /\ (p + q + n = PlaybackFrames => p + (q + n) = PlaybackFrames)
  BY <1>2, <1>3, LengthsAssumption
<1> QED BY <1>1, <1>5, <1>6 DEF p, q

\* It holds before the first step.
LEMMA InitShort == Init => ShortInv
<1> SUFFICES ASSUME Init PROVE ShortInv
  OBVIOUS
<1>1. Len(<<>>) = 0 /\ played = <<>> /\ playQueue = <<>>
  BY EmptySeq DEF Init, PlaybackRing!Init, RecordingRing!Init
<1>2. PlaybackBefore(0) = 0 /\ PlaybackFrames \in Nat \ {0}
  BY LengthsAssumption, SMT DEF PlaybackBefore, Smaller, Larger
<1> QED BY <1>1, <1>2 DEF Init, ShortInv

\* Every step keeps it.
LEMMA NextShort ==
   AdmissionInv /\ HoldingInv /\ StreamInv /\ ShortInv /\ [Next]_vars => ShortInv'
<1> SUFFICES ASSUME AdmissionInv, HoldingInv, StreamInv, ShortInv, [Next]_vars PROVE ShortInv'
  OBVIOUS
<1> USE DEF FirstFailure, AfterBarrier, Unprimed, BeforeStart, controlVars,
   driverVars, stateVars, threadVars, flagVars, ringVars, worldVars, Goto,
   Throw, ControlOnly, QuietControl, NoHazard, Hazard
<1>0. ASSUME UNCHANGED <<timeline, played, playQueue, playbackConsumed>>,
             faults \subseteq faults',
             playbackFinished' \/ playbackWorker' = "finishing" =>
                playbackFinished \/ playbackWorker = "finishing",
             failure' = "playback_underflow" \/ thrown' = "playback_underflow" =>
                failure = "playback_underflow" \/ thrown = "playback_underflow",
             control' \in Unprimed => control \in Unprimed,
             control \in AfterBarrier =>
                control' \in AfterBarrier /\ stream' = stream /\ (expired => expired')
      PROVE  ShortInv'
  BY <1>0 DEF ShortInv, PlaybackShort, NeverStarted
<1>1. CASE StartWorkers
  BY <1>1, <1>0 DEF StartWorkers
<1>2. CASE PrebufferLevel
  BY <1>2, <1>0 DEF PrebufferLevel
<1>3. CASE PrebufferChecks
  BY <1>3, <1>0 DEF PrebufferChecks
<1>4. CASE PrebufferFinished
  <2>1. /\ UNCHANGED <<timeline, played, playQueue, playbackConsumed, playbackFinished,
                       playbackWorker, faults, expired, stream>>
        /\ control = "prebuffer_finished"
    BY <1>4 DEF PrebufferFinished
  <2>2. CASE control' = "prebuffer" /\ UNCHANGED <<thrown, failure>>
    BY <1>0, <2>1, <2>2
  <2>3. CASE control' = "wake" /\ (playbackFinished \/ expired)
    <3>1. stream = "off"
      BY <2>1 DEF AdmissionInv, Serving
    <3>2. Len(played) = 0
      <4>1. Len(played) \in Nat /\ Len(played) <= PlaybackBefore(0)
        BY <2>1 DEF ShortInv, StreamInv, PlaybackInv
      <4>2. PlaybackBefore(0) = 0
        BY LengthsAssumption, SMT DEF PlaybackBefore, Smaller, Larger
      <4> QED BY <4>1, <4>2
    <3>3. playbackFinished => Len(playQueue) = PlaybackFrames \/ "source" \in faults
      BY <3>2 DEF ShortInv, StreamInv, PlaybackInv
    <3>4. NeverStarted'
      BY <2>1, <2>3, <3>1, <3>3 DEF NeverStarted
    <3> QED BY <2>1, <2>3, <3>4 DEF ShortInv
  <2> QED BY <1>4, <2>2, <2>3 DEF PrebufferFinished
<1>5. CASE Create
  BY <1>5, <1>0 DEF Create
<1>6. CASE Prime
  <2>1. /\ WriteOutput /\ control = "prime" /\ control' \in {"primed", "stop"}
        /\ UNCHANGED <<playbackFinished, playbackWorker>> /\ faults \subseteq faults'
        /\ thrown' \in {thrown, "backend_failure"}
    BY <1>6 DEF Prime
  <2> QED BY <2>1, OutputKeepsShort
<1>7. CASE Primed
  BY <1>7, <1>0 DEF Primed
<1>8. CASE Ready
  BY <1>8, <1>0 DEF Ready
<1>9. CASE Start
  BY <1>9, <1>0 DEF Start
<1>10. CASE Started
  BY <1>10, <1>0 DEF Started
<1>11. CASE Wait
  BY <1>11, <1>0 DEF Wait, WaitThrows
<1>12. CASE DrainDecision
  BY <1>12, <1>0 DEF DrainDecision
<1>13. CASE Stop
  BY <1>13, <1>0 DEF Stop
<1>14. CASE CloseGate
  BY <1>14, <1>0 DEF CloseGate
<1>15. CASE AwaitReaders
  BY <1>15, <1>0 DEF AwaitReaders
<1>16. CASE Wake
  BY <1>16, <1>0 DEF Wake
<1>17. CASE JoinPlayback
  BY <1>17, <1>0 DEF JoinPlayback
<1>18. CASE JoinWriter
  BY <1>18, <1>0 DEF JoinWriter
<1>19. CASE Dispose
  BY <1>19, <1>0 DEF Dispose
<1>20. CASE End
  BY <1>20, <1>0 DEF End
<1>21. CASE PlaybackDecides
  BY <1>21, <1>0 DEF PlaybackDecides, NotByPlayback
<1>22. CASE PlaybackWrites
  <2>1. /\ PlaybackInv' /\ UNCHANGED <<timeline, played, playbackConsumed, playbackFinished,
                                         failure, thrown, control, stream, expired, faults>>
    BY <1>22, PlaybackWritesInOrder DEF StreamInv, PlaybackWrites, PlaybackRing!Put, NotByPlayback
  <2>2. Len(playQueue') >= Len(playQueue)
    BY <1>22, PlaybackWriteCounts DEF StreamInv
  <2>3. playbackWorker' = "finishing" => Len(played') + Len(playQueue') = PlaybackFrames
    BY <1>22, PlaybackWriteCounts DEF StreamInv
  <2>4. /\ Len(played) + Len(playQueue) = PlaybackFrames =>
              Len(played') + Len(playQueue') = PlaybackFrames
        /\ Len(playQueue) = PlaybackFrames => Len(playQueue') = PlaybackFrames
    <3>1. /\ Len(played) \in Nat /\ Len(playQueue) \in Nat /\ Len(playQueue') \in Nat
          /\ Len(played') = Len(played) /\ Len(played') + Len(playQueue') <= PlaybackFrames
          /\ PlaybackFrames \in Nat
      BY <2>1, LengthsAssumption DEF StreamInv, PlaybackInv
    <3> QED BY <2>2, <3>1
  <2>5. playbackFinished' \/ playbackWorker' = "finishing" =>
           Len(played') + Len(playQueue') = PlaybackFrames \/ "source" \in faults'
    BY <2>1, <2>3, <2>4 DEF ShortInv
  <2>6. NeverStarted => NeverStarted'
    BY <2>1, <2>4 DEF NeverStarted
  <2> QED BY <2>1, <2>5, <2>6 DEF ShortInv, PlaybackShort
<1>23. CASE SourceFails
  <2>1. /\ UNCHANGED <<timeline, played, playQueue, playbackConsumed, control, thrown, stream,
                       expired>>
        /\ faults \subseteq faults' /\ "source" \in faults'
        /\ failure' = "playback_underflow" => failure = "playback_underflow"
    BY <1>23 DEF SourceFails, NotByPlayback
  <2>2. NeverStarted => NeverStarted'
    BY <2>1 DEF NeverStarted
  <2> QED BY <2>1, <2>2 DEF ShortInv, PlaybackShort
<1>24. CASE PlaybackFinishes
  BY <1>24, <1>0 DEF PlaybackFinishes, NotByPlayback
<1>25. CASE WriterReads
  BY <1>25, <1>0 DEF WriterReads, RecordingRing!Take, WriterFails,
     WriterMoves, NotByWriter
<1>26. CASE WriterChecksFlag
  BY <1>26, <1>0 DEF WriterChecksFlag, WriterMoves, NotByWriter
<1>27. CASE WriterFinishes
  BY <1>27, <1>0 DEF WriterFinishes, WriterMoves, WriterFails, CloseRecording,
     NotByWriter
<1>28. ASSUME NEW t \in Callbacks, Enter(t) PROVE ShortInv'
  BY <1>28, <1>0 DEF Enter, NotByCallbacks, CallbackMoves
<1>29. ASSUME NEW t \in Callbacks, Begin(t) PROVE ShortInv'
  BY <1>29, <1>0 DEF Begin, NotByCallbacks, CallbackMoves
<1>30. ASSUME NEW t \in Callbacks, Output(t) PROVE ShortInv'
  <2>1. /\ WriteOutput /\ callback[t] = "output" /\ control' = control /\ thrown' = thrown
        /\ UNCHANGED <<playbackFinished, playbackWorker>> /\ faults \subseteq faults'
    BY <1>30 DEF Output, CallbackMoves, NotByCallbacks
  <2>2. control \in Serving
    BY <2>1 DEF AdmissionInv
  <2> QED BY <2>1, <2>2, OutputKeepsShort DEF Serving
<1>31. ASSUME NEW t \in Callbacks, Input(t) PROVE ShortInv'
  <2>1. /\ UNCHANGED <<played, playQueue, playbackConsumed, playbackFinished, playbackWorker,
                       control, thrown, stream, expired>>
        /\ faults \subseteq faults'
        /\ failure' = "playback_underflow" => failure = "playback_underflow"
    BY <1>31 DEF Input, RecordBlock, NotByCallbacks
  <2>2. timeline'.output = timeline.output
    <3>1. timeline \in [output : 0..TotalFrames, recorded : 0..TotalFrames, firstInput : BOOLEAN]
      BY DEF StreamInv, TimelineInv
    <3> QED BY <1>31, <3>1 DEF Input
  <2>3. NeverStarted => NeverStarted'
    BY <2>1 DEF NeverStarted
  <2> QED BY <2>1, <2>2, <2>3 DEF ShortInv, PlaybackShort
<1>32. ASSUME NEW t \in Callbacks, Decide(t) PROVE ShortInv'
  <2>1. /\ UNCHANGED <<timeline, played, playQueue, playbackConsumed, playbackFinished,
                       playbackWorker, control, thrown, stream, expired, faults>>
        /\ \/ failure' = failure
           \/ RecordingComplete /\ ~playbackConsumed
    BY <1>32 DEF Decide, NotByCallbacks
  <2>2. CASE failure' = failure
    BY <1>0, <2>1, <2>2
  <2>3. CASE RecordingComplete /\ ~playbackConsumed
    <3>1. timeline.output = TotalFrames
      <4>1. /\ timeline.recorded \in 0..TotalFrames /\ timeline.output \in 0..TotalFrames
            /\ timeline.recorded <= timeline.output /\ timeline.recorded >= TotalFrames
        BY <2>3 DEF StreamInv, TimelineInv, LeadInv, RecordingComplete
      <4>2. TotalFrames \in Nat
        BY LengthsAssumption DEF TotalFrames
      <4> QED BY <4>1, <4>2
    <3>2. PlaybackBefore(TotalFrames) = PlaybackFrames
      <4>1. 0 \in Nat
        OBVIOUS
      <4> QED BY <4>1, PlaybackBeforeProperties
    <3>3. PlaybackShort'
      BY <2>1, <2>3, <3>1, <3>2 DEF ShortInv, PlaybackShort
    <3> QED BY <2>1, <3>3 DEF ShortInv
  <2> QED BY <2>1, <2>2, <2>3
<1>33. ASSUME NEW t \in Callbacks, Clear(t) PROVE ShortInv'
  BY <1>33, <1>0 DEF Clear, NotByCallbacks, CallbackMoves
<1>34. ASSUME NEW t \in Callbacks, Signal(t) PROVE ShortInv'
  BY <1>34, <1>0 DEF Signal, NotByCallbacks, CallbackMoves
<1>35. ASSUME NEW t \in Callbacks, Leave(t) PROVE ShortInv'
  BY <1>35, <1>0 DEF Leave, NotByCallbacks, CallbackMoves
<1>36. CASE Notify
  BY <1>36, <1>0 DEF Notify, NotByCallbacks, CallbackMoves
<1>37. CASE Cancel
  BY <1>37, <1>0 DEF Cancel
<1>38. CASE Expire
  BY <1>38, <1>0 DEF Expire
<1>39. CASE UNCHANGED vars
  BY <1>39, <1>0 DEF vars
<1> QED
  BY <1>1, <1>2, <1>3, <1>4, <1>5, <1>6, <1>7, <1>8, <1>9, <1>10, <1>11,
     <1>12, <1>13, <1>14, <1>15, <1>16, <1>17, <1>18, <1>19, <1>20, <1>21,
     <1>22, <1>23, <1>24, <1>25, <1>26, <1>27, <1>28, <1>29, <1>30, <1>31,
     <1>32, <1>33, <1>34, <1>35, <1>36, <1>37, <1>38, <1>39 DEF Next,
     ControlStep, PlaybackStep, WriterStep, CallbackStep

CauseInv == ControlInv /\ FaultsInv /\ CountsInv /\ ShortInv /\ OutcomeInv

\* The causes hold in every behaviour.
LEMMA CaptureCauses == Spec => [](IInv /\ CauseInv)
<1>1. Init => CauseInv
  BY InitControl, InitFaults, InitCounts, InitShort, InitOutcome DEF CauseInv
<1>2. IInv /\ CauseInv /\ [Next]_vars => CauseInv'
  BY NextControl, NextFaults, NextCounts, NextShort, NextOutcome DEF CauseInv, IInv
<1> QED BY <1>1, <1>2, CaptureInvariant, PTL DEF Spec

\* A capture that nothing stopped ran its recording to the end and its writer
\* finished, unless a failure or a driver event is there to be reported.
LEMMA NothingToBlame ==
    ASSUME IInv, CauseInv, control = "ended", thrown = "none", exit = "none", ~Failed
    PROVE  /\ writerFinished
           /\ timeline.recorded = TotalFrames
<1>1. drain /\ recordingFinished /\ ~stopRequested
  BY DEF CauseInv, ControlInv, Unwinding, AfterBarrier
<1>2. writer = "exited"
  BY DEF IInv, HoldingInv
<1>3. writerFinished
  BY <1>1, <1>2 DEF CauseInv, ControlInv, Failed
<1> QED BY <1>1, <1>3 DEF CauseInv, CountsInv

\* No capture ends with an error nobody caused: the token, the clock, a
\* missing frame or a fault is behind every verdict of AsioAudioBackend::capture,
\* or the playback became whole between the two looks of the prebuffering.
THEOREM CaptureVerdictHasACause == Spec => []VerdictHasACause
<1>1. IInv /\ CauseInv => VerdictHasACause
  <2> SUFFICES ASSUME IInv, CauseInv PROVE VerdictHasACause
    OBVIOUS
  <2>1. thrown \in {"none", "cancelled", "backend_failure"} \cup Failures
        /\ failure \in {"none"} \cup Failures /\ exit \in {"none", "cancelled", "timed_out"}
    BY DEF IInv, SuccessInv, CauseInv, ControlInv
  <2>2. outcome # "none" => control = "ended"
    BY DEF IInv, HoldingInv
  <2>3. outcome # "none" => outcome = Verdict \/ (outcome = "backend_failure" /\ faults # {})
    BY DEF CauseInv, OutcomeInv
  <2>4. ASSUME outcome = "cancelled" PROVE cancelled
    <3>1. thrown = "cancelled" \/ exit = "cancelled" \/ cancelled
      BY <2>1, <2>3, <2>4 DEF Verdict, Failures
    <3> QED BY <3>1 DEF CauseInv, FaultsInv
  <2>5. ASSUME outcome = "timed_out" PROVE expired
    <3>1. exit = "timed_out"
      BY <2>1, <2>3, <2>5 DEF Verdict, Failures
    <3> QED BY <3>1 DEF CauseInv, FaultsInv
  <2>6. ASSUME NEW f \in Failures \ {"writer_failure"}, outcome = f
        PROVE  failure = f \/ (thrown = f /\ f = "playback_underflow")
    <3>1. thrown = f \/ failure = f
      BY <2>1, <2>3, <2>6 DEF Verdict, Failures
    <3> QED BY <2>6, <3>1 DEF CauseInv, FaultsInv
  <2>7. ASSUME outcome = "playback_underflow" PROVE PlaybackShort \/ NeverStarted
    BY <2>6, <2>7 DEF Failures, CauseInv, ShortInv
  <2>8. ASSUME outcome = "recording_overflow" PROVE RecordingShort
    BY <2>6, <2>8 DEF Failures, CauseInv, CountsInv
  <2>9. ASSUME outcome = "source_failure" PROVE "source" \in faults
    BY <2>6, <2>9 DEF Failures, CauseInv, FaultsInv
  <2>10. ASSUME outcome = "writer_failure" PROVE faults \cap {"file", "conversion"} # {}
    <3>1. CASE failure = "writer_failure"
      BY <3>1 DEF CauseInv, CountsInv
    <3>2. CASE failure # "writer_failure"
      <4>1. thrown # "writer_failure"
        BY <3>2 DEF Failures, CauseInv, FaultsInv
      <4>2. Verdict = "writer_failure"
        BY <2>3, <2>10
      <4>3. thrown = "none" /\ exit = "none" /\ ~Failed /\ ~writerFinished
        BY <2>1, <3>2, <4>1, <4>2 DEF Verdict, Failed
      <4> QED BY <2>2, <2>10, <4>3, NothingToBlame
    <3> QED BY <3>1, <3>2
  <2>11. ASSUME outcome = "backend_failure", events = {} PROVE faults # {}
    <3>1. CASE thrown = "backend_failure" \/ cleanupFailed
      BY <3>1 DEF CauseInv, FaultsInv
    <3>2. CASE Verdict = "backend_failure" /\ thrown # "backend_failure" /\ ~cleanupFailed
      <4>1. thrown = "none" /\ exit = "none" /\ ~Failed /\ completedFrames < TotalFrames
        BY <2>1, <2>11, <3>2 DEF Verdict, Failed, Failures
      <4>2. timeline.recorded = TotalFrames
        BY <2>2, <2>11, <4>1, NothingToBlame
      <4>3. completedFrames # timeline.recorded
        <5>1. TotalFrames \in Nat
          BY LengthsAssumption DEF TotalFrames
        <5> QED BY <4>1, <4>2, <5>1
      <4> QED BY <4>3 DEF CauseInv, CountsInv
    <3> QED BY <2>3, <2>11, <3>1, <3>2
  <2> QED BY <2>4, <2>5, <2>7, <2>8, <2>9, <2>10, <2>11 DEF VerdictHasACause, NeverStarted
<1> QED BY <1>1, CaptureCauses, PTL
=============================================================================
