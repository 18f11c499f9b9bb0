------------------------- MODULE CallbackGateProofs -------------------------
(***************************************************************************)
(* Proofs about CallbackGate, for any finite set of callback threads, any  *)
(* set of captures and any width of the reader count.                      *)
(***************************************************************************)
EXTENDS CallbackGate, FiniteSetTheorems, TLAPS

\* The capture that is not idle is the owner, and only that one.
OwnerIsBusy == \A c \in Captures : capture[c] # "idle" <=> owner = c

\* The pointer is the owner's from the store that publishes it to the store
\* that clears it.
TargetIsOwner ==
    \A c \in Captures :
        capture[c] \in {"targeted", "active", "closing", "drained"} => target = c

\* The closed bit is clear exactly while a capture is active.
OpenWhileActive ==
    /\ \A c \in Captures : capture[c] = "active" => ~Closed(word)
    /\ ~Closed(word) => \E c \in Captures : capture[c] = "active"

\* Callbacks are inside only between Open and the end of the wait, and what
\* they hold is the owner.
InsideWhileOpen ==
    \A t \in Inside :
        /\ owner \in Captures
        /\ capture[owner] \in {"active", "closing"}
        /\ reader[t] = "using" => held[t] = owner

\* A callback about to exchange holds a copy of a word that lets it in.
CopyMayEnter == \A t \in Callbacks : reader[t] = "loaded" => MayEnter(seen[t])

GateInv ==
    /\ TypeOK
    /\ OwnerIsBusy
    /\ TargetIsOwner
    /\ OpenWhileActive
    /\ InsideWhileOpen
    /\ CopyMayEnter
    /\ ReadersCounted

\* The callbacks inside the gate can be counted, before and after a step.
LEMMA InsideFinite == IsFiniteSet(Inside) /\ IsFiniteSet(Inside')
<1>1. Inside \subseteq Callbacks /\ Inside' \subseteq Callbacks
  BY DEF Inside
<1> QED BY <1>1, ThreadsAssumption, FS_Subset

\* The gate starts closed, with no owner and nobody inside.
LEMMA InitGate == Init => GateInv
<1> SUFFICES ASSUME Init PROVE GateInv
  OBVIOUS
<1> USE ThreadsAssumption, ClosedBitAssumption DEF Init
<1>1. TypeOK
  BY SMT DEF TypeOK, Words, ReaderMask, CaptureSteps, ReaderSteps
<1>2. Inside = {}
  BY DEF Inside
<1>3. ReadersCounted
  BY <1>2, FS_EmptySet, SMT DEF ReadersCounted, ReadersIn, Closed
<1>4. OwnerIsBusy /\ TargetIsOwner /\ InsideWhileOpen /\ CopyMayEnter
  BY <1>2 DEF OwnerIsBusy, TargetIsOwner, InsideWhileOpen, CopyMayEnter
<1>5. OpenWhileActive
  BY SMT DEF OpenWhileActive, Closed
<1> QED BY <1>1, <1>3, <1>4, <1>5 DEF GateInv

\* A step of a capture leaves the callbacks, and with them the set of those
\* inside, as they are.
LEMMA CaptureStep ==
    ASSUME GateInv, NEW c \in Captures, CaptureNext(c)
    PROVE  GateInv'
<1>0. /\ TypeOK /\ OwnerIsBusy /\ TargetIsOwner /\ OpenWhileActive /\ InsideWhileOpen
      /\ CopyMayEnter /\ ReadersCounted
  BY DEF GateInv
<1>t. /\ word \in Int /\ ClosedBit \in Int /\ ClosedBit > 1 /\ word >= 0
      /\ word < ClosedBit + ClosedBit
      /\ capture \in [Captures -> CaptureSteps] /\ NoTarget \notin Captures
  BY <1>0, ThreadsAssumption, ClosedBitAssumption, SMT DEF TypeOK, Words, ReaderMask
<1>k. /\ reader' = reader /\ seen' = seen /\ held' = held /\ Inside' = Inside
      /\ CopyMayEnter'
  BY <1>0 DEF CaptureNext, Deactivation, Claim, SetTarget, Open, Close, ReadersGone,
              ClearTarget, ReleaseOwner, Inside, CopyMayEnter
<1>1. CASE Claim(c)
  <2> USE <1>1 DEF Claim, CaptureMoves
  <2>1. TypeOK'
    BY <1>0, <1>k DEF TypeOK, CaptureSteps
  <2>2. OwnerIsBusy' /\ TargetIsOwner' /\ OpenWhileActive'
    BY <1>0, <1>t DEF OwnerIsBusy, TargetIsOwner, OpenWhileActive
  <2>3. InsideWhileOpen' /\ ReadersCounted'
    BY <1>0, <1>t, <1>k DEF InsideWhileOpen, ReadersCounted
  <2> QED BY <1>k, <2>1, <2>2, <2>3 DEF GateInv
<1>2. CASE SetTarget(c)
  <2> USE <1>2 DEF SetTarget, CaptureMoves
  <2>1. TypeOK'
    BY <1>0, <1>k DEF TypeOK, CaptureSteps
  <2>2. OwnerIsBusy' /\ TargetIsOwner' /\ OpenWhileActive'
    BY <1>0, <1>t DEF OwnerIsBusy, TargetIsOwner, OpenWhileActive
  <2>3. InsideWhileOpen' /\ ReadersCounted'
    BY <1>0, <1>t, <1>k DEF InsideWhileOpen, ReadersCounted, OwnerIsBusy
  <2> QED BY <1>k, <2>1, <2>2, <2>3 DEF GateInv
<1>3. CASE Open(c)
  <2> USE <1>3 DEF Open, CaptureMoves
  <2>1. TypeOK'
    BY <1>0, <1>k, <1>t, SMT DEF TypeOK, CaptureSteps, Words, ReaderMask
  <2>2. owner = c
    BY <1>0 DEF OwnerIsBusy
  <2>3. OwnerIsBusy' /\ TargetIsOwner'
    BY <1>0, <1>t DEF OwnerIsBusy, TargetIsOwner
  <2>4. OpenWhileActive'
    BY <1>0, <1>t, <2>2, SMT DEF OpenWhileActive, OwnerIsBusy, Closed
  <2>5. Inside = {}
    BY <1>0, <2>2 DEF InsideWhileOpen
  <2>6. InsideWhileOpen' /\ ReadersCounted'
    BY <1>t, <1>k, <2>5, FS_EmptySet, SMT DEF InsideWhileOpen, ReadersCounted, ReadersIn, Closed
  <2> QED BY <1>k, <2>1, <2>3, <2>4, <2>6 DEF GateInv
<1>4. CASE Close(c)
  <2> USE <1>4 DEF Close, CaptureMoves
  <2>1. ~Closed(word) /\ owner = c /\ word' = word + ClosedBit
    BY <1>0 DEF OpenWhileActive, OwnerIsBusy
  <2>2. TypeOK'
    BY <1>0, <1>k, <1>t, <2>1, SMT DEF TypeOK, CaptureSteps, Words, ReaderMask, Closed
  <2>3. OwnerIsBusy' /\ TargetIsOwner'
    BY <1>0, <1>t DEF OwnerIsBusy, TargetIsOwner
  <2>4. OpenWhileActive'
    <3>1. Closed(word')
      BY <1>t, <2>1, SMT DEF Closed
    <3>2. \A d \in Captures : capture'[d] # "active"
      BY <1>0, <1>t, <2>1 DEF OwnerIsBusy
    <3> QED BY <3>1, <3>2 DEF OpenWhileActive
  <2>5. InsideWhileOpen'
    BY <1>0, <1>t, <1>k, <2>1 DEF InsideWhileOpen
  <2>6. ReadersCounted'
    BY <1>0, <1>t, <1>k, <2>1, SMT DEF ReadersCounted, ReadersIn, Closed
  <2> QED BY <1>k, <2>2, <2>3, <2>4, <2>5, <2>6 DEF GateInv
<1>5. CASE ReadersGone(c)
  <2> USE <1>5 DEF ReadersGone, CaptureMoves
  <2>1. TypeOK'
    BY <1>0, <1>k DEF TypeOK, CaptureSteps
  <2>2. OwnerIsBusy' /\ TargetIsOwner' /\ OpenWhileActive'
    BY <1>0, <1>t DEF OwnerIsBusy, TargetIsOwner, OpenWhileActive
  <2>3. Inside = {}
    BY <1>0, InsideFinite, FS_EmptySet DEF ReadersCounted
  <2>4. InsideWhileOpen' /\ ReadersCounted'
    BY <1>0, <1>k, <2>3 DEF InsideWhileOpen, ReadersCounted
  <2> QED BY <1>k, <2>1, <2>2, <2>4 DEF GateInv
<1>6. CASE ClearTarget(c)
  <2> USE <1>6 DEF ClearTarget, CaptureMoves
  <2>1. TypeOK'
    BY <1>0, <1>k DEF TypeOK, CaptureSteps
  <2>2. OwnerIsBusy' /\ TargetIsOwner' /\ OpenWhileActive'
    BY <1>0, <1>t DEF OwnerIsBusy, TargetIsOwner, OpenWhileActive
  <2>3. InsideWhileOpen' /\ ReadersCounted'
    BY <1>0, <1>t, <1>k DEF InsideWhileOpen, ReadersCounted, OwnerIsBusy
  <2> QED BY <1>k, <2>1, <2>2, <2>3 DEF GateInv
<1>7. CASE ReleaseOwner(c)
  <2> USE <1>7 DEF ReleaseOwner, CaptureMoves
  <2>1. TypeOK'
    BY <1>0, <1>k DEF TypeOK, CaptureSteps
  <2>2. OwnerIsBusy' /\ TargetIsOwner' /\ OpenWhileActive'
    BY <1>0, <1>t DEF OwnerIsBusy, TargetIsOwner, OpenWhileActive
  <2>3. InsideWhileOpen' /\ ReadersCounted'
    BY <1>0, <1>t, <1>k DEF InsideWhileOpen, ReadersCounted, OwnerIsBusy
  <2> QED BY <1>k, <2>1, <2>2, <2>3 DEF GateInv
<1> QED BY <1>1, <1>2, <1>3, <1>4, <1>5, <1>6, <1>7 DEF CaptureNext, Deactivation

\* A step of a callback leaves owner, pointer and captures as they are.
LEMMA CallbackStep ==
    ASSUME GateInv, NEW t \in Callbacks, CallbackNext(t)
    PROVE  GateInv'
<1>0. /\ TypeOK /\ OwnerIsBusy /\ TargetIsOwner /\ OpenWhileActive /\ InsideWhileOpen
      /\ CopyMayEnter /\ ReadersCounted
  BY DEF GateInv
<1>t. /\ word \in Int /\ ClosedBit \in Int /\ ClosedBit > 1 /\ word >= 0
      /\ word < ClosedBit + ClosedBit /\ ReaderMask = ClosedBit - 1
      /\ reader \in [Callbacks -> ReaderSteps] /\ seen \in [Callbacks -> Words]
      /\ held \in [Callbacks -> Captures \cup {NoTarget}]
  BY <1>0, ClosedBitAssumption, SMT DEF TypeOK, Words, ReaderMask
<1>k. /\ owner' = owner /\ target' = target /\ capture' = capture
      /\ OwnerIsBusy' /\ TargetIsOwner'
  BY <1>0 DEF CallbackNext, Load, Enter, EnterRetry, TakeTarget, Leave, OwnerIsBusy,
              TargetIsOwner
<1>1. CASE Load(t) \/ EnterRetry(t)
  <2>1. /\ word' = word /\ held' = held
        /\ reader[t] \notin {"entered", "using"} /\ reader'[t] \notin {"entered", "using"}
        /\ \A u \in Callbacks : u # t => reader'[u] = reader[u] /\ seen'[u] = seen[u]
        /\ reader'[t] = "loaded" => MayEnter(seen'[t])
        /\ reader' \in [Callbacks -> ReaderSteps] /\ seen' \in [Callbacks -> Words]
    BY <1>0, <1>1, <1>t DEF Load, EnterRetry, ReaderMoves, TypeOK, ReaderSteps
  <2>2. Inside' = Inside
    BY <2>1 DEF Inside
  <2>3. TypeOK' /\ CopyMayEnter' /\ ReadersCounted'
    BY <1>0, <1>k, <2>1, <2>2 DEF TypeOK, CopyMayEnter, ReadersCounted
  <2>4. InsideWhileOpen' /\ OpenWhileActive'
    BY <1>0, <1>k, <2>1, <2>2 DEF InsideWhileOpen, OpenWhileActive, Inside
  <2> QED BY <1>k, <2>3, <2>4 DEF GateInv
<1>2. CASE Enter(t)
  <2> USE <1>2 DEF Enter, ReaderMoves
  <2>1. MayEnter(word) /\ word' = word + 1 /\ reader[t] = "loaded"
    BY <1>0 DEF CopyMayEnter
  <2>2. ~Closed(word) /\ ~Closed(word') /\ ReadersIn(word') = ReadersIn(word) + 1
        /\ word' \in Words
    BY <1>t, <2>1, SMT DEF MayEnter, Closed, ReadersIn, ReaderMask, Words
  <2>3. TypeOK'
    BY <1>0, <1>k, <2>2 DEF TypeOK, ReaderSteps
  <2>4. Inside' = Inside \cup {t} /\ t \notin Inside
    BY <1>t, <2>1 DEF Inside
  <2>5. ReadersCounted'
    BY <1>0, <2>2, <2>4, InsideFinite, FS_AddElement DEF ReadersCounted
  <2>6. PICK c \in Captures : capture[c] = "active" /\ owner = c
    BY <1>0, <2>2 DEF OpenWhileActive, OwnerIsBusy
  <2>7. InsideWhileOpen'
    BY <1>0, <1>t, <1>k, <2>4, <2>6 DEF InsideWhileOpen
  <2>8. OpenWhileActive' /\ CopyMayEnter'
    BY <1>0, <1>t, <1>k, <2>2, <2>6 DEF OpenWhileActive, CopyMayEnter
  <2> QED BY <1>k, <2>3, <2>5, <2>7, <2>8 DEF GateInv
<1>3. CASE TakeTarget(t)
  <2> USE <1>3 DEF TakeTarget, ReaderMoves
  <2>1. TypeOK'
    BY <1>0, <1>k DEF TypeOK, ReaderSteps
  <2>2. Inside' = Inside /\ t \in Inside
    BY <1>t DEF Inside
  <2>3. owner \in Captures /\ target = owner
    BY <1>0, <2>2 DEF InsideWhileOpen, TargetIsOwner
  <2>4. InsideWhileOpen'
    BY <1>0, <1>t, <1>k, <2>2, <2>3 DEF InsideWhileOpen, Inside
  <2>5. ReadersCounted' /\ OpenWhileActive' /\ CopyMayEnter'
    BY <1>0, <1>t, <1>k, <2>2 DEF ReadersCounted, OpenWhileActive, CopyMayEnter
  <2> QED BY <1>k, <2>1, <2>4, <2>5 DEF GateInv
<1>4. CASE Leave(t)
  <2> USE <1>4 DEF Leave, ReaderMoves
  <2>1. Inside' = Inside \ {t} /\ t \in Inside
    BY <1>t DEF Inside
  <2>2. Cardinality(Inside) \in Nat /\ Cardinality(Inside) # 0
    BY <2>1, InsideFinite, FS_CardinalityType, FS_EmptySet
  <2>3. /\ word' = word - 1 /\ word' \in Words /\ (Closed(word') <=> Closed(word))
        /\ ReadersIn(word') = ReadersIn(word) - 1
    BY <1>0, <1>t, <2>2, SMT DEF ReadersCounted, ReadersIn, Closed, Words, ReaderMask
  <2>4. TypeOK'
    BY <1>0, <1>k, <2>3 DEF TypeOK, ReaderSteps
  <2>5. ReadersCounted'
    BY <1>0, <2>1, <2>3, InsideFinite, FS_RemoveElement DEF ReadersCounted
  <2>6. InsideWhileOpen'
    BY <1>0, <1>t, <1>k, <2>1 DEF InsideWhileOpen
  <2>7. OpenWhileActive' /\ CopyMayEnter'
    BY <1>0, <1>t, <1>k, <2>3 DEF OpenWhileActive, CopyMayEnter
  <2> QED BY <1>k, <2>4, <2>5, <2>6, <2>7 DEF GateInv
<1> QED BY <1>1, <1>2, <1>3, <1>4 DEF CallbackNext

\* The inductive invariant holds whatever the driver's callbacks do.
THEOREM GateInvariant == Spec => []GateInv
<1>1. GateInv /\ [Next]_vars => GateInv'
  <2> SUFFICES ASSUME GateInv, [Next]_vars PROVE GateInv'
    OBVIOUS
  <2>1. CASE UNCHANGED vars
    BY <2>1 DEF vars, GateInv, TypeOK, OwnerIsBusy, TargetIsOwner, OpenWhileActive,
                InsideWhileOpen, Inside, CopyMayEnter, ReadersCounted
  <2> QED BY <2>1, CaptureStep, CallbackStep DEF Next
<1> QED BY <1>1, InitGate, PTL DEF Spec

-----------------------------------------------------------------------------
(* What follows from it. *)

\* Type correctness: the reader count never reaches into the closed bit.
THEOREM GateTypeOK == Spec => []TypeOK
<1>1. GateInv => TypeOK
  BY DEF GateInv
<1> QED BY <1>1, GateInvariant, PTL

\* A callback only ever uses the state of a capture that is still inside
\* deactivate_and_wait or has not called it.
THEOREM GateNoDanglingReader == Spec => []NoDanglingReader
<1>1. GateInv => NoDanglingReader
  BY DEF GateInv, InsideWhileOpen, Inside, NoDanglingReader
<1> QED BY <1>1, GateInvariant, PTL

\* The count in the atomic word is the number of callbacks inside.
THEOREM GateReadersCounted == Spec => []ReadersCounted
<1>1. GateInv => ReadersCounted
  BY DEF GateInv
<1> QED BY <1>1, GateInvariant, PTL

\* At most one capture holds the gate.
THEOREM GateOneCapture == Spec => []OneCapture
<1>1. GateInv => OneCapture
  BY DEF GateInv, OwnerIsBusy, OneCapture
<1> QED BY <1>1, GateInvariant, PTL

\* Nobody enters a closed gate, even when captures follow each other between
\* a callback's load of the word and its exchange.
THEOREM GateNoEntryAfterClose == Spec => NoEntryAfterClose
<1> DEFINE Entry == \A t \in Callbacks :
                       reader[t] = "loaded" /\ reader'[t] = "entered"
                       => \E c \in Captures : capture[c] = "active"
<1>1. GateInv /\ [Next]_vars => [Entry]_vars
  <2> SUFFICES ASSUME GateInv, [Next]_vars, NEW t \in Callbacks,
                      reader[t] = "loaded", reader'[t] = "entered"
               PROVE  \E c \in Captures : capture[c] = "active"
    OBVIOUS
  <2>1. Enter(t)
    <3>1. reader \in [Callbacks -> ReaderSteps]
      BY DEF GateInv, TypeOK
    <3>2. ASSUME NEW c \in Captures, CaptureNext(c) PROVE FALSE
      BY <3>2 DEF CaptureNext, Deactivation, Claim, SetTarget, Open, Close, ReadersGone,
                  ClearTarget, ReleaseOwner
    <3>3. ASSUME NEW u \in Callbacks, CallbackNext(u) PROVE u = t /\ Enter(t)
      BY <3>1, <3>3 DEF CallbackNext, Load, Enter, EnterRetry, TakeTarget, Leave, ReaderMoves
    <3>4. ~UNCHANGED vars
      BY DEF vars
    <3> QED BY <3>2, <3>3, <3>4 DEF Next
  <2>2. MayEnter(word)
    BY <2>1 DEF GateInv, CopyMayEnter, Enter
  <2> QED BY <2>2 DEF MayEnter, GateInv, OpenWhileActive
<1> QED BY <1>1, GateInvariant, PTL DEF Spec, NoEntryAfterClose
=============================================================================
