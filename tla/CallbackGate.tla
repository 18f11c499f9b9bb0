---------------------------- MODULE CallbackGate ----------------------------
(***************************************************************************)
(* The lifetime gate between the driver's callback threads and the capture *)
(* whose state they use (asio_callback_lifetime.hpp).  ASIO callbacks have *)
(* no context pointer, so the state object is published through a global;  *)
(* one atomic word holds the closed bit and the number of readers.         *)
(*                                                                         *)
(* Every atomic operation and every access to the plain pointer target_ is *)
(* a step of its own.  The module assumes nothing of the driver: callbacks *)
(* arrive at any time, also when no capture is active.                     *)
(***************************************************************************)
EXTENDS Integers, FiniteSets

CONSTANTS
    Callbacks,   \* driver threads that call into the host
    Captures,    \* threads that run a capture; each names its CaptureState
    ClosedBit,   \* closed_bit, 2^31 in the code; reader_mask is one less
    NoTarget     \* nullptr

ASSUME ThreadsAssumption == IsFiniteSet(Callbacks) /\ NoTarget \notin Captures
ASSUME ClosedBitAssumption == ClosedBit \in Nat /\ ClosedBit > 1

VARIABLES
    word,     \* state_: the closed bit and the reader count
    owner,    \* owner_
    target,   \* target_
    capture,  \* where each capturing thread is
    reader,   \* where each callback is
    seen,     \* the callback's local copy of the word
    held      \* the target its Reader refers to

vars == <<word, owner, target, capture, reader, seen, held>>

ReaderMask == ClosedBit - 1
Words == 0 .. (ClosedBit + ReaderMask)
Closed(w) == w >= ClosedBit
ReadersIn(w) == IF Closed(w) THEN w - ClosedBit ELSE w

\* A word that lets one more reader in.
MayEnter(w) == ~Closed(w) /\ ReadersIn(w) # ReaderMask

CaptureSteps == {"idle", "claimed", "targeted", "active", "closing", "drained", "cleared"}
ReaderSteps == {"out", "loaded", "entered", "using"}

Init ==
    /\ word = ClosedBit
    /\ owner = NoTarget /\ target = NoTarget
    /\ capture = [c \in Captures |-> "idle"]
    /\ reader = [t \in Callbacks |-> "out"]
    /\ seen = [t \in Callbacks |-> ClosedBit]
    /\ held = [t \in Callbacks |-> NoTarget]

CaptureMoves(c, from, to) == capture[c] = from /\ capture' = [capture EXCEPT ![c] = to]
ReaderMoves(t, from, to) == reader[t] = from /\ reader' = [reader EXCEPT ![t] = to]

-----------------------------------------------------------------------------
(* try_activate and deactivate_and_wait, called by a capture.              *)

\* The exchange that claims the gate; another owner makes try_activate return
\* false, and the capture fails before it has anything to undo.
Claim(c) ==
    /\ owner = NoTarget
    /\ CaptureMoves(c, "idle", "claimed")
    /\ owner' = c
    /\ UNCHANGED <<word, target, reader, seen, held>>

SetTarget(c) ==
    /\ CaptureMoves(c, "claimed", "targeted")
    /\ target' = c
    /\ UNCHANGED <<word, owner, reader, seen, held>>

Open(c) ==
    /\ CaptureMoves(c, "targeted", "active")
    /\ word' = 0
    /\ UNCHANGED <<owner, target, reader, seen, held>>

\* Variant: the closed bit is not set.
CloseNothing(c) ==
    /\ CaptureMoves(c, "active", "closing")
    /\ UNCHANGED <<word, owner, target, reader, seen, held>>
\* fetch_or of the closed bit.
Close(c) ==
    /\ CaptureMoves(c, "active", "closing")
    /\ word' = IF Closed(word) THEN word ELSE word + ClosedBit
    /\ UNCHANGED <<owner, target, reader, seen, held>>

\* Variant: the readers that entered before the close are not waited for.
ReadersIgnored(c) ==
    /\ CaptureMoves(c, "closing", "drained")
    /\ UNCHANGED <<word, owner, target, reader, seen, held>>
\* The load that ends the waiting loop.
ReadersGone(c) ==
    /\ ReadersIn(word) = 0
    /\ CaptureMoves(c, "closing", "drained")
    /\ UNCHANGED <<word, owner, target, reader, seen, held>>

ClearTarget(c) ==
    /\ CaptureMoves(c, "drained", "cleared")
    /\ target' = NoTarget
    /\ UNCHANGED <<word, owner, reader, seen, held>>

\* After this store deactivate_and_wait returns and the state object may go.
ReleaseOwner(c) ==
    /\ CaptureMoves(c, "cleared", "idle")
    /\ owner' = NoTarget
    /\ UNCHANGED <<word, target, reader, seen, held>>

-----------------------------------------------------------------------------
(* try_acquire, use of the Reader and its destructor, in a callback.       *)

Load(t) ==
    /\ MayEnter(word)
    /\ ReaderMoves(t, "out", "loaded")
    /\ seen' = [seen EXCEPT ![t] = word]
    /\ UNCHANGED <<word, owner, target, capture, held>>

\* The exchange succeeds when the word is the copy again, even if a capture
\* ended and another began since the copy was made.
Enter(t) ==
    /\ word = seen[t]
    /\ ReaderMoves(t, "loaded", "entered")
    /\ word' = word + 1
    /\ UNCHANGED <<owner, target, capture, seen, held>>

\* It fails: the copy is renewed and the loop decides again.
EnterRetry(t) ==
    /\ word # seen[t]
    /\ reader[t] = "loaded"
    /\ seen' = [seen EXCEPT ![t] = word]
    /\ reader' = [reader EXCEPT ![t] = IF MayEnter(word) THEN "loaded" ELSE "out"]
    /\ UNCHANGED <<word, owner, target, capture, held>>

\* The Reader is built from the plain pointer.
TakeTarget(t) ==
    /\ ReaderMoves(t, "entered", "using")
    /\ held' = [held EXCEPT ![t] = target]
    /\ UNCHANGED <<word, owner, target, capture, seen>>

Leave(t) ==
    /\ ReaderMoves(t, "using", "out")
    /\ word' = word - 1
    /\ UNCHANGED <<owner, target, capture, seen, held>>

-----------------------------------------------------------------------------
Deactivation(c) == Close(c) \/ ReadersGone(c) \/ ClearTarget(c) \/ ReleaseOwner(c)

CaptureNext(c) == Claim(c) \/ SetTarget(c) \/ Open(c) \/ Deactivation(c)

CallbackNext(t) == Load(t) \/ Enter(t) \/ EnterRetry(t) \/ TakeTarget(t) \/ Leave(t)

Next == (\E c \in Captures : CaptureNext(c)) \/ (\E t \in Callbacks : CallbackNext(t))

Spec == Init /\ [][Next]_vars

\* A callback that was let in runs to its end, and a capture that has begun to
\* deactivate the gate keeps running; nothing makes callbacks or captures come.
Fairness ==
    /\ \A t \in Callbacks : WF_vars(TakeTarget(t) \/ Leave(t))
    /\ \A c \in Captures : WF_vars(ReadersGone(c) \/ ClearTarget(c) \/ ReleaseOwner(c))

FairSpec == Spec /\ Fairness

-----------------------------------------------------------------------------
(* Properties. *)

\* Every variable holds a value of its kind: the word is the closed bit and a
\* count that never carries into it.
TypeOK ==
    /\ word \in Words
    /\ owner \in Captures \cup {NoTarget} /\ target \in Captures \cup {NoTarget}
    /\ capture \in [Captures -> CaptureSteps]
    /\ reader \in [Callbacks -> ReaderSteps]
    /\ seen \in [Callbacks -> Words]
    /\ held \in [Callbacks -> Captures \cup {NoTarget}]

Inside == {t \in Callbacks : reader[t] \in {"entered", "using"}}

\* A callback that uses a capture's state uses the state of a capture that has
\* not returned from deactivate_and_wait: the object is alive, and it is the
\* one that was published, also when captures follow each other while a
\* callback sits between its load and its exchange.
NoDanglingReader ==
    \A t \in Callbacks :
        reader[t] = "using" => held[t] \in Captures /\ capture[held[t]] \in {"active", "closing"}

\* The count in the word is the number of callbacks inside: it never runs into
\* the closed bit, and opening the gate never forgets a reader.
ReadersCounted == ReadersIn(word) = Cardinality(Inside)

\* At most one capture is between try_activate and the end of
\* deactivate_and_wait.
OneCapture ==
    \A c, d \in Captures : capture[c] # "idle" /\ capture[d] # "idle" => c = d

\* No callback gets in once the gate is closed: whoever enters does so while
\* a capture is active.
NoEntryAfterClose ==
    [][\A t \in Callbacks :
          reader[t] = "loaded" /\ reader'[t] = "entered"
          => \E c \in Captures : capture[c] = "active"]_vars

\* deactivate_and_wait returns, however many callbacks keep arriving.
DeactivationEnds == \A c \in Captures : capture[c] = "closing" ~> capture[c] = "idle"
=============================================================================
