-------------------------- MODULE CaptureLifecycle --------------------------
(***************************************************************************)
(* What one ASIO capture promises about the things it holds, without       *)
(* saying how: nothing is given back while something that uses it is still *)
(* held, the first stream failure is the one that counts, and the caller   *)
(* gets a verdict only after everything was given back.                    *)
(*                                                                         *)
(* AsioCapture implements this specification.                              *)
(***************************************************************************)
EXTENDS FiniteSets

VARIABLES
    held,     \* the resources the capture holds
    cause,    \* the first stream failure, "none" so far
    verdict   \* what the caller was told, "none" so far

lifecycleVars == <<held, cause, verdict>>

\* Who uses a resource: it may be given back only after all of these.
UsersOf ==
    [ stream    |-> {},
      gate      |-> {"stream"},
      callbacks |-> {},
      workers   |-> {"stream", "gate", "callbacks"},
      buffers   |-> {"stream", "gate", "callbacks", "workers"},
      scratch   |-> {"workers"} ]

Resources == DOMAIN UsersOf

Init == held = {} /\ cause = "none" /\ verdict = "none"

\* Callbacks get in through the gate only.
Acquire(S) ==
    /\ verdict = "none" /\ S # {}
    /\ "callbacks" \in S => "gate" \in held
    /\ held' = held \cup S
    /\ UNCHANGED <<cause, verdict>>

Release(r) ==
    /\ r \in held /\ UsersOf[r] \cap held = {}
    /\ held' = held \ {r}
    /\ UNCHANGED <<cause, verdict>>

Fail(f) ==
    /\ cause = "none" /\ f # "none"
    /\ cause' = f
    /\ UNCHANGED <<held, verdict>>

\* The recording leaves with a success and is deleted otherwise.
End(v) ==
    /\ verdict = "none" /\ v # "none"
    /\ held \subseteq {"scratch"} /\ held' = {}
    /\ v = "ok" => cause = "none"
    /\ verdict' = v
    /\ UNCHANGED cause

Next ==
    \/ \E S \in SUBSET Resources : Acquire(S)
    \/ \E r \in Resources : Release(r)
    \/ Fail(cause')
    \/ End(verdict')

Spec == Init /\ [][Next]_lifecycleVars
=============================================================================
