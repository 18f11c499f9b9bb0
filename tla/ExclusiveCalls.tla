--------------------------- MODULE ExclusiveCalls ---------------------------
(***************************************************************************)
(* What a user of CaptureWorkerClient is promised about its calls: they    *)
(* are carried out one at a time, each is answered once, a call that was   *)
(* cancelled is not answered with a result, and a call that waits can be   *)
(* given up without disturbing the one that is carried out.                *)
(***************************************************************************)
CONSTANTS Calls, Answers, NoCall

VARIABLES
    waiting,    \* calls that wait for their turn
    holder,     \* the call that is carried out, or NoCall
    cancelled,  \* calls whose caller has cancelled
    answer      \* what each call was answered; "none" before

vars == <<waiting, holder, cancelled, answer>>

Init ==
    /\ waiting = {} /\ holder = NoCall /\ cancelled = {}
    /\ answer = [c \in Calls |-> "none"]

Ask(c) ==
    /\ c \notin waiting /\ holder # c /\ answer[c] = "none"
    /\ waiting' = waiting \cup {c}
    /\ UNCHANGED <<holder, cancelled, answer>>

Cancel(c) ==
    /\ cancelled' = cancelled \cup {c}
    /\ UNCHANGED <<waiting, holder, answer>>

GiveUp(c) ==
    /\ c \in waiting \cap cancelled
    /\ waiting' = waiting \ {c}
    /\ answer' = [answer EXCEPT ![c] = "cancelled"]
    /\ UNCHANGED <<holder, cancelled>>

Take(c) ==
    /\ c \in waiting \ cancelled /\ holder = NoCall
    /\ waiting' = waiting \ {c} /\ holder' = c
    /\ UNCHANGED <<cancelled, answer>>

Answer(c, a) ==
    /\ holder = c /\ answer[c] = "none"
    /\ c \in cancelled => a # "result"
    /\ answer' = [answer EXCEPT ![c] = a]
    /\ UNCHANGED <<waiting, holder, cancelled>>

Leave(c) ==
    /\ holder = c /\ answer[c] # "none"
    /\ holder' = NoCall
    /\ UNCHANGED <<waiting, cancelled, answer>>

Next ==
    \E c \in Calls :
        \/ Ask(c) \/ Cancel(c) \/ GiveUp(c) \/ Take(c) \/ Leave(c)
        \/ \E a \in Answers : Answer(c, a)

Spec == Init /\ [][Next]_vars
=============================================================================
