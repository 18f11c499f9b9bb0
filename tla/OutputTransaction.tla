------------------------- MODULE OutputTransaction -------------------------
(***************************************************************************)
(* What a capture promises about its output file: a cancellation and the   *)
(* commit exclude each other, the file is replaced as a whole and only     *)
(* after the commit, and the answer agrees with what happened to it.  A    *)
(* process that is killed answers nothing.                                 *)
(*                                                                         *)
(* CaptureService implements this specification.                           *)
(***************************************************************************)
VARIABLES
    decision,   \* "open", "cancelled" or "committed"
    file,       \* the output: "previous" or "complete"
    answer      \* what the caller was told, "none" so far

transactionVars == <<decision, file, answer>>

Init == decision = "open" /\ file = "previous" /\ answer = "none"

Decide ==
    /\ decision = "open"
    /\ decision' \in {"cancelled", "committed"}
    /\ UNCHANGED <<file, answer>>

Replace ==
    /\ decision = "committed" /\ answer = "none"
    /\ file' = "complete"
    /\ UNCHANGED <<decision, answer>>

\* A failure may be told after the file was replaced: what is looked up and
\* reported about the new file can fail too.
Answer ==
    /\ answer = "none"
    /\ \/ answer' = "ok" /\ file = "complete"
       \/ answer' = "cancelled" /\ decision = "cancelled"
       \/ answer' = "failed"
    /\ UNCHANGED <<decision, file>>

Next == Decide \/ Replace \/ Answer

Spec == Init /\ [][Next]_transactionVars
=============================================================================
