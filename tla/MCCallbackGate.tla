--------------------------- MODULE MCCallbackGate ---------------------------
(* CallbackGate with three callback threads, two captures in turn and room *)
(* for two readers, so that the reader count saturates.                    *)
EXTENDS CallbackGate
=============================================================================
