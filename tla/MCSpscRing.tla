----------------------------- MODULE MCSpscRing -----------------------------
(* SpscRing on a ring of three slots and a stream that wraps it twice. *)
EXTENDS SpscRing
=============================================================================
