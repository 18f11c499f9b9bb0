--------------------------- MODULE MCWorkerClient ---------------------------
(* WorkerClient with two calls, the fewest that share the gate. *)
EXTENDS WorkerClient
=============================================================================
