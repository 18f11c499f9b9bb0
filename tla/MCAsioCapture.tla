--------------------------- MODULE MCAsioCapture ---------------------------
(* AsioCapture with a playback that does not fit the ring and a last block *)
(* that is not whole.                                                      *)
EXTENDS AsioCapture
=============================================================================
