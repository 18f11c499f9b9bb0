--------------------------- MODULE MCMainViewModel ---------------------------
(* MainViewModel with two drivers, two sources and two lookups at a time.   *)
(* The application starts for the first time, or with everything saved.     *)
EXTENDS MainViewModel

CONSTANTS d1, d2, s1, s2

MCSettings == {[device |-> None, channel |-> None, source |-> None],
               [device |-> d1, channel |-> 2, source |-> s1]}
=============================================================================
