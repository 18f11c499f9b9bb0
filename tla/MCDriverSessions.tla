--------------------------- MODULE MCDriverSessions ---------------------------
(* The two backends of main.cpp, two drivers, and ids of both backends,    *)
(* one spelled loosely and one that no device has.                         *)
EXTENDS DriverSessions, TLC

CONSTANTS t1, t2

Id(prefix, name, form) == [prefix |-> prefix, name |-> name, form |-> form]

MCIds == {Id("asio:", 1, "loose"), Id("fake:", Loopback, "canonical"),
          Id("fake:", 1, "canonical")}

MCStartRates == {1 :> 44 @@ 2 :> 48}

Entry(clsid, form) == [clsid |-> clsid, form |-> form]

MCRegistries == {{Entry(1, "loose"), Entry(2, "canonical")},
                 {Entry(1, "malformed")}}

MCBackends == << [provider |-> "asio", prefix |-> "asio:"],
                 [provider |-> "fake", prefix |-> "fake:"] >>

\* one thread is new to COM, the other has an apartment already
MCHome == t1 :> 0 @@ t2 :> 1
=============================================================================
