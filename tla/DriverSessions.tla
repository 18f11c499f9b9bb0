---------------------------- MODULE DriverSessions ----------------------------
(***************************************************************************)
(* Calls on the device layer: backends/router/src/backend_router.cpp over  *)
(* the ASIO backend (asio_backend.cpp, asio_session_gate.hpp,              *)
(* asio_driver_session.cpp, asio_driver_registry.cpp) and the fake one     *)
(* (fake_backend.cpp), as cli/main.cpp puts them together.                 *)
(*                                                                         *)
(* Several threads make calls.  A call takes the lease of the process,     *)
(* finds its driver in the registry, opens a session (COM, a host window,  *)
(* the driver), uses it and takes it all down again, whatever failed on    *)
(* the way.  What a capture does with an opened driver is AsioCapture; it  *)
(* is one step here, in which a callback may call the device layer again.  *)
(* The fake backend takes no lease and each of its calls is one step.      *)
(*                                                                         *)
(* A driver is the number that orders its id.  An id is                    *)
(* [prefix, name, form]: the form of a CLSID is canonical, loose (other    *)
(* letters, no braces) or malformed.  Errors other than device_not_found   *)
(* are "failed".                                                           *)
(***************************************************************************)
EXTENDS Integers, Sequences, FiniteSets

CONSTANTS
  Threads,
  Clsids,       \* drivers that may be registered
  Ids,          \* ids the callers use
  Rates,        \* sample rates, 0 stands for one that is not positive
  Registries,   \* sets of entries [clsid, form] of the registry
  Backends,     \* the router's registrations [provider, prefix], in order
  StartRates,   \* what the drivers are set to when the process starts
  FakeStartRate,
  Multithreaded, \* threads whose COM apartment is the multithreaded one
  Home,         \* how often each thread had entered its apartment before
  MaxCalls,     \* calls of each thread
  NoDriver, Nobody

Loopback == 0   \* the name in "fake:loopback"

ASSUME SessionAssumption ==
  /\ Clsids \subseteq Nat /\ NoDriver \notin Clsids
  /\ Nobody \notin Threads
  /\ Home \in [Threads -> Nat]
  /\ StartRates \subseteq [Clsids -> Rates]
  /\ \A entries \in Registries : \A e \in entries : e.clsid \in Clsids
  /\ MaxCalls \in Nat

\* as main.cpp adds them: every backend has its own prefix
ASSUME BackendsAssumption ==
  Backends \in Seq({[provider |-> "asio", prefix |-> "asio:"],
                   [provider |-> "fake", prefix |-> "fake:"]})

VARIABLES
  registry,    \* HKLM\SOFTWARE\ASIO
  rate,        \* the sample rate of each driver
  fakeRate,    \* FakeAudioBackend::options_.sample_rate
  mutex,       \* process_asio_session_mutex: who holds it
  owns,        \* current_thread_owns_asio_session, a thread_local
  apartment,   \* how often each thread has entered its COM apartment
  calls,       \* calls a thread has begun
  call,        \* its call [op, id, rate]
  step,        \* where it stands in it
  at,          \* the registration of the router it is at
  left,        \* drivers it still has to open
  com, window, driver,   \* AsioDriverSession::Impl
  nested,      \* whether a callback made a call from within: no, inside, done
  answer       \* what the call returned

device == <<rate, fakeRate>>
lease == <<mutex, owns>>
caller == <<calls, call>>
session == <<com, window, driver>>
vars == <<registry, device, lease, apartment, caller, step, at, left, session,
          nested, answer>>

NoId == [prefix |-> "", name |-> 0, form |-> "malformed"]

Calls ==
  [op : {"devices"}, id : {NoId}, rate : {0}]
    \cup [op : {"device", "channels"}, id : Ids, rate : {0}]
    \cup [op : {"set_sample_rate", "capture"}, id : Ids, rate : Rates]

Init ==
  /\ registry \in Registries
  /\ rate \in StartRates
  /\ fakeRate = FakeStartRate
  /\ mutex = Nobody
  /\ owns = [t \in Threads |-> FALSE]
  /\ apartment = Home
  /\ calls = [t \in Threads |-> 0]
  /\ call = [t \in Threads |-> [op |-> "devices", id |-> NoId, rate |-> 0]]
  /\ step = [t \in Threads |-> "idle"]
  /\ at = [t \in Threads |-> 0]
  /\ left = [t \in Threads |-> {}]
  /\ com = [t \in Threads |-> FALSE]
  /\ window = [t \in Threads |-> FALSE]
  /\ driver = [t \in Threads |-> NoDriver]
  /\ nested = [t \in Threads |-> "no"]
  /\ answer = [t \in Threads |-> "none"]

----------------------------------------------------------------------------
(* The router.  Lookups ask one registration after another until one does  *)
(* not answer device_not_found, a capture goes to the first whose prefix   *)
(* the id has.                                                             *)

Begin(t) ==
  /\ step[t] = "idle" /\ calls[t] < MaxCalls
  /\ \E c \in Calls : call' = [call EXCEPT ![t] = c]
  /\ calls' = [calls EXCEPT ![t] = @ + 1]
  /\ step' = [step EXCEPT ![t] = "route"]
  /\ at' = [at EXCEPT ![t] = 1]
  /\ nested' = [nested EXCEPT ![t] = "no"]
  /\ answer' = [answer EXCEPT ![t] = "none"]
  /\ UNCHANGED <<registry, device, lease, apartment, left, session>>

\* Mutant: a capture starts with the first registration, as the lookups do.
IsFirstRegistration(i, id) == i = 1

IsRegistrationFor(i, id) ==
  /\ Backends[i].prefix = id.prefix
  /\ \A j \in 1..(i - 1) : Backends[j].prefix # id.prefix

IsNext(i, t) == IF call[t].op = "capture" THEN IsRegistrationFor(i, call[t].id)
                ELSE i = at[t]

Return(t, outcome) ==
  /\ answer' = [answer EXCEPT ![t] = outcome]
  /\ step' = [step EXCEPT ![t] = "idle"]
  /\ UNCHANGED at

Route(t) ==
  /\ step[t] = "route"
  /\ \/ \E i \in DOMAIN Backends :
          /\ IsNext(i, t)
          /\ at' = [at EXCEPT ![t] = i]
          /\ step' = [step EXCEPT ![t] = IF Backends[i].provider = "asio"
                                           THEN "lease" ELSE "fake"]
          /\ UNCHANGED answer
     \/ /\ \A i \in DOMAIN Backends : ~IsNext(i, t)
        /\ at' = [at EXCEPT ![t] = 0]
        /\ answer' = [answer EXCEPT ![t] =
             IF call[t].op = "devices" THEN "ok" ELSE "device_not_found"]
        /\ step' = [step EXCEPT ![t] = "idle"]
  /\ UNCHANGED <<registry, device, lease, apartment, caller, left, session, nested>>

\* A provider has answered: the router goes on, or the call returns.
Provided(t, outcome) ==
  IF \/ call[t].op = "devices" /\ outcome = "ok"
     \/ call[t].op \notin {"devices", "capture"} /\ outcome = "device_not_found"
    THEN /\ at' = [at EXCEPT ![t] = @ + 1]
         /\ step' = [step EXCEPT ![t] = "route"]
         /\ answer' = [answer EXCEPT ![t] = "none"]
    ELSE Return(t, outcome)

IsLoopback(id) == id.prefix = "fake:" /\ id.name = Loopback

FakeCall(t) ==
  /\ step[t] = "fake"
  /\ LET c == call[t]
         known == c.op = "devices" \/ IsLoopback(c.id)
     IN \/ ~known /\ Provided(t, "device_not_found") /\ UNCHANGED fakeRate
        \/ /\ known /\ c.op \in {"devices", "device", "channels"}
           /\ Provided(t, "ok") /\ UNCHANGED fakeRate
        \/ /\ known /\ c.op = "set_sample_rate"
           /\ Provided(t, IF c.rate = 0 THEN "failed" ELSE "ok")
           /\ fakeRate' = IF c.rate = 0 THEN fakeRate ELSE c.rate
        \/ /\ known /\ c.op = "capture"
           /\ \E outcome \in {"ok", "failed"} :
                /\ c.rate # fakeRate => outcome = "failed"
                /\ Provided(t, outcome)
           /\ UNCHANGED fakeRate
  /\ UNCHANGED <<registry, rate, lease, apartment, caller, left, session, nested>>

----------------------------------------------------------------------------
(* The lease.                                                              *)

\* Mutant: the lookups of one device go ahead without the mutex.
AcquireUnlessLookup(t) ==
  /\ step[t] = "lease"
  /\ call[t].op # "device" => mutex = Nobody
  /\ mutex' = t
  /\ owns' = [owns EXCEPT ![t] = TRUE]
  /\ step' = [step EXCEPT ![t] = "find"]
  /\ UNCHANGED <<registry, device, apartment, caller, at, left, session, nested,
                 answer>>

Acquire(t) ==
  /\ step[t] = "lease"
  /\ mutex = Nobody
  /\ mutex' = t
  /\ owns' = [owns EXCEPT ![t] = TRUE]
  /\ step' = [step EXCEPT ![t] = "find"]
  /\ UNCHANGED <<registry, device, apartment, caller, at, left, session, nested,
                 answer>>

Unlock(t) ==
  /\ step[t] = "unlock"
  /\ mutex' = Nobody
  /\ owns' = [owns EXCEPT ![t] = FALSE]
  /\ Provided(t, answer[t])
  /\ UNCHANGED <<registry, device, apartment, caller, left, session, nested>>

\* While a driver runs, it or the progress handler may call the device layer
\* on the same thread.
Reenter(t) ==
  /\ step[t] \in {"init", "capturing"} /\ nested[t] = "no"
  /\ nested' = [nested EXCEPT ![t] = "inside"]
  /\ UNCHANGED <<registry, device, lease, apartment, caller, step, at, left,
                 session, answer>>

\* Mutant: the lease is taken without a look at the thread's own flag.
NeverRefused(t) == FALSE

IsRefused(t) == owns[t]

\* The inner call throws, its caller goes on.  What a progress handler throws
\* further ends the capture, which is one of its outcomes.
NestedCall(t) ==
  /\ nested[t] = "inside"
  /\ IsRefused(t) \/ mutex = Nobody
  /\ nested' = [nested EXCEPT ![t] = "done"]
  /\ UNCHANGED <<registry, device, lease, apartment, caller, step, at, left,
                 session, answer>>

----------------------------------------------------------------------------
(* The driver of the call.                                                 *)

\* enumerate_asio_drivers; a driver that is registered twice counts once.
EnumerateDrivers == {e.clsid : e \in {x \in registry : x.form # "malformed"}}

\* parse_asio_device_id and the search of find_asio_driver
FindDriver(id) ==
  {d \in EnumerateDrivers : /\ id.prefix = "asio:" /\ id.form # "malformed"
                            /\ id.name = d}

Probing(t) == call[t].op \in {"devices", "device"}

Find(t) ==
  /\ step[t] = "find"
  /\ LET c == call[t]
         found == IF c.op = "devices" THEN EnumerateDrivers ELSE FindDriver(c.id)
         End(outcome) == /\ step' = [step EXCEPT ![t] = "unlock"]
                         /\ answer' = [answer EXCEPT ![t] = outcome]
                         /\ UNCHANGED left
         refused == c.op = "set_sample_rate" /\ c.rate = 0
         mayStop == refused \/ c.op = "capture"   \* plan invalid, or cancelled
     IN \/ mayStop /\ End("failed")
        \/ /\ ~refused /\ found = {}
           /\ End(IF c.op = "devices" THEN "ok" ELSE "device_not_found")
        \/ /\ ~refused /\ found # {}
           /\ left' = [left EXCEPT ![t] = found]
           /\ step' = [step EXCEPT ![t] = "com"]
           /\ UNCHANGED answer
  /\ UNCHANGED <<registry, device, lease, apartment, caller, at, session, nested>>

IsFirst(d, drivers) == \A e \in drivers : d <= e

----------------------------------------------------------------------------
(* The session.  Each step of the constructor may fail; what was done is   *)
(* undone by ~Impl, then the exception goes on (to a probe's handler).     *)

Move(t, next) ==
  /\ step' = [step EXCEPT ![t] = next]
  /\ UNCHANGED <<registry, lease, caller, at, left, nested>>

Close(t, outcome) ==
  /\ Move(t, "release")
  /\ answer' = [answer EXCEPT ![t] = outcome]

\* A probe reports a driver it could not open or query as unavailable.
Fail(t) == Close(t, IF Probing(t) THEN "ok" ELSE "failed")

InitializeCom(t) ==
  /\ step[t] = "com"
  /\ \/ Fail(t) /\ UNCHANGED <<apartment, com>>
     \/ /\ t \notin Multithreaded   \* else RPC_E_CHANGED_MODE
        /\ apartment' = [apartment EXCEPT ![t] = @ + 1]
        /\ com' = [com EXCEPT ![t] = TRUE]
        /\ Move(t, "window") /\ UNCHANGED answer
  /\ UNCHANGED <<device, window, driver>>

CreateHostWindow(t) ==
  /\ step[t] = "window"
  /\ \/ Fail(t) /\ UNCHANGED window
     \/ /\ window' = [window EXCEPT ![t] = TRUE]
        /\ Move(t, "load") /\ UNCHANGED answer
  /\ UNCHANGED <<device, apartment, com, driver>>

LoadDriver(t) ==
  /\ step[t] = "load"
  /\ \/ Fail(t) /\ UNCHANGED driver
     \/ /\ \E d \in left[t] : /\ IsFirst(d, left[t])
                              /\ driver' = [driver EXCEPT ![t] = d]
        /\ Move(t, "init") /\ UNCHANGED answer
  /\ UNCHANGED <<device, apartment, com, window>>

\* A driver that pumps messages may be re-entered while it initializes.
InitDriver(t) ==
  /\ step[t] = "init" /\ nested[t] # "inside"
  /\ \/ Fail(t)
     \/ /\ Move(t, IF call[t].op \in {"set_sample_rate", "capture"} THEN "rate"
                   ELSE "query")
        /\ UNCHANGED answer
  /\ UNCHANGED <<device, apartment, session>>

ReleaseDriver(t) ==
  /\ step[t] = "release"
  /\ driver' = [driver EXCEPT ![t] = NoDriver]
  /\ Move(t, "destroy")
  /\ UNCHANGED <<device, apartment, com, window, answer>>

DestroyHostWindow(t) ==
  /\ step[t] = "destroy"
  /\ window' = [window EXCEPT ![t] = FALSE]
  /\ Move(t, "uninitialize")
  /\ UNCHANGED <<device, apartment, com, driver, answer>>

UninitializeCom(t) ==
  /\ step[t] = "uninitialize"
  /\ apartment' = IF com[t] THEN [apartment EXCEPT ![t] = @ - 1] ELSE apartment
  /\ com' = [com EXCEPT ![t] = FALSE]
  /\ \E d \in left[t] : /\ IsFirst(d, left[t])
                        /\ left' = [left EXCEPT ![t] = @ \ {d}]
  /\ step' = [step EXCEPT ![t] = IF left'[t] = {} THEN "unlock" ELSE "com"]
  /\ UNCHANGED <<registry, device, lease, caller, at, window, driver, nested, answer>>

----------------------------------------------------------------------------
(* What the calls do with the driver.                                      *)

\* query_capabilities, and the channels one by one
Query(t) ==
  /\ step[t] = "query"
  /\ Fail(t) \/ Close(t, "ok")
  /\ UNCHANGED <<device, apartment, session>>

HasRate(t) == rate[driver[t]] = call[t].rate

\* set_sample_rate, and configure_sample_rate of a capture
RateIsSet(t) ==
  IF call[t].op = "capture" THEN Move(t, "capturing") /\ UNCHANGED answer
  ELSE Close(t, "ok")

AskRate(t) ==
  /\ step[t] = "rate"
  /\ \/ HasRate(t) /\ RateIsSet(t)
     \/ Fail(t)                                \* canSampleRate
     \/ Move(t, "set") /\ UNCHANGED answer     \* it has another, or did not say
  /\ UNCHANGED <<device, apartment, session>>

\* The driver may refuse after it changed the rate, or agree and not do it.
SetRate(t) ==
  /\ step[t] = "set"
  /\ \E applied \in {call[t].rate, rate[driver[t]]} :
       rate' = [rate EXCEPT ![driver[t]] = applied]
  /\ Fail(t) \/ (Move(t, "verify") /\ UNCHANGED answer)
  /\ UNCHANGED <<fakeRate, apartment, session>>

VerifyRate(t) ==
  /\ step[t] = "verify"
  /\ \/ HasRate(t) /\ RateIsSet(t)
     \/ Fail(t)
  /\ UNCHANGED <<device, apartment, session>>

\* The rest of AsioAudioBackend::capture.
EndCapture(t) ==
  /\ step[t] = "capturing" /\ nested[t] # "inside"
  /\ Fail(t) \/ Close(t, "ok")
  /\ UNCHANGED <<device, apartment, session>>

----------------------------------------------------------------------------
Step(t) ==
  \/ Route(t) \/ FakeCall(t)
  \/ Acquire(t) \/ Find(t) \/ Unlock(t) \/ NestedCall(t)
  \/ InitializeCom(t) \/ CreateHostWindow(t) \/ LoadDriver(t) \/ InitDriver(t)
  \/ Query(t) \/ AskRate(t) \/ SetRate(t) \/ VerifyRate(t) \/ EndCapture(t)
  \/ ReleaseDriver(t) \/ DestroyHostWindow(t) \/ UninitializeCom(t)

Finished ==
  /\ \A t \in Threads : step[t] = "idle" /\ calls[t] = MaxCalls
  /\ UNCHANGED vars

Next == (\E t \in Threads : Begin(t) \/ Reenter(t) \/ Step(t)) \/ Finished

Spec == Init /\ [][Next]_vars

\* A thread that can go on goes on, and a driver returns from its methods.
FairSpec == Spec /\ \A t \in Threads : WF_vars(Step(t))

----------------------------------------------------------------------------
(* Properties.                                                             *)

Opened == {"init", "query", "rate", "set", "verify", "capturing"}

\* from the first step of the session to the last of its destructor
InSession == {"com", "window", "load", "release", "destroy", "uninitialize"} \cup Opened

Within == InSession \cup {"find", "unlock"}

IsOpen(t) == com[t] \/ window[t] \/ driver[t] # NoDriver

\* "Serialize every driver-touching public operation" (asio_session_gate.hpp:
\* 11): whatever fails on the way, COM, the window and the driver are only
\* there while their thread holds the lease, so at most one driver is loaded;
\* "a probe or sample-rate change cannot race a running capture": the device
\* keeps the rate of its capture; and a call that has returned has left its
\* thread, lease and COM apartment, as it found it.
OneDriver ==
  /\ \A t \in Threads : IsOpen(t) => mutex = t /\ step[t] \in Within
  /\ \A t, u \in Threads :
       driver[t] # NoDriver /\ driver[u] # NoDriver => t = u
  /\ \A t \in Threads : step[t] = "capturing" => HasRate(t)
  /\ \A t \in Threads : step[t] = "idle" =>
       ~IsOpen(t) /\ ~owns[t] /\ mutex # t /\ apartment[t] = Home[t]

\* The backend that has answered a call about an id, or has the capture.
Reached(t) ==
  IF call[t].op = "devices" \/ at[t] \notin DOMAIN Backends THEN {}
  ELSE IF \/ call[t].op = "capture" /\ step[t] # "route"
          \/ step[t] = "idle" /\ answer[t] = "ok"
    THEN {Backends[at[t]].provider}
  ELSE {}

\* Lookups search the backends, a capture goes by the prefix of the id: a
\* device whose channels and rate were answered by one backend is never
\* recorded by another, however its id is spelled.
SameBackend ==
  \A t, u \in Threads :
    call[t].id = call[u].id =>
      \A p \in Reached(t), q \in Reached(u) : p = q

\* Every call returns, one that waits for the lease or that a callback makes
\* within another included.
CallsReturn == \A t \in Threads : step[t] # "idle" ~> step[t] = "idle"
=============================================================================
