------------------------- MODULE DriverSessionsProofs -------------------------
(***************************************************************************)
(* Proofs about DriverSessions, for any number of threads, drivers, ids    *)
(* and calls, any registry and any COM apartments to begin with.           *)
(***************************************************************************)
EXTENDS DriverSessions, TLAPS

Steps == {"idle", "route", "fake", "lease"} \cup Within

Answers == {"none", "ok", "failed", "device_not_found"}

Types ==
  /\ registry \in Registries
  /\ rate \in [Clsids -> Rates \cup {0}]
  /\ mutex \in Threads \cup {Nobody}
  /\ owns \in [Threads -> BOOLEAN]
  /\ apartment \in [Threads -> Nat]
  /\ call \in [Threads -> Calls]
  /\ step \in [Threads -> Steps]
  /\ at \in [Threads -> Nat]
  /\ left \in [Threads -> SUBSET Clsids]
  /\ com \in [Threads -> BOOLEAN]
  /\ window \in [Threads -> BOOLEAN]
  /\ driver \in [Threads -> Clsids \cup {NoDriver}]
  /\ answer \in [Threads -> Answers]

\* The mutex, the thread's own flag and its step say the same.
LeaseIsHeld ==
  \A t \in Threads : /\ step[t] \in Within <=> owns[t]
                     /\ owns[t] <=> mutex = t

\* What is there of a session at each step.
SessionByStep ==
  \A t \in Threads :
    /\ com[t] => step[t] \in InSession \ {"com"}
    /\ window[t] => step[t] \in Opened \cup {"load", "release", "destroy"}
    /\ driver[t] # NoDriver => step[t] \in Opened \cup {"release"}
    /\ step[t] \in Opened => driver[t] # NoDriver

\* A thread has entered its apartment as often as before, and once more for
\* its session.
ApartmentBySession ==
  \A t \in Threads : apartment[t] = IF com[t] THEN Home[t] + 1 ELSE Home[t]

RateIsKept == \A t \in Threads : step[t] = "capturing" => HasRate(t)

SessionInv ==
  /\ Types
  /\ LeaseIsHeld
  /\ SessionByStep
  /\ ApartmentBySession
  /\ RateIsKept

\* A process starts without sessions.
LEMMA InitSession == Init => SessionInv
<1> SUFFICES ASSUME Init PROVE SessionInv
  OBVIOUS
<1> USE SessionAssumption DEF Init
<1>1. Types
  BY DEF Types, Steps, Answers, Calls
<1>2. LeaseIsHeld
  BY DEF LeaseIsHeld, Within, InSession, Opened
<1>3. SessionByStep /\ ApartmentBySession /\ RateIsKept
  BY DEF SessionByStep, ApartmentBySession, RateIsKept, InSession, Opened
<1> QED BY <1>1, <1>2, <1>3 DEF SessionInv

\* The registry names drivers, and so does a search in it.
LEMMA DriversFound ==
  Types => EnumerateDrivers \subseteq Clsids
              /\ \A id : FindDriver(id) \subseteq Clsids
BY SessionAssumption DEF Types, EnumerateDrivers, FindDriver

\* Every step of every thread preserves it.
LEMMA NextSession == SessionInv /\ [Next]_vars => SessionInv'
<1> SUFFICES ASSUME SessionInv, [Next]_vars PROVE SessionInv'
  OBVIOUS
<1> USE SessionAssumption DEF SessionInv, Steps, Within, InSession, Opened,
        device, lease, caller, session
<1>1. ASSUME NEW t \in Threads, Begin(t) PROVE SessionInv'
  <2>1. Types'
    BY <1>1 DEF Begin, Types, Answers, Calls
  <2>2. LeaseIsHeld'
    BY <1>1 DEF Begin, Types, LeaseIsHeld
  <2>3. SessionByStep'
    BY <1>1 DEF Begin, Types, LeaseIsHeld, SessionByStep
  <2>4. ApartmentBySession'
    BY <1>1 DEF Begin, Types, SessionByStep, ApartmentBySession
  <2>5. RateIsKept'
    BY <1>1 DEF Begin, Types, LeaseIsHeld, SessionByStep, RateIsKept, HasRate
  <2> QED BY <2>1, <2>2, <2>3, <2>4, <2>5
<1>2. ASSUME NEW t \in Threads, Reenter(t) PROVE SessionInv'
  <2>1. Types'
    BY <1>2 DEF Reenter, Types, Answers, Calls
  <2>2. LeaseIsHeld'
    BY <1>2 DEF Reenter, Types, LeaseIsHeld
  <2>3. SessionByStep'
    BY <1>2 DEF Reenter, Types, LeaseIsHeld, SessionByStep
  <2>4. ApartmentBySession'
    BY <1>2 DEF Reenter, Types, SessionByStep, ApartmentBySession
  <2>5. RateIsKept'
    BY <1>2 DEF Reenter, Types, LeaseIsHeld, SessionByStep, RateIsKept,
       HasRate
  <2> QED BY <2>1, <2>2, <2>3, <2>4, <2>5
<1>3. ASSUME NEW t \in Threads, Route(t) PROVE SessionInv'
  <2>1. /\ step[t] = "route"
        /\ \E next \in {"idle", "lease", "fake"} : step' = [step EXCEPT ![t] = next]
        /\ \E i \in Nat : at' = [at EXCEPT ![t] = i]
        /\ \E o \in Answers : answer' \in {answer, [answer EXCEPT ![t] = o]}
        /\ UNCHANGED <<registry, rate, mutex, owns, apartment, call, left, com, window,
                       driver>>
    BY <1>3, BackendsAssumption DEF Route, Return, Types, Answers
  <2>2. Types'
    <3>1. step' \in [Threads -> Steps]
      BY <2>1 DEF Types
    <3>2. answer' \in [Threads -> Answers]
      BY <2>1 DEF Types, Answers
    <3>3. at' \in [Threads -> Nat]
      BY <2>1 DEF Types
    <3>4. left' \in [Threads -> SUBSET Clsids]
      BY <2>1 DEF Types
    <3>5. registry' = registry /\ call' = call
      BY <2>1 DEF Types
    <3>6. mutex' \in Threads \cup {Nobody} /\ owns' \in [Threads -> BOOLEAN]
      BY <2>1 DEF Types
    <3>7. rate' \in [Clsids -> Rates \cup {0}]
      BY <2>1 DEF Types
    <3>8. apartment' \in [Threads -> Nat]
      BY <2>1 DEF Types
    <3>9. com' \in [Threads -> BOOLEAN] /\ window' \in [Threads -> BOOLEAN]
      BY <2>1 DEF Types
    <3>10. driver' \in [Threads -> Clsids \cup {NoDriver}]
      BY <2>1 DEF Types
    <3> QED
      BY <3>1, <3>2, <3>3, <3>4, <3>5, <3>6, <3>7, <3>8, <3>9, <3>10 DEF Types
  <2>3. LeaseIsHeld'
    BY <2>1 DEF Types, LeaseIsHeld
  <2>4. SessionByStep'
    BY <2>1 DEF Types, LeaseIsHeld, SessionByStep
  <2>5. ApartmentBySession'
    BY <2>1 DEF Types, SessionByStep, ApartmentBySession
  <2>6. RateIsKept'
    BY <2>1 DEF Types, LeaseIsHeld, SessionByStep, RateIsKept, HasRate
  <2> QED BY <2>2, <2>3, <2>4, <2>5, <2>6
<1>4. ASSUME NEW t \in Threads, FakeCall(t) PROVE SessionInv'
  <2>1. /\ step[t] = "fake"
        /\ \E next \in {"idle", "route"} : step' = [step EXCEPT ![t] = next]
        /\ at' \in {at, [at EXCEPT ![t] = @ + 1]}
        /\ \E o \in Answers : answer' \in {answer, [answer EXCEPT ![t] = o]}
        /\ UNCHANGED <<registry, rate, mutex, owns, apartment, call, left, com, window,
                       driver>>
    BY <1>4 DEF FakeCall, Provided, Return, Answers
  <2>2. Types'
    <3>1. step' \in [Threads -> Steps]
      BY <2>1 DEF Types
    <3>2. answer' \in [Threads -> Answers]
      BY <2>1 DEF Types, Answers
    <3>3. at' \in [Threads -> Nat]
      BY <2>1 DEF Types
    <3>4. left' \in [Threads -> SUBSET Clsids]
      BY <2>1 DEF Types
    <3>5. registry' = registry /\ call' = call
      BY <2>1 DEF Types
    <3>6. mutex' \in Threads \cup {Nobody} /\ owns' \in [Threads -> BOOLEAN]
      BY <2>1 DEF Types
    <3>7. rate' \in [Clsids -> Rates \cup {0}]
      BY <2>1 DEF Types
    <3>8. apartment' \in [Threads -> Nat]
      BY <2>1 DEF Types
    <3>9. com' \in [Threads -> BOOLEAN] /\ window' \in [Threads -> BOOLEAN]
      BY <2>1 DEF Types
    <3>10. driver' \in [Threads -> Clsids \cup {NoDriver}]
      BY <2>1 DEF Types
    <3> QED
      BY <3>1, <3>2, <3>3, <3>4, <3>5, <3>6, <3>7, <3>8, <3>9, <3>10 DEF Types
  <2>3. LeaseIsHeld'
    BY <2>1 DEF Types, LeaseIsHeld
  <2>4. SessionByStep'
    BY <2>1 DEF Types, LeaseIsHeld, SessionByStep
  <2>5. ApartmentBySession'
    BY <2>1 DEF Types, SessionByStep, ApartmentBySession
  <2>6. RateIsKept'
    BY <2>1 DEF Types, LeaseIsHeld, SessionByStep, RateIsKept, HasRate
  <2> QED BY <2>2, <2>3, <2>4, <2>5, <2>6
<1>5. ASSUME NEW t \in Threads, Acquire(t) PROVE SessionInv'
  <2>1. Types'
    BY <1>5 DEF Acquire, Types, Answers, Calls
  <2>2. LeaseIsHeld'
    BY <1>5 DEF Acquire, Types, LeaseIsHeld
  <2>3. SessionByStep'
    BY <1>5 DEF Acquire, Types, LeaseIsHeld, SessionByStep
  <2>4. ApartmentBySession'
    BY <1>5 DEF Acquire, Types, SessionByStep, ApartmentBySession
  <2>5. RateIsKept'
    BY <1>5 DEF Acquire, Types, LeaseIsHeld, SessionByStep, RateIsKept,
       HasRate
  <2> QED BY <2>1, <2>2, <2>3, <2>4, <2>5
<1>6. ASSUME NEW t \in Threads, Find(t) PROVE SessionInv'
  <2>1. /\ step[t] = "find"
        /\ \E next \in {"unlock", "com"} : step' = [step EXCEPT ![t] = next]
        /\ \E o \in Answers : answer' \in {answer, [answer EXCEPT ![t] = o]}
        /\ \E S \in SUBSET Clsids : left' \in {left, [left EXCEPT ![t] = S]}
        /\ UNCHANGED <<registry, rate, mutex, owns, apartment, call, at, com, window,
                       driver>>
    BY <1>6, DriversFound DEF Find, Answers
  <2>2. Types'
    <3>1. step' \in [Threads -> Steps]
      BY <2>1 DEF Types
    <3>2. answer' \in [Threads -> Answers]
      BY <2>1 DEF Types, Answers
    <3>3. at' \in [Threads -> Nat]
      BY <2>1 DEF Types
    <3>4. left' \in [Threads -> SUBSET Clsids]
      BY <2>1 DEF Types
    <3>5. registry' = registry /\ call' = call
      BY <2>1 DEF Types
    <3>6. mutex' \in Threads \cup {Nobody} /\ owns' \in [Threads -> BOOLEAN]
      BY <2>1 DEF Types
    <3>7. rate' \in [Clsids -> Rates \cup {0}]
      BY <2>1 DEF Types
    <3>8. apartment' \in [Threads -> Nat]
      BY <2>1 DEF Types
    <3>9. com' \in [Threads -> BOOLEAN] /\ window' \in [Threads -> BOOLEAN]
      BY <2>1 DEF Types
    <3>10. driver' \in [Threads -> Clsids \cup {NoDriver}]
      BY <2>1 DEF Types
    <3> QED
      BY <3>1, <3>2, <3>3, <3>4, <3>5, <3>6, <3>7, <3>8, <3>9, <3>10 DEF Types
  <2>3. LeaseIsHeld'
    BY <2>1 DEF Types, LeaseIsHeld
  <2>4. SessionByStep'
    BY <2>1 DEF Types, LeaseIsHeld, SessionByStep
  <2>5. ApartmentBySession'
    BY <2>1 DEF Types, SessionByStep, ApartmentBySession
  <2>6. RateIsKept'
    BY <2>1 DEF Types, LeaseIsHeld, SessionByStep, RateIsKept, HasRate
  <2> QED BY <2>2, <2>3, <2>4, <2>5, <2>6
<1>7. ASSUME NEW t \in Threads, Unlock(t) PROVE SessionInv'
  <2>1. /\ step[t] = "unlock"
        /\ mutex' = Nobody /\ owns' = [owns EXCEPT ![t] = FALSE]
        /\ \E next \in {"idle", "route"} : step' = [step EXCEPT ![t] = next]
        /\ at' \in {at, [at EXCEPT ![t] = @ + 1]}
        /\ \E o \in Answers : answer' \in {answer, [answer EXCEPT ![t] = o]}
        /\ UNCHANGED <<registry, rate, apartment, call, left, com, window, driver>>
    BY <1>7 DEF Unlock, Provided, Return, Types, Answers
  <2>2. Types'
    <3>1. step' \in [Threads -> Steps]
      BY <2>1 DEF Types
    <3>2. answer' \in [Threads -> Answers]
      BY <2>1 DEF Types, Answers
    <3>3. at' \in [Threads -> Nat]
      BY <2>1 DEF Types
    <3>4. left' \in [Threads -> SUBSET Clsids]
      BY <2>1 DEF Types
    <3>5. registry' = registry /\ call' = call
      BY <2>1 DEF Types
    <3>6. mutex' \in Threads \cup {Nobody} /\ owns' \in [Threads -> BOOLEAN]
      BY <2>1 DEF Types
    <3>7. rate' \in [Clsids -> Rates \cup {0}]
      BY <2>1 DEF Types
    <3>8. apartment' \in [Threads -> Nat]
      BY <2>1 DEF Types
    <3>9. com' \in [Threads -> BOOLEAN] /\ window' \in [Threads -> BOOLEAN]
      BY <2>1 DEF Types
    <3>10. driver' \in [Threads -> Clsids \cup {NoDriver}]
      BY <2>1 DEF Types
    <3> QED
      BY <3>1, <3>2, <3>3, <3>4, <3>5, <3>6, <3>7, <3>8, <3>9, <3>10 DEF Types
  <2>3. LeaseIsHeld'
    BY <2>1 DEF Types, LeaseIsHeld
  <2>4. SessionByStep'
    BY <2>1 DEF Types, LeaseIsHeld, SessionByStep
  <2>5. ApartmentBySession'
    BY <2>1 DEF Types, SessionByStep, ApartmentBySession
  <2>6. RateIsKept'
    BY <2>1 DEF Types, LeaseIsHeld, SessionByStep, RateIsKept, HasRate
  <2> QED BY <2>2, <2>3, <2>4, <2>5, <2>6
<1>8. ASSUME NEW t \in Threads, NestedCall(t) PROVE SessionInv'
  <2>1. Types'
    BY <1>8 DEF NestedCall, Types, Answers, Calls
  <2>2. LeaseIsHeld'
    BY <1>8 DEF NestedCall, Types, LeaseIsHeld
  <2>3. SessionByStep'
    BY <1>8 DEF NestedCall, Types, LeaseIsHeld, SessionByStep
  <2>4. ApartmentBySession'
    BY <1>8 DEF NestedCall, Types, SessionByStep, ApartmentBySession
  <2>5. RateIsKept'
    BY <1>8 DEF NestedCall, Types, LeaseIsHeld, SessionByStep, RateIsKept,
       HasRate
  <2> QED BY <2>1, <2>2, <2>3, <2>4, <2>5
<1>9. ASSUME NEW t \in Threads, InitializeCom(t) PROVE SessionInv'
  <2>1. /\ step[t] = "com"
        /\ \E o \in Answers : answer' \in {answer, [answer EXCEPT ![t] = o]}
        /\ \/ /\ \E next \in {"release"} : step' = [step EXCEPT ![t] = next]
              /\ UNCHANGED <<apartment, com, window, driver>>
           \/ /\ step' = [step EXCEPT ![t] = "window"]
              /\ apartment' = [apartment EXCEPT ![t] = @ + 1] /\ com' = [com EXCEPT ![t] = TRUE]
              /\ UNCHANGED <<window, driver>>
        /\ UNCHANGED <<registry, rate, mutex, owns, call, at, left>>
    BY <1>9 DEF InitializeCom, Fail, Close, Move, Answers, Types
  <2>2. Types'
    <3>1. step' \in [Threads -> Steps]
      BY <2>1 DEF Types
    <3>2. answer' \in [Threads -> Answers]
      BY <2>1 DEF Types, Answers
    <3>3. at' \in [Threads -> Nat]
      BY <2>1 DEF Types
    <3>4. left' \in [Threads -> SUBSET Clsids]
      BY <2>1 DEF Types
    <3>5. registry' = registry /\ call' = call
      BY <2>1 DEF Types
    <3>6. mutex' \in Threads \cup {Nobody} /\ owns' \in [Threads -> BOOLEAN]
      BY <2>1 DEF Types
    <3>7. rate' \in [Clsids -> Rates \cup {0}]
      BY <2>1 DEF Types
    <3>8. apartment' \in [Threads -> Nat]
      BY <2>1 DEF Types
    <3>9. com' \in [Threads -> BOOLEAN] /\ window' \in [Threads -> BOOLEAN]
      BY <2>1 DEF Types
    <3>10. driver' \in [Threads -> Clsids \cup {NoDriver}]
      BY <2>1 DEF Types
    <3> QED
      BY <3>1, <3>2, <3>3, <3>4, <3>5, <3>6, <3>7, <3>8, <3>9, <3>10 DEF Types
  <2>3. LeaseIsHeld'
    BY <2>1 DEF Types, LeaseIsHeld
  <2>4. SessionByStep'
    BY <2>1 DEF Types, LeaseIsHeld, SessionByStep
  <2>5. ApartmentBySession'
    BY <2>1 DEF Types, SessionByStep, ApartmentBySession
  <2>6. RateIsKept'
    BY <2>1 DEF Types, LeaseIsHeld, SessionByStep, RateIsKept, HasRate
  <2> QED BY <2>2, <2>3, <2>4, <2>5, <2>6
<1>10. ASSUME NEW t \in Threads, CreateHostWindow(t) PROVE SessionInv'
  <2>1. /\ step[t] = "window"
        /\ \E o \in Answers : answer' \in {answer, [answer EXCEPT ![t] = o]}
        /\ \/ /\ \E next \in {"release"} : step' = [step EXCEPT ![t] = next]
              /\ UNCHANGED <<apartment, com, window, driver>>
           \/ /\ step' = [step EXCEPT ![t] = "load"]
              /\ window' = [window EXCEPT ![t] = TRUE]
              /\ UNCHANGED <<apartment, com, driver>>
        /\ UNCHANGED <<registry, rate, mutex, owns, call, at, left>>
    BY <1>10 DEF CreateHostWindow, Fail, Close, Move, Answers, Types
  <2>2. Types'
    <3>1. step' \in [Threads -> Steps]
      BY <2>1 DEF Types
    <3>2. answer' \in [Threads -> Answers]
      BY <2>1 DEF Types, Answers
    <3>3. at' \in [Threads -> Nat]
      BY <2>1 DEF Types
    <3>4. left' \in [Threads -> SUBSET Clsids]
      BY <2>1 DEF Types
    <3>5. registry' = registry /\ call' = call
      BY <2>1 DEF Types
    <3>6. mutex' \in Threads \cup {Nobody} /\ owns' \in [Threads -> BOOLEAN]
      BY <2>1 DEF Types
    <3>7. rate' \in [Clsids -> Rates \cup {0}]
      BY <2>1 DEF Types
    <3>8. apartment' \in [Threads -> Nat]
      BY <2>1 DEF Types
    <3>9. com' \in [Threads -> BOOLEAN] /\ window' \in [Threads -> BOOLEAN]
      BY <2>1 DEF Types
    <3>10. driver' \in [Threads -> Clsids \cup {NoDriver}]
      BY <2>1 DEF Types
    <3> QED
      BY <3>1, <3>2, <3>3, <3>4, <3>5, <3>6, <3>7, <3>8, <3>9, <3>10 DEF Types
  <2>3. LeaseIsHeld'
    BY <2>1 DEF Types, LeaseIsHeld
  <2>4. SessionByStep'
    BY <2>1 DEF Types, LeaseIsHeld, SessionByStep
  <2>5. ApartmentBySession'
    BY <2>1 DEF Types, SessionByStep, ApartmentBySession
  <2>6. RateIsKept'
    BY <2>1 DEF Types, LeaseIsHeld, SessionByStep, RateIsKept, HasRate
  <2> QED BY <2>2, <2>3, <2>4, <2>5, <2>6
<1>11. ASSUME NEW t \in Threads, LoadDriver(t) PROVE SessionInv'
  <2>1. /\ step[t] = "load"
        /\ \E o \in Answers : answer' \in {answer, [answer EXCEPT ![t] = o]}
        /\ \/ /\ \E next \in {"release"} : step' = [step EXCEPT ![t] = next]
              /\ UNCHANGED <<apartment, com, window, driver>>
           \/ /\ step' = [step EXCEPT ![t] = "init"]
              /\ \E d \in Clsids : driver' = [driver EXCEPT ![t] = d]
              /\ UNCHANGED <<apartment, com, window>>
        /\ UNCHANGED <<registry, rate, mutex, owns, call, at, left>>
    BY <1>11 DEF LoadDriver, Fail, Close, Move, Answers, Types
  <2>2. Types'
    <3>1. step' \in [Threads -> Steps]
      BY <2>1 DEF Types
    <3>2. answer' \in [Threads -> Answers]
      BY <2>1 DEF Types, Answers
    <3>3. at' \in [Threads -> Nat]
      BY <2>1 DEF Types
    <3>4. left' \in [Threads -> SUBSET Clsids]
      BY <2>1 DEF Types
    <3>5. registry' = registry /\ call' = call
      BY <2>1 DEF Types
    <3>6. mutex' \in Threads \cup {Nobody} /\ owns' \in [Threads -> BOOLEAN]
      BY <2>1 DEF Types
    <3>7. rate' \in [Clsids -> Rates \cup {0}]
      BY <2>1 DEF Types
    <3>8. apartment' \in [Threads -> Nat]
      BY <2>1 DEF Types
    <3>9. com' \in [Threads -> BOOLEAN] /\ window' \in [Threads -> BOOLEAN]
      BY <2>1 DEF Types
    <3>10. driver' \in [Threads -> Clsids \cup {NoDriver}]
      BY <2>1 DEF Types
    <3> QED
      BY <3>1, <3>2, <3>3, <3>4, <3>5, <3>6, <3>7, <3>8, <3>9, <3>10 DEF Types
  <2>3. LeaseIsHeld'
    BY <2>1 DEF Types, LeaseIsHeld
  <2>4. SessionByStep'
    BY <2>1 DEF Types, LeaseIsHeld, SessionByStep
  <2>5. ApartmentBySession'
    BY <2>1 DEF Types, SessionByStep, ApartmentBySession
  <2>6. RateIsKept'
    BY <2>1 DEF Types, LeaseIsHeld, SessionByStep, RateIsKept, HasRate
  <2> QED BY <2>2, <2>3, <2>4, <2>5, <2>6
<1>12. ASSUME NEW t \in Threads, InitDriver(t) PROVE SessionInv'
  <2>1. /\ step[t] = "init"
        /\ \/ step' = [step EXCEPT ![t] = "release"]
           \/ step' = [step EXCEPT ![t] = "rate"]
           \/ step' = [step EXCEPT ![t] = "query"]
        /\ \E o \in Answers : answer' \in {answer, [answer EXCEPT ![t] = o]}
        /\ UNCHANGED <<registry, rate, mutex, owns, call, at, left, apartment, com,
                       window, driver>>
    BY <1>12 DEF InitDriver, Fail, Close, Move, Answers, Types
  <2>2. Types'
    <3>1. step' \in [Threads -> Steps]
      BY <2>1 DEF Types
    <3>2. answer' \in [Threads -> Answers]
      BY <2>1 DEF Types, Answers
    <3>3. at' \in [Threads -> Nat]
      BY <2>1 DEF Types
    <3>4. left' \in [Threads -> SUBSET Clsids]
      BY <2>1 DEF Types
    <3>5. registry' = registry /\ call' = call
      BY <2>1 DEF Types
    <3>6. mutex' \in Threads \cup {Nobody} /\ owns' \in [Threads -> BOOLEAN]
      BY <2>1 DEF Types
    <3>7. rate' \in [Clsids -> Rates \cup {0}]
      BY <2>1 DEF Types
    <3>8. apartment' \in [Threads -> Nat]
      BY <2>1 DEF Types
    <3>9. com' \in [Threads -> BOOLEAN] /\ window' \in [Threads -> BOOLEAN]
      BY <2>1 DEF Types
    <3>10. driver' \in [Threads -> Clsids \cup {NoDriver}]
      BY <2>1 DEF Types
    <3> QED
      BY <3>1, <3>2, <3>3, <3>4, <3>5, <3>6, <3>7, <3>8, <3>9, <3>10 DEF Types
  <2>3. LeaseIsHeld'
    BY <2>1 DEF Types, LeaseIsHeld
  <2>4. SessionByStep'
    BY <2>1 DEF Types, LeaseIsHeld, SessionByStep
  <2>5. ApartmentBySession'
    BY <2>1 DEF Types, SessionByStep, ApartmentBySession
  <2>6. RateIsKept'
    BY <2>1 DEF Types, LeaseIsHeld, SessionByStep, RateIsKept, HasRate
  <2> QED BY <2>2, <2>3, <2>4, <2>5, <2>6
<1>13. ASSUME NEW t \in Threads, Query(t) PROVE SessionInv'
  <2>1. /\ step[t] = "query"
        /\ \/ step' = [step EXCEPT ![t] = "release"]
        /\ \E o \in Answers : answer' \in {answer, [answer EXCEPT ![t] = o]}
        /\ UNCHANGED <<registry, rate, mutex, owns, call, at, left, apartment, com,
                       window, driver>>
    BY <1>13 DEF Query, Fail, Close, Move, Answers, Types
  <2>2. Types'
    <3>1. step' \in [Threads -> Steps]
      BY <2>1 DEF Types
    <3>2. answer' \in [Threads -> Answers]
      BY <2>1 DEF Types, Answers
    <3>3. at' \in [Threads -> Nat]
      BY <2>1 DEF Types
    <3>4. left' \in [Threads -> SUBSET Clsids]
      BY <2>1 DEF Types
    <3>5. registry' = registry /\ call' = call
      BY <2>1 DEF Types
    <3>6. mutex' \in Threads \cup {Nobody} /\ owns' \in [Threads -> BOOLEAN]
      BY <2>1 DEF Types
    <3>7. rate' \in [Clsids -> Rates \cup {0}]
      BY <2>1 DEF Types
    <3>8. apartment' \in [Threads -> Nat]
      BY <2>1 DEF Types
    <3>9. com' \in [Threads -> BOOLEAN] /\ window' \in [Threads -> BOOLEAN]
      BY <2>1 DEF Types
    <3>10. driver' \in [Threads -> Clsids \cup {NoDriver}]
      BY <2>1 DEF Types
    <3> QED
      BY <3>1, <3>2, <3>3, <3>4, <3>5, <3>6, <3>7, <3>8, <3>9, <3>10 DEF Types
  <2>3. LeaseIsHeld'
    BY <2>1 DEF Types, LeaseIsHeld
  <2>4. SessionByStep'
    BY <2>1 DEF Types, LeaseIsHeld, SessionByStep
  <2>5. ApartmentBySession'
    BY <2>1 DEF Types, SessionByStep, ApartmentBySession
  <2>6. RateIsKept'
    BY <2>1 DEF Types, LeaseIsHeld, SessionByStep, RateIsKept, HasRate
  <2> QED BY <2>2, <2>3, <2>4, <2>5, <2>6
<1>14. ASSUME NEW t \in Threads, AskRate(t) PROVE SessionInv'
  <2>1. /\ step[t] = "rate"
        /\ \/ step' = [step EXCEPT ![t] = "release"]
           \/ step' = [step EXCEPT ![t] = "set"]
           \/ step' = [step EXCEPT ![t] = "capturing"]
        /\ step'[t] = "capturing" => HasRate(t)
        /\ \E o \in Answers : answer' \in {answer, [answer EXCEPT ![t] = o]}
        /\ UNCHANGED <<registry, rate, mutex, owns, call, at, left, apartment, com,
                       window, driver>>
    BY <1>14 DEF AskRate, Fail, Close, Move, RateIsSet, Answers, Types
  <2>2. Types'
    <3>1. step' \in [Threads -> Steps]
      BY <2>1 DEF Types
    <3>2. answer' \in [Threads -> Answers]
      BY <2>1 DEF Types, Answers
    <3>3. at' \in [Threads -> Nat]
      BY <2>1 DEF Types
    <3>4. left' \in [Threads -> SUBSET Clsids]
      BY <2>1 DEF Types
    <3>5. registry' = registry /\ call' = call
      BY <2>1 DEF Types
    <3>6. mutex' \in Threads \cup {Nobody} /\ owns' \in [Threads -> BOOLEAN]
      BY <2>1 DEF Types
    <3>7. rate' \in [Clsids -> Rates \cup {0}]
      BY <2>1 DEF Types
    <3>8. apartment' \in [Threads -> Nat]
      BY <2>1 DEF Types
    <3>9. com' \in [Threads -> BOOLEAN] /\ window' \in [Threads -> BOOLEAN]
      BY <2>1 DEF Types
    <3>10. driver' \in [Threads -> Clsids \cup {NoDriver}]
      BY <2>1 DEF Types
    <3> QED
      BY <3>1, <3>2, <3>3, <3>4, <3>5, <3>6, <3>7, <3>8, <3>9, <3>10 DEF Types
  <2>3. LeaseIsHeld'
    BY <2>1 DEF Types, LeaseIsHeld
  <2>4. SessionByStep'
    BY <2>1 DEF Types, LeaseIsHeld, SessionByStep
  <2>5. ApartmentBySession'
    BY <2>1 DEF Types, SessionByStep, ApartmentBySession
  <2>6. RateIsKept'
    BY <2>1 DEF Types, LeaseIsHeld, SessionByStep, RateIsKept, HasRate
  <2> QED BY <2>2, <2>3, <2>4, <2>5, <2>6
<1>15. ASSUME NEW t \in Threads, SetRate(t) PROVE SessionInv'
  <2>1. /\ step[t] = "set"
        /\ \/ step' = [step EXCEPT ![t] = "release"]
           \/ step' = [step EXCEPT ![t] = "verify"]
        /\ \E r \in Rates \cup {0} : rate' = [rate EXCEPT ![driver[t]] = r]
        /\ \E o \in Answers : answer' \in {answer, [answer EXCEPT ![t] = o]}
        /\ UNCHANGED <<registry, mutex, owns, call, at, left, apartment, com,
                       window, driver>>
    BY <1>15 DEF SetRate, Fail, Close, Move, SessionByStep, Calls, Answers,
       Types
  <2>2. Types'
    <3>1. step' \in [Threads -> Steps]
      BY <2>1 DEF Types
    <3>2. answer' \in [Threads -> Answers]
      BY <2>1 DEF Types, Answers
    <3>3. at' \in [Threads -> Nat]
      BY <2>1 DEF Types
    <3>4. left' \in [Threads -> SUBSET Clsids]
      BY <2>1 DEF Types
    <3>5. registry' = registry /\ call' = call
      BY <2>1 DEF Types
    <3>6. mutex' \in Threads \cup {Nobody} /\ owns' \in [Threads -> BOOLEAN]
      BY <2>1 DEF Types
    <3>7. rate' \in [Clsids -> Rates \cup {0}]
      BY <2>1 DEF Types
    <3>8. apartment' \in [Threads -> Nat]
      BY <2>1 DEF Types
    <3>9. com' \in [Threads -> BOOLEAN] /\ window' \in [Threads -> BOOLEAN]
      BY <2>1 DEF Types
    <3>10. driver' \in [Threads -> Clsids \cup {NoDriver}]
      BY <2>1 DEF Types
    <3> QED
      BY <3>1, <3>2, <3>3, <3>4, <3>5, <3>6, <3>7, <3>8, <3>9, <3>10 DEF Types
  <2>3. LeaseIsHeld'
    BY <2>1 DEF Types, LeaseIsHeld
  <2>4. SessionByStep'
    BY <2>1 DEF Types, LeaseIsHeld, SessionByStep
  <2>5. ApartmentBySession'
    BY <2>1 DEF Types, SessionByStep, ApartmentBySession
  <2>6. RateIsKept'
    BY <2>1 DEF Types, LeaseIsHeld, SessionByStep, RateIsKept, HasRate
  <2> QED BY <2>2, <2>3, <2>4, <2>5, <2>6
<1>16. ASSUME NEW t \in Threads, VerifyRate(t) PROVE SessionInv'
  <2>1. /\ step[t] = "verify"
        /\ \/ step' = [step EXCEPT ![t] = "release"]
           \/ step' = [step EXCEPT ![t] = "capturing"]
        /\ step'[t] = "capturing" => HasRate(t)
        /\ \E o \in Answers : answer' \in {answer, [answer EXCEPT ![t] = o]}
        /\ UNCHANGED <<registry, rate, mutex, owns, call, at, left, apartment, com,
                       window, driver>>
    BY <1>16 DEF VerifyRate, Fail, Close, Move, RateIsSet, Answers, Types
  <2>2. Types'
    <3>1. step' \in [Threads -> Steps]
      BY <2>1 DEF Types
    <3>2. answer' \in [Threads -> Answers]
      BY <2>1 DEF Types, Answers
    <3>3. at' \in [Threads -> Nat]
      BY <2>1 DEF Types
    <3>4. left' \in [Threads -> SUBSET Clsids]
      BY <2>1 DEF Types
    <3>5. registry' = registry /\ call' = call
      BY <2>1 DEF Types
    <3>6. mutex' \in Threads \cup {Nobody} /\ owns' \in [Threads -> BOOLEAN]
      BY <2>1 DEF Types
    <3>7. rate' \in [Clsids -> Rates \cup {0}]
      BY <2>1 DEF Types
    <3>8. apartment' \in [Threads -> Nat]
      BY <2>1 DEF Types
    <3>9. com' \in [Threads -> BOOLEAN] /\ window' \in [Threads -> BOOLEAN]
      BY <2>1 DEF Types
    <3>10. driver' \in [Threads -> Clsids \cup {NoDriver}]
      BY <2>1 DEF Types
    <3> QED
      BY <3>1, <3>2, <3>3, <3>4, <3>5, <3>6, <3>7, <3>8, <3>9, <3>10 DEF Types
  <2>3. LeaseIsHeld'
    BY <2>1 DEF Types, LeaseIsHeld
  <2>4. SessionByStep'
    BY <2>1 DEF Types, LeaseIsHeld, SessionByStep
  <2>5. ApartmentBySession'
    BY <2>1 DEF Types, SessionByStep, ApartmentBySession
  <2>6. RateIsKept'
    BY <2>1 DEF Types, LeaseIsHeld, SessionByStep, RateIsKept, HasRate
  <2> QED BY <2>2, <2>3, <2>4, <2>5, <2>6
<1>17. ASSUME NEW t \in Threads, EndCapture(t) PROVE SessionInv'
  <2>1. /\ step[t] = "capturing"
        /\ \/ step' = [step EXCEPT ![t] = "release"]
        /\ \E o \in Answers : answer' \in {answer, [answer EXCEPT ![t] = o]}
        /\ UNCHANGED <<registry, rate, mutex, owns, call, at, left, apartment, com,
                       window, driver>>
    BY <1>17 DEF EndCapture, Fail, Close, Move, Answers, Types
  <2>2. Types'
    <3>1. step' \in [Threads -> Steps]
      BY <2>1 DEF Types
    <3>2. answer' \in [Threads -> Answers]
      BY <2>1 DEF Types, Answers
    <3>3. at' \in [Threads -> Nat]
      BY <2>1 DEF Types
    <3>4. left' \in [Threads -> SUBSET Clsids]
      BY <2>1 DEF Types
    <3>5. registry' = registry /\ call' = call
      BY <2>1 DEF Types
    <3>6. mutex' \in Threads \cup {Nobody} /\ owns' \in [Threads -> BOOLEAN]
      BY <2>1 DEF Types
    <3>7. rate' \in [Clsids -> Rates \cup {0}]
      BY <2>1 DEF Types
    <3>8. apartment' \in [Threads -> Nat]
      BY <2>1 DEF Types
    <3>9. com' \in [Threads -> BOOLEAN] /\ window' \in [Threads -> BOOLEAN]
      BY <2>1 DEF Types
    <3>10. driver' \in [Threads -> Clsids \cup {NoDriver}]
      BY <2>1 DEF Types
    <3> QED
      BY <3>1, <3>2, <3>3, <3>4, <3>5, <3>6, <3>7, <3>8, <3>9, <3>10 DEF Types
  <2>3. LeaseIsHeld'
    BY <2>1 DEF Types, LeaseIsHeld
  <2>4. SessionByStep'
    BY <2>1 DEF Types, LeaseIsHeld, SessionByStep
  <2>5. ApartmentBySession'
    BY <2>1 DEF Types, SessionByStep, ApartmentBySession
  <2>6. RateIsKept'
    BY <2>1 DEF Types, LeaseIsHeld, SessionByStep, RateIsKept, HasRate
  <2> QED BY <2>2, <2>3, <2>4, <2>5, <2>6
<1>18. ASSUME NEW t \in Threads, ReleaseDriver(t) PROVE SessionInv'
  <2>1. Types'
    BY <1>18 DEF ReleaseDriver, Move, Types, Answers, Calls
  <2>2. LeaseIsHeld'
    BY <1>18 DEF ReleaseDriver, Move, Types, LeaseIsHeld
  <2>3. SessionByStep'
    BY <1>18 DEF ReleaseDriver, Move, Types, LeaseIsHeld, SessionByStep
  <2>4. ApartmentBySession'
    BY <1>18 DEF ReleaseDriver, Move, Types, SessionByStep, ApartmentBySession
  <2>5. RateIsKept'
    BY <1>18 DEF ReleaseDriver, Move, Types, LeaseIsHeld, SessionByStep,
       RateIsKept, HasRate
  <2> QED BY <2>1, <2>2, <2>3, <2>4, <2>5
<1>19. ASSUME NEW t \in Threads, DestroyHostWindow(t) PROVE SessionInv'
  <2>1. Types'
    BY <1>19 DEF DestroyHostWindow, Move, Types, Answers, Calls
  <2>2. LeaseIsHeld'
    BY <1>19 DEF DestroyHostWindow, Move, Types, LeaseIsHeld
  <2>3. SessionByStep'
    BY <1>19 DEF DestroyHostWindow, Move, Types, LeaseIsHeld, SessionByStep
  <2>4. ApartmentBySession'
    BY <1>19 DEF DestroyHostWindow, Move, Types, SessionByStep,
       ApartmentBySession
  <2>5. RateIsKept'
    BY <1>19 DEF DestroyHostWindow, Move, Types, LeaseIsHeld, SessionByStep,
       RateIsKept, HasRate
  <2> QED BY <2>1, <2>2, <2>3, <2>4, <2>5
<1>20. ASSUME NEW t \in Threads, UninitializeCom(t) PROVE SessionInv'
  <2>1. /\ step[t] = "uninitialize"
        /\ \E next \in {"unlock", "com"} : step' = [step EXCEPT ![t] = next]
        /\ \E S \in SUBSET Clsids : left' = [left EXCEPT ![t] = S]
        /\ apartment' = IF com[t] THEN [apartment EXCEPT ![t] = @ - 1] ELSE apartment
        /\ com' = [com EXCEPT ![t] = FALSE]
        /\ UNCHANGED <<registry, rate, mutex, owns, call, at, window, driver, answer>>
    BY <1>20 DEF UninitializeCom, Types
  <2>2. Types'
    <3>1. step' \in [Threads -> Steps]
      BY <2>1 DEF Types
    <3>2. answer' \in [Threads -> Answers]
      BY <2>1 DEF Types, Answers
    <3>3. at' \in [Threads -> Nat]
      BY <2>1 DEF Types
    <3>4. left' \in [Threads -> SUBSET Clsids]
      BY <2>1 DEF Types
    <3>5. registry' = registry /\ call' = call
      BY <2>1 DEF Types
    <3>6. mutex' \in Threads \cup {Nobody} /\ owns' \in [Threads -> BOOLEAN]
      BY <2>1 DEF Types
    <3>7. rate' \in [Clsids -> Rates \cup {0}]
      BY <2>1 DEF Types
    <3>8. apartment' \in [Threads -> Nat]
      BY <2>1 DEF Types, ApartmentBySession
    <3>9. com' \in [Threads -> BOOLEAN] /\ window' \in [Threads -> BOOLEAN]
      BY <2>1 DEF Types
    <3>10. driver' \in [Threads -> Clsids \cup {NoDriver}]
      BY <2>1 DEF Types
    <3> QED
      BY <3>1, <3>2, <3>3, <3>4, <3>5, <3>6, <3>7, <3>8, <3>9, <3>10 DEF Types
  <2>3. LeaseIsHeld'
    BY <2>1 DEF Types, LeaseIsHeld
  <2>4. SessionByStep'
    BY <2>1 DEF Types, LeaseIsHeld, SessionByStep
  <2>5. ApartmentBySession'
    BY <2>1 DEF Types, SessionByStep, ApartmentBySession
  <2>6. RateIsKept'
    BY <2>1 DEF Types, LeaseIsHeld, SessionByStep, RateIsKept, HasRate
  <2> QED BY <2>2, <2>3, <2>4, <2>5, <2>6
<1>21. CASE Finished \/ UNCHANGED vars
  BY <1>21 DEF Finished, vars, Types, LeaseIsHeld, SessionByStep,
     ApartmentBySession, RateIsKept, HasRate
<1> QED
  BY <1>1, <1>2, <1>3, <1>4, <1>5, <1>6, <1>7, <1>8, <1>9, <1>10, <1>11,
     <1>12, <1>13, <1>14, <1>15, <1>16, <1>17, <1>18, <1>19, <1>20, <1>21 DEF
     Next, Step

\* The session facts hold in every state.
THEOREM SessionsInvariant == Spec => []SessionInv
BY InitSession, NextSession, PTL DEF Spec

\* At most one driver is loaded and only under the lease, a capture keeps its
\* rate, and a call that has returned has left nothing behind.
THEOREM DriversAreExclusive == Spec => []OneDriver
<1>1. SessionInv => OneDriver
  <2> SUFFICES ASSUME SessionInv PROVE OneDriver
    OBVIOUS
  <2> USE DEF SessionInv, Within, InSession, Opened
  <2>1. \A t \in Threads : IsOpen(t) => mutex = t /\ step[t] \in Within
    BY DEF Types, LeaseIsHeld, SessionByStep, IsOpen
  <2>2. \A t, u \in Threads :
          driver[t] # NoDriver /\ driver[u] # NoDriver => t = u
    BY <2>1 DEF IsOpen
  <2>3. \A t \in Threads : step[t] = "idle" =>
          ~IsOpen(t) /\ ~owns[t] /\ mutex # t /\ apartment[t] = Home[t]
    BY <2>1 DEF LeaseIsHeld, SessionByStep, ApartmentBySession, IsOpen
  <2> QED BY <2>1, <2>2, <2>3 DEF OneDriver, RateIsKept
<1> QED BY <1>1, SessionsInvariant, PTL

----------------------------------------------------------------------------
(* The backend of an id.                                                   *)

\* A session is at the ASIO backend, and it is about an id of ASIO.
AsioIsAsked ==
  \A t \in Threads :
    /\ step[t] \in Within \cup {"lease"} =>
         at[t] \in DOMAIN Backends /\ Backends[at[t]].provider = "asio"
    /\ step[t] \in InSession /\ call[t].op # "devices" =>
         call[t].id.prefix = "asio:"
    /\ step[t] = "unlock" /\ call[t].op # "devices" /\ answer[t] = "ok" =>
         call[t].id.prefix = "asio:"

FakeIsAsked ==
  \A t \in Threads :
    step[t] = "fake" =>
      at[t] \in DOMAIN Backends /\ Backends[at[t]].provider = "fake"

\* A backend that a call has reached has the prefix of its id.
PrefixIsReachedBy(t) ==
  ( /\ at[t] \in DOMAIN Backends
    /\ \/ call[t].op = "capture" /\ step[t] # "route"
       \/ /\ call[t].op \notin {"devices", "capture"}
          /\ step[t] = "idle" /\ answer[t] = "ok" )
    => Backends[at[t]].prefix = call[t].id.prefix

PrefixIsReached == \A t \in Threads : PrefixIsReachedBy(t)

RouteInv ==
  /\ SessionInv
  /\ AsioIsAsked
  /\ FakeIsAsked
  /\ PrefixIsReached

\* The backends as main.cpp adds them.
LEMMA BackendPrefix ==
  ASSUME NEW i \in DOMAIN Backends
  PROVE  /\ Backends[i].provider \in {"asio", "fake"}
         /\ Backends[i].prefix =
              IF Backends[i].provider = "asio" THEN "asio:" ELSE "fake:"
BY BackendsAssumption

\* A process starts without calls.
LEMMA InitRoute == Init => RouteInv
<1> SUFFICES ASSUME Init PROVE RouteInv
  OBVIOUS
<1>1. \A t \in Threads : step[t] = "idle" /\ call[t].op = "devices"
  BY DEF Init
<1>2. AsioIsAsked
  BY <1>1 DEF AsioIsAsked, Within, InSession, Opened
<1>3. FakeIsAsked
  BY <1>1 DEF FakeIsAsked
<1>4. PrefixIsReached
  <2>1. \A t \in Threads : call[t].op # "capture"
    BY <1>1
  <2>2. \A t \in Threads : ~(call[t].op \notin {"devices", "capture"})
    BY <1>1
  <2> QED
    <3> SUFFICES ASSUME NEW t \in Threads
                 PROVE  /\ call[t].op # "capture"
                        /\ ~(call[t].op \notin {"devices", "capture"})
      BY DEF PrefixIsReached, PrefixIsReachedBy
    <3> QED BY <2>1, <2>2
<1> QED BY <1>2, <1>3, <1>4, InitSession DEF RouteInv

\* Every step of every thread preserves it.
LEMMA NextRoute == RouteInv /\ [Next]_vars => RouteInv'
<1> SUFFICES ASSUME RouteInv, [Next]_vars PROVE RouteInv'
  OBVIOUS
<1> DEFINE Asked == AsioIsAsked /\ FakeIsAsked /\ PrefixIsReached
<1> USE DEF RouteInv, SessionInv, AsioIsAsked, FakeIsAsked, PrefixIsReached,
        PrefixIsReachedBy, Within, InSession, Opened, device, lease, caller, session
<1>1. ASSUME NEW t \in Threads, Begin(t) PROVE Asked'
  <2>1. /\ step' = [step EXCEPT ![t] = "route"]
        /\ \E c \in Calls : call' = [call EXCEPT ![t] = c]
        /\ at' = [at EXCEPT ![t] = 1]
        /\ answer' = [answer EXCEPT ![t] = "none"]
    BY <1>1 DEF Begin
  <2>2. \A u \in Threads \ {t} :
          /\ step'[u] = step[u] /\ call'[u] = call[u]
          /\ at'[u] = at[u] /\ answer'[u] = answer[u]
    BY <2>1 DEF Types
  <2>3. step'[t] = "route"
    BY <2>1 DEF Types
  <2>4. AsioIsAsked'
    BY <2>2, <2>3
  <2>5. FakeIsAsked'
    BY <2>2, <2>3
  <2>6. PrefixIsReached'
    <3>1. step'[t] # "idle"
      BY <2>3
    <3> SUFFICES ASSUME NEW u \in Threads
                 PROVE  PrefixIsReachedBy(u)'
      BY DEF PrefixIsReachedBy
    <3> QED BY <2>2, <2>3, <3>1 DEF PrefixIsReachedBy
  <2> QED BY <2>4, <2>5, <2>6
<1>2. ASSUME NEW t \in Threads, Reenter(t) PROVE Asked'
  BY <1>2 DEF Reenter, Types
<1>3. ASSUME NEW t \in Threads, Route(t) PROVE Asked'
  <2>1. CASE \E i \in DOMAIN Backends :
               /\ IsNext(i, t)
               /\ at' = [at EXCEPT ![t] = i]
               /\ step' = [step EXCEPT ![t] = IF Backends[i].provider = "asio"
                                                THEN "lease" ELSE "fake"]
               /\ UNCHANGED answer
    <3>1. PICK i \in DOMAIN Backends :
               /\ IsNext(i, t)
               /\ at' = [at EXCEPT ![t] = i]
               /\ step' = [step EXCEPT ![t] = IF Backends[i].provider = "asio"
                                                THEN "lease" ELSE "fake"]
               /\ UNCHANGED answer
      BY <2>1
    <3>2. UNCHANGED call
      BY <1>3 DEF Route
    <3>3. AsioIsAsked'
      BY <3>1, <3>2 DEF Types
    <3>4. FakeIsAsked'
      BY <3>1, <3>2, BackendPrefix DEF Types
    <3>5. call[t].op = "capture" => Backends[i].prefix = call[t].id.prefix
      BY <3>1 DEF IsNext, IsRegistrationFor
    <3>6. PrefixIsReached'
      BY <3>1, <3>2, <3>5 DEF Types
    <3> QED BY <3>3, <3>4, <3>6
  <2>2. CASE /\ at' = [at EXCEPT ![t] = 0]
             /\ step' = [step EXCEPT ![t] = "idle"]
             /\ \E o \in Answers : answer' = [answer EXCEPT ![t] = o]
    <3>1. UNCHANGED call /\ 0 \notin DOMAIN Backends
      BY <1>3, BackendsAssumption DEF Route
    <3> QED BY <2>2, <3>1 DEF Types
  <2> QED BY <1>3, <2>1, <2>2 DEF Route, Answers
<1>4. ASSUME NEW t \in Threads, FakeCall(t) PROVE Asked'
  BY <1>4, BackendPrefix DEF FakeCall, IsLoopback, Provided, Return, Types
<1>5. ASSUME NEW t \in Threads, Acquire(t) PROVE Asked'
  BY <1>5 DEF Acquire, Types
<1>6. ASSUME NEW t \in Threads, Find(t) PROVE Asked'
  BY <1>6 DEF Find, FindDriver, Types
<1>7. ASSUME NEW t \in Threads, Unlock(t) PROVE Asked'
  BY <1>7, BackendPrefix DEF Unlock, Provided, Return, Types
<1>8. ASSUME NEW t \in Threads, NestedCall(t) PROVE Asked'
  BY <1>8 DEF NestedCall, Types
<1>9. ASSUME NEW t \in Threads, InitializeCom(t) PROVE Asked'
  BY <1>9 DEF InitializeCom, Fail, Close, Move, RateIsSet, Types
<1>10. ASSUME NEW t \in Threads, CreateHostWindow(t) PROVE Asked'
  BY <1>10 DEF CreateHostWindow, Fail, Close, Move, RateIsSet, Types
<1>11. ASSUME NEW t \in Threads, LoadDriver(t) PROVE Asked'
  BY <1>11 DEF LoadDriver, Fail, Close, Move, RateIsSet, Types
<1>12. ASSUME NEW t \in Threads, InitDriver(t) PROVE Asked'
  BY <1>12 DEF InitDriver, Fail, Close, Move, RateIsSet, Types
<1>13. ASSUME NEW t \in Threads, Query(t) PROVE Asked'
  BY <1>13 DEF Query, Fail, Close, Move, RateIsSet, Types
<1>14. ASSUME NEW t \in Threads, AskRate(t) PROVE Asked'
  BY <1>14 DEF AskRate, Fail, Close, Move, RateIsSet, Types
<1>15. ASSUME NEW t \in Threads, SetRate(t) PROVE Asked'
  BY <1>15 DEF SetRate, Fail, Close, Move, RateIsSet, Types
<1>16. ASSUME NEW t \in Threads, VerifyRate(t) PROVE Asked'
  BY <1>16 DEF VerifyRate, Fail, Close, Move, RateIsSet, Types
<1>17. ASSUME NEW t \in Threads, EndCapture(t) PROVE Asked'
  BY <1>17 DEF EndCapture, Fail, Close, Move, RateIsSet, Types
<1>18. ASSUME NEW t \in Threads, ReleaseDriver(t) PROVE Asked'
  BY <1>18 DEF ReleaseDriver, Move, Types
<1>19. ASSUME NEW t \in Threads, DestroyHostWindow(t) PROVE Asked'
  BY <1>19 DEF DestroyHostWindow, Move, Types
<1>20. ASSUME NEW t \in Threads, UninitializeCom(t) PROVE Asked'
  BY <1>20 DEF UninitializeCom, Types
<1>21. ASSUME Finished \/ UNCHANGED vars PROVE Asked'
  <2>1. UNCHANGED <<step, call, at, answer>>
    BY <1>21 DEF Finished, vars
  <2>2. AsioIsAsked'
    BY <2>1
  <2>3. FakeIsAsked'
    BY <2>1
  <2>4. PrefixIsReached'
    <3> SUFFICES ASSUME NEW u \in Threads
                 PROVE  PrefixIsReachedBy(u)'
      BY DEF PrefixIsReachedBy
    <3>1. PrefixIsReachedBy(u)
      BY DEF PrefixIsReached
    <3>2. /\ step'[u] = step[u] /\ call'[u] = call[u]
          /\ at'[u] = at[u] /\ answer'[u] = answer[u]
      BY <2>1
    <3> QED BY <3>1, <3>2
  <2> QED BY <2>2, <2>3, <2>4
<1>22. Asked'
  BY <1>1, <1>2, <1>3, <1>4, <1>5, <1>6, <1>7, <1>8, <1>9, <1>10, <1>11,
     <1>12, <1>13, <1>14, <1>15, <1>16, <1>17, <1>18, <1>19, <1>20, <1>21
     DEF Next, Step
<1> QED BY <1>22, NextSession

\* Whoever answers about an id, or records from it, has the prefix of the id,
\* so no two backends do.
THEOREM BackendIsTheSame == Spec => []SameBackend
<1>1. RouteInv => SameBackend
  <2> SUFFICES ASSUME RouteInv, NEW t \in Threads, NEW u \in Threads,
                      call[t].id = call[u].id,
                      NEW p \in Reached(t), NEW q \in Reached(u)
               PROVE  p = q
    BY DEF SameBackend
  <2>1. /\ at[t] \in DOMAIN Backends /\ p = Backends[at[t]].provider
        /\ Backends[at[t]].prefix = call[t].id.prefix
    BY DEF Reached, RouteInv, PrefixIsReached, PrefixIsReachedBy
  <2>2. /\ at[u] \in DOMAIN Backends /\ q = Backends[at[u]].provider
        /\ Backends[at[u]].prefix = call[u].id.prefix
    BY DEF Reached, RouteInv, PrefixIsReached, PrefixIsReachedBy
  <2> QED BY <2>1, <2>2, BackendPrefix
<1> QED BY <1>1, InitRoute, NextRoute, PTL DEF Spec
=============================================================================
