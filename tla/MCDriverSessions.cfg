SPECIFICATION FairSpec
CONSTANTS
    t1 = t1
    t2 = t2
    Threads = {t1, t2}
    Clsids = {1, 2}
    Ids <- MCIds
    Rates = {0, 44, 48}
    Registries <- MCRegistries
    Backends <- MCBackends
    StartRates <- MCStartRates
    FakeStartRate = 48
    Multithreaded = {}
    Home <- MCHome
    MaxCalls = 1
    NoDriver = NoDriver
    Nobody = Nobody
INVARIANTS
    OneDriver
    SameBackend
PROPERTIES
    CallsReturn
