\* Two presenters on two workers, two authorize requests, three first requests.
\* No symmetry: the run checks a liveness property.
\* At the last moment of the instance, and with every request done, nothing is left to do.
SPECIFICATION StoresSpec
CONSTANTS
    Presenters = {h1, h2}
    Workers = {w1, w2}
    Jtis = {j1}
    MaxAge = 1
    Skew = 1
    CleanupInterval = 2
    MaxClock = 3
    Resolvers = {r1, r2}
    RefreshTtl = 2
    MaxRequest = 2
    MaxDocuments = 3
    MaxMoment = 5
    Callers = {c1, c2, c3}
CHECK_DEADLOCK FALSE
INVARIANTS
    StoresTypeOK
    ProofsAreSingleUse
    SupersededIsForgotten
    OneAuth
PROPERTIES
    OneCleanupPerInterval
    NeverOlderThanRead
    EveryRequestEnds
