\* Requests, revocations and the clock race on two sessions.
\* At the last moment, with the sessions deleted, nothing more can happen.
SPECIFICATION Spec
CONSTANTS
    r1 = r1
    r2 = r2
    u1 = u1
    u2 = u2
    Requests = {r1, r2}
    Users = {u1, u2}
    MaxSessions = 2
    MaxTime = 5
    Ttl = 4
    IdleTimeout = 3
    TouchInterval = 1
    FreshTtl = 2
SYMMETRY Symmetry
CHECK_DEADLOCK FALSE
INVARIANTS
    TypeOK
PROPERTIES
    SessionsKeepThePromise
    EndsOnlyItsOwn
