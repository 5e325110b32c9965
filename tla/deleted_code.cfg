\* An expired code is presented by two requests, one just before and one after it expires.
\* When the code is gone nothing more can arrive: the instance may stop.
SPECIFICATION Spec
CONSTANTS
    r1 = r1
    r2 = r2
    r3 = r3
    u1 = u1
    c1 = c1
    c2 = c2
    Requests = {r1, r2, r3}
    Users = {u1}
    Clients = {c1}
    RefreshClients = {c1}
    ScopeSets <- OneScope
    MaxCodes = 1
    MaxTokens = 2
    MaxGrants = 1
    Operations <- ExpiryOperations
SYMMETRY Symmetry
CHECK_DEADLOCK FALSE
INVARIANT ReplayedCodeIsDead
