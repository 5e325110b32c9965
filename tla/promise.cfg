\* A user consents, revokes and consents again while two families live: the handlers
\* against the promise.
\* When the codes and grant ids of the instance are used up nothing more can arrive.
SPECIFICATION Spec
CONSTANTS
    r1 = r1
    r2 = r2
    r3 = r3
    u1 = u1
    c1 = c1
    c2 = c2
    Requests = {r1, r2}
    Users = {u1}
    Clients = {c1}
    RefreshClients = {c1}
    ScopeSets <- OneScope
    MaxCodes = 2
    MaxTokens = 2
    MaxGrants = 3
    Operations <- GrantOperations
SYMMETRY Symmetry
CHECK_DEADLOCK FALSE
INVARIANTS
    RevokedGrantIsDead
PROPERTIES
    FamiliesKeepThePromise
