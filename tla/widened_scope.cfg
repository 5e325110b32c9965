\* A consent that merges the row it read races a revocation and a narrower consent.
\* When the codes are used up nothing more can arrive: the instance may stop.
SPECIFICATION Spec
CONSTANTS
    r1 = r1
    r2 = r2
    r3 = r3
    u1 = u1
    c1 = c1
    c2 = c2
    Requests = {r1, r2}
    Users = {u1}
    Clients = {c1}
    RefreshClients = {c1}
    ScopeSets <- TwoScopes
    MaxCodes = 4
    MaxTokens = 1
    MaxGrants = 3
    Operations <- ConsentOperations
SYMMETRY Symmetry
CHECK_DEADLOCK FALSE
INVARIANT CodeScopeWasAccepted
