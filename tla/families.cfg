\* One consent and one code; three handlers race on the family it starts.
SPECIFICATION Spec
CONSTANTS
    r1 = r1
    r2 = r2
    r3 = r3
    u1 = u1
    c1 = c1
    c2 = c2
    Requests = {r1, r2, r3}
    Users = {u1}
    Clients = {c1}
    RefreshClients = {c1}
    ScopeSets <- OneScope
    MaxCodes = 1
    MaxTokens = 3
    MaxGrants = 1
    Operations <- TokenOperations
SYMMETRY Symmetry
INVARIANTS
    TypeOK
    OneActivePerFamily
    ExchangedOnce
    ClosedFamilyIsDead
    DisclosedParentIsSpent
    MarkedReplayIsDead
