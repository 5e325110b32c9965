\* No crash; every handler is resumed; the code may expire and its row be deleted.
SPECIFICATION FairSpec
CONSTANTS
    r1 = r1
    r2 = r2
    r3 = r3
    u1 = u1
    c1 = c1
    c2 = c2
    Requests = {r1, r2}
    Users = {u1}
    Clients = {c1}
    RefreshClients = {c1}
    ScopeSets <- OneScope
    MaxCodes = 1
    MaxTokens = 3
    MaxGrants = 2
    Operations <- AllButCrash
INVARIANTS
    MarkedReplayIsDead
PROPERTIES
    MarkedFamilyDies
    MarkersAreDurable
