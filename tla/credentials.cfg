\* Sign-ins, enrolments and their ends race on the factor of one user; two handlers at a
\* time: callbacks of two identities, passkeys of two users, API keys.
\* At the last moment, or with the rows of the instance used up, nothing more can arrive.
SPECIFICATION CredentialsSpec
CONSTANTS
    c1 = c1
    c2 = c2
    e1 = e1
    e2 = e2
    Requests = {r1, r2, r3}
    Users = {f1}
    MaxSecrets = 2
    MaxStep = 3
    Callbacks = {c1, c2}
    Identities = {google, github}
    Asserting = {google}
    Emails = {e1, e2}
    MaxUsers = 3
    Ceremonies = {p1, p2}
    Owners = {o1, o2}
    Credentials = {k1}
    MaxPasskeys = 2
    MaxCount = 3
    Verifiers = {v1, v2}
    Keepers = {u1, u2}
    MaxKeys = 2
    MaxHour = 2
SYMMETRY Symmetry
CHECK_DEADLOCK FALSE
INVARIANTS
    CredentialsTypeOK
    SingleUseInForce
    IdentitiesKeepTheirUser
    LinksAreAsserted
    CredentialsKeepTheirOwner
    AheadOfSettled
PROPERTIES
    NeverRollsBack
    DeletedByTheirOwner
    EndedKeysStayDead
    KeysEndWithReason
