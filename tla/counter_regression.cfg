\* Two sign-ins with one passkey, which read its row before either stores its counter.
\* With the rows of the instance used up nothing more can arrive.
SPECIFICATION CredentialsSpec
CONSTANTS
    c1 = c1
    c2 = c2
    e1 = e1
    e2 = e2
    Requests = {r1}
    Users = {f1}
    MaxSecrets = 0
    MaxStep = 1
    Callbacks = {c1}
    Identities = {google}
    Asserting = {google}
    Emails = {e1}
    MaxUsers = 1
    Ceremonies = {p1, p2}
    Owners = {o1}
    Credentials = {k1}
    MaxPasskeys = 1
    MaxCount = 2
    Verifiers = {v1}
    Keepers = {u1}
    MaxKeys = 1
    MaxHour = 0
SYMMETRY Symmetry
CHECK_DEADLOCK FALSE
PROPERTIES
    CounterRegressionIsRejected
