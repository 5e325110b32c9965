\* Two requests with one token race its deletion.
\* With the rows of the instance used up nothing more can arrive.
SPECIFICATION Spec
CONSTANTS
    r1 = r1
    r2 = r2
    e1 = e1
    e2 = e2
    p1 = p1
    p2 = p2
    NoPassword = NoPassword
    Requests = {r1, r2}
    Emails = {e1}
    Passwords = {p1, p2}
    MaxTokens = 2
    MaxSessions = 2
SYMMETRY Symmetry
CHECK_DEADLOCK FALSE
INVARIANTS
    OneShot
