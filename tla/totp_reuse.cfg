\* An enrolment that was started before the factor was enabled ends while sign-ins run.
\* At the last step, with all secrets minted and no factor enabled, nothing more can
\* happen.
SPECIFICATION Spec
CONSTANTS
    r1 = r1
    r2 = r2
    r3 = r3
    u1 = u1
    Requests = {r1, r2, r3}
    Users = {u1}
    MaxSecrets = 2
    MaxStep = 2
SYMMETRY Symmetry
CHECK_DEADLOCK FALSE
INVARIANTS
    SingleUse
