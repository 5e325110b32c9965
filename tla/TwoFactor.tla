------------------------------ MODULE TwoFactor -------------------------------
(***************************************************************************)
(* The TOTP second factor of hayate-auth (src/src/hayate_auth/             *)
(* two_factor.py, totp.py): enrolment, its end, and the second step of a   *)
(* sign-in, whose time step is claimed by compare-and-swap.                *)
(*                                                                         *)
(* One action is one adapter call with the computation up to the next one. *)
(* A code is a secret and a time step; the client may present any it could *)
(* compute.  The session and the challenge cookie that the endpoints ask   *)
(* for only refuse requests; the session that a claim pays for is inserted *)
(* by Accounts and Sessions.                                               *)
(***************************************************************************)
EXTENDS Naturals

CONSTANTS
    Requests,       \* the handlers that may run at the same time
    Users,
    MaxSecrets,     \* bound: enrolments ever started
    MaxStep         \* bound: the last time step of the instance

ASSUME TwoFactorAssumption == MaxSecrets \in Nat /\ MaxStep \in Nat \ {0}

None == 0
Secrets == 1..MaxSecrets
Steps == 1..MaxStep

VARIABLES
    now,        \* the current time step
    minted,     \* the last secret (and row id) generated
    factors,    \* table two_factor, by user_id, which is UNIQUE
    requests,   \* the handlers' program counters and local variables
    accepted    \* history: how often a code was accepted by a sign-in

vars == <<now, minted, factors, requests, accepted>>

NoRow == [id |-> None, secret |-> None, enabled |-> FALSE, used |-> 0]
Nobody == "nobody"
Blank == [pc |-> "idle", user |-> Nobody, id |-> None, secret |-> None, step |-> 0,
          seen |-> 0]

FactorRow == [id: Secrets, secret: Secrets, enabled: BOOLEAN, used: 0..MaxStep]
Locals == [pc: {"idle", "create", "replace", "confirm", "delete", "claim"},
           user: Users \cup {Nobody}, id: Secrets \cup {None}, secret: Secrets \cup {None},
           step: 0..MaxStep, seen: 0..MaxStep]

TypeOK ==
    /\ now \in Steps
    /\ minted \in 0..MaxSecrets
    /\ factors \in [Users -> FactorRow \cup {NoRow}]
    /\ requests \in [Requests -> Locals]
    /\ accepted \in [Secrets -> [Steps -> Nat]]

Init ==
    /\ now = 1
    /\ minted = 0
    /\ factors = [u \in Users |-> NoRow]
    /\ requests = [r \in Requests |-> Blank]
    /\ accepted = [s \in Secrets |-> [k \in Steps |-> 0]]

-----------------------------------------------------------------------------
At(r, label) == requests[r].pc = label
Return(r) == requests' = [requests EXCEPT ![r] = Blank]
Start(r, locals) == At(r, "idle") /\ requests' = [requests EXCEPT ![r] = locals]

Enrolled(u) == factors[u] # NoRow
Enabled(u) == Enrolled(u) /\ factors[u].enabled

\* matching_step: a code is good in its time step and in the two beside it.
Matches(step) == now <= step + 1 /\ step <= now + 1

-----------------------------------------------------------------------------
(* Mutants: steps below with one plausible mistake each.  No action of the *)
(* specification uses them; in the place of the action each is named after *)
(* they make a property of the run fail.                                   *)

\* Starts the steps anew, as enable does.
ConfirmResets(r) ==
    /\ At(r, "confirm")
    /\ LET u == requests[r].user IN
       factors' = IF Enrolled(u) THEN [factors EXCEPT ![u].enabled = TRUE, ![u].used = 0]
                  ELSE factors
    /\ Return(r)
    /\ UNCHANGED <<now, minted, accepted>>

\* Refuses only steps before the last one used.
SignInInclusive(r, u, step) ==
    /\ Enabled(u)
    /\ Matches(step)
    /\ step >= factors[u].used
    /\ Start(r, [Blank EXCEPT !.pc = "claim", !.user = u, !.id = factors[u].id,
                              !.secret = factors[u].secret, !.step = step,
                              !.seen = factors[u].used])
    /\ UNCHANGED <<now, minted, factors, accepted>>

-----------------------------------------------------------------------------
(* enable: a secret is minted, and stored in a row that is not enabled.    *)

\* An enrolment that is enabled is refused, and nothing changes.
Enable(r, u) ==
    /\ ~Enabled(u)
    /\ minted < MaxSecrets
    /\ minted' = minted + 1
    /\ Start(r, [Blank EXCEPT !.pc = IF Enrolled(u) THEN "replace" ELSE "create",
                              !.user = u, !.secret = minted + 1])
    /\ UNCHANGED <<now, factors, accepted>>

\* A second insert violates UNIQUE (user_id), and the request fails.
Create(r) ==
    /\ At(r, "create")
    /\ LET u == requests[r].user IN
       factors' = IF Enrolled(u) THEN factors
                  ELSE [factors EXCEPT ![u] = [id |-> requests[r].secret,
                                               secret |-> requests[r].secret,
                                               enabled |-> FALSE, used |-> 0]]
    /\ Return(r)
    /\ UNCHANGED <<now, minted, accepted>>

\* By user_id, whatever has become of the row; enabled is left as it is.
Replace(r) ==
    /\ At(r, "replace")
    /\ LET u == requests[r].user IN
       factors' = IF Enrolled(u)
                  THEN [factors EXCEPT ![u].secret = requests[r].secret, ![u].used = 0]
                  ELSE factors
    /\ Return(r)
    /\ UNCHANGED <<now, minted, accepted>>

-----------------------------------------------------------------------------
(* verify_enrollment and disable: a code of the row that is read; a write  *)
(* by user_id.                                                             *)

Verify(r, u, step) ==
    /\ Enrolled(u)
    /\ Matches(step)
    /\ Start(r, [Blank EXCEPT !.pc = "confirm", !.user = u])
    /\ UNCHANGED <<now, minted, factors, accepted>>

Confirm(r) ==
    /\ At(r, "confirm")
    /\ LET u == requests[r].user IN
       factors' = IF Enrolled(u) THEN [factors EXCEPT ![u].enabled = TRUE] ELSE factors
    /\ Return(r)
    /\ UNCHANGED <<now, minted, accepted>>

Disable(r, u, step) ==
    /\ Enabled(u)
    /\ Matches(step)
    /\ Start(r, [Blank EXCEPT !.pc = "delete", !.user = u])
    /\ UNCHANGED <<now, minted, factors, accepted>>

Delete(r) ==
    /\ At(r, "delete")
    /\ factors' = [factors EXCEPT ![requests[r].user] = NoRow]
    /\ Return(r)
    /\ UNCHANGED <<now, minted, accepted>>

-----------------------------------------------------------------------------
(* sign_in: the second step, with a challenge for the user.                *)

SignIn(r, u, step) ==
    /\ Enabled(u)
    /\ Matches(step)
    /\ step > factors[u].used
    /\ Start(r, [Blank EXCEPT !.pc = "claim", !.user = u, !.id = factors[u].id,
                              !.secret = factors[u].secret, !.step = step,
                              !.seen = factors[u].used])
    /\ UNCHANGED <<now, minted, factors, accepted>>

\* The update is guarded by the row's id, enabled and last_used_step.
Claim(r) ==
    /\ At(r, "claim")
    /\ LET q == requests[r] IN
       IF Enabled(q.user) /\ factors[q.user].id = q.id /\ factors[q.user].used = q.seen
       THEN /\ factors' = [factors EXCEPT ![q.user].used = q.step]
            /\ accepted' = [accepted EXCEPT ![q.secret][q.step] = @ + 1]
       ELSE UNCHANGED <<factors, accepted>>
    /\ Return(r)
    /\ UNCHANGED <<now, minted>>

Tick ==
    /\ now < MaxStep
    /\ now' = now + 1
    /\ UNCHANGED <<minted, factors, requests, accepted>>

-----------------------------------------------------------------------------
Next ==
    \/ \E r \in Requests :
         \/ \E u \in Users : Enable(r, u)
         \/ \E u \in Users, step \in Steps :
              Verify(r, u, step) \/ Disable(r, u, step) \/ SignIn(r, u, step)
         \/ Create(r) \/ Replace(r) \/ Confirm(r) \/ Delete(r) \/ Claim(r)
    \/ Tick

Spec == Init /\ [][Next]_vars

-----------------------------------------------------------------------------
\* The persisted step is the replay boundary: no step of a secret in force has been
\* accepted twice, however sign-ins race each other, re-enrolments and disable.
SingleUseInForce ==
    \A u \in Users : Enrolled(u) =>
      \A step \in Steps : accepted[factors[u].secret][step] <= 1

\* last_used_step never moves back under a secret ("cannot roll back to an older
\* adjacent-window step").
NeverRollsBack ==
    [][\A u \in Users :
          factors[u].id = factors'[u].id /\ factors[u].secret = factors'[u].secret
          => factors[u].used <= factors'[u].used]_vars

\* "An accepted TOTP time step is atomically single-use", of every secret.
SingleUse == \A s \in Secrets, step \in Steps : accepted[s][step] <= 1

(* The inductive invariant behind SingleUseInForce.                         *)

Minting(r) == requests[r].pc \in {"create", "replace"}
Holding(r) == Minting(r) \/ At(r, "claim")

\* A claim is of a later step than the one it read.
HandlersWellFormed ==
    \A r \in Requests :
      /\ ~At(r, "idle") => requests[r].user \in Users
      /\ Holding(r) => requests[r].secret \in 1..minted
      /\ At(r, "claim") => requests[r].seen < requests[r].step

\* A secret about to be stored is in no row and in no other handler's hands, and
\* nothing was accepted for it.
MintedAreFresh ==
    /\ \A s \in Secrets, k \in Steps : s > minted => accepted[s][k] = 0
    /\ \A r \in Requests : Minting(r) =>
         /\ \A k \in Steps : accepted[requests[r].secret][k] = 0
         /\ \A u \in Users : Enrolled(u) => factors[u].secret # requests[r].secret
         /\ \A q \in Requests : q # r /\ Holding(q) => requests[q].secret # requests[r].secret

\* A secret is one user's.
SecretsAreOwned ==
    \A u \in Users : Enrolled(u) =>
      /\ factors[u].secret \in 1..minted
      /\ \A v \in Users : v # u /\ Enrolled(v) => factors[u].secret # factors[v].secret
      /\ \A r \in Requests : At(r, "claim") /\ requests[r].user # u
                            => factors[u].secret # requests[r].secret

\* What was accepted of the secret in force is behind last_used_step.
AcceptedAreUsed ==
    \A u \in Users : Enrolled(u) =>
      \A k \in Steps : accepted[factors[u].secret][k] > 0 => k <= factors[u].used

IInv == /\ TypeOK
        /\ HandlersWellFormed
        /\ MintedAreFresh
        /\ SecretsAreOwned
        /\ AcceptedAreUsed
        /\ SingleUseInForce
=============================================================================
