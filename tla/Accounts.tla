------------------------------- MODULE Accounts -------------------------------
(***************************************************************************)
(* Email and password accounts of hayate-auth (src/src/hayate_auth/        *)
(* routes.py), the one-shot tokens they mail out (verification.py) and the *)
(* magic links that share them (plugins/magic_link.py).                    *)
(*                                                                         *)
(* One action is one adapter call with the computation up to the next one. *)
(* No endpoint deletes a user, so a find_one of a user that succeeded      *)
(* stays true and is part of the action before or after it.  A row of      *)
(* "user" is addressed by its email, which is UNIQUE and never changes.    *)
(***************************************************************************)
EXTENDS Naturals, FiniteSets

CONSTANTS
    Requests,       \* the handlers that may run at the same time
    Emails,
    Passwords,
    NoPassword,     \* no row in account, or no password_hash in it
    MaxTokens,      \* bound: verification rows ever inserted
    MaxSessions     \* bound: session rows ever inserted

ASSUME AccountsAssumption ==
    /\ NoPassword \notin Passwords
    /\ MaxTokens \in Nat
    /\ MaxSessions \in Nat

Tokens == 1..MaxTokens
SessionIds == 1..MaxSessions
None == 0

Kinds == {"reset", "verify", "magic"}
Labels == {"idle", "user", "account", "mail", "insert",     \* sign-up
           "password", "factor",                            \* sign-in
           "consume", "reset", "sweep", "confirm",          \* the links of mails
           "find", "create", "mark",                        \* magic links
           "current", "change", "others"}                   \* change-password

VARIABLES
    users,          \* table user: whether the row is there, and email_verified
    accounts,       \* table account: the password of the credential account
    factor,         \* whether the row of two_factor is enabled
    verifications,  \* table verification
    sessions,       \* table session
    requests,       \* the handlers' program counters and local variables
    honoured        \* history: how often a token was accepted

vars == <<users, accounts, factor, verifications, sessions, requests, honoured>>

NoVerification == [status |-> "absent", kind |-> "reset", email |-> None, expired |-> FALSE]
NoSession == [status |-> "absent", email |-> None, bypass |-> FALSE]
Blank == [pc |-> "idle", email |-> None, password |-> NoPassword, new |-> NoPassword,
          token |-> None, kind |-> "reset", session |-> None, others |-> FALSE,
          strict |-> FALSE]

AnyEmail == Emails \cup {None}
AnyPassword == Passwords \cup {NoPassword}

VerificationRow == [status: {"absent", "stored", "deleted"}, kind: Kinds, email: AnyEmail,
                    expired: BOOLEAN]
\* bypass is history: a password alone earned the session, though the second factor
\* was on from before the sign-in began.
SessionRow == [status: {"absent", "stored", "deleted"}, email: AnyEmail, bypass: BOOLEAN]
\* strict is history: the second factor has been on since the request began.
Locals == [pc: Labels, email: AnyEmail, password: AnyPassword, new: AnyPassword,
           token: Tokens \cup {None}, kind: Kinds, session: SessionIds \cup {None},
           others: BOOLEAN, strict: BOOLEAN]

TypeOK ==
    /\ users \in [Emails -> {"absent", "unverified", "verified"}]
    /\ accounts \in [Emails -> AnyPassword]
    /\ factor \in [Emails -> BOOLEAN]
    /\ verifications \in [Tokens -> VerificationRow]
    /\ sessions \in [SessionIds -> SessionRow]
    /\ requests \in [Requests -> Locals]
    /\ honoured \in [Tokens -> Nat]

Init ==
    /\ users = [e \in Emails |-> "absent"]
    /\ accounts = [e \in Emails |-> NoPassword]
    /\ factor = [e \in Emails |-> FALSE]
    /\ verifications = [t \in Tokens |-> NoVerification]
    /\ sessions = [s \in SessionIds |-> NoSession]
    /\ requests = [r \in Requests |-> Blank]
    /\ honoured = [t \in Tokens |-> 0]

-----------------------------------------------------------------------------
At(r, label) == requests[r].pc = label
Goto(r, label) == requests' = [requests EXCEPT ![r].pc = label]
Return(r) == requests' = [requests EXCEPT ![r] = Blank]

Registered(e) == users[e] # "absent"
Mailed(t) == verifications[t].status = "stored"
Stored(s) == sessions[s].status = "stored"

IsNextToken(t) == /\ verifications[t].status = "absent"
                  /\ \A u \in Tokens : u < t => verifications[u].status # "absent"
IsNextSession(s) == /\ sessions[s].status = "absent"
                    /\ \A u \in SessionIds : u < s => sessions[u].status # "absent"

\* Bounds: a request is let in only if the instance has a row left for it.
UsedTokens == Cardinality({t \in Tokens : verifications[t].status # "absent"})
                + Cardinality({r \in Requests : requests[r].pc \in {"user", "account", "mail"}})
TokenRoom == UsedTokens < MaxTokens
SigningIn(r) ==
    \/ requests[r].pc \in {"user", "account", "mail", "insert", "password", "factor",
                          "find", "create", "mark"}
    \/ At(r, "consume") /\ requests[r].kind = "magic"
SessionRoom ==
    Cardinality({s \in SessionIds : sessions[s].status # "absent"})
      + Cardinality({r \in Requests : SigningIn(r)}) < MaxSessions

\* create_verification
CreateVerification(kind, e) ==
    \E t \in Tokens :
      /\ IsNextToken(t)
      /\ verifications' = [verifications EXCEPT ![t] =
                             [status |-> "stored", kind |-> kind, email |-> e,
                              expired |-> FALSE]]

\* Mutant: marks the rows with a status that nobody looks at.
DeleteSessionsSoft(S) ==
    sessions' = [s \in SessionIds |->
                   IF s \in S /\ Stored(s) THEN [sessions[s] EXCEPT !.status = "revoked"]
                                           ELSE sessions[s]]

\* adapter.delete("session", ...) of the rows S, as far as they are stored
DeleteSessions(S) ==
    sessions' = [s \in SessionIds |->
                   IF s \in S /\ Stored(s) THEN [sessions[s] EXCEPT !.status = "deleted"]
                                           ELSE sessions[s]]

SessionsOf(e) == {s \in SessionIds : sessions[s].email = e}

-----------------------------------------------------------------------------
(* Mutants: steps below with one plausible mistake each.  No action of the *)
(* specification uses them; in the place of the action each is named after *)
(* they make a property of the run fail.                                   *)

\* Goes on to the session whatever the second factor says.
CheckFactorSkipped(r) ==
    /\ At(r, "factor")
    /\ Goto(r, "insert")
    /\ UNCHANGED <<users, accounts, factor, verifications, sessions, honoured>>

\* Ignores the prefix of the token's identifier.
FollowAnyKind(r, t, kind, new) ==
    /\ At(r, "idle")
    /\ Mailed(t)
    /\ kind = "magic" => SessionRoom
    /\ requests' = [requests EXCEPT ![r] = [Blank EXCEPT !.pc = "consume", !.token = t,
                                                         !.kind = kind, !.new = new,
                                                         !.email = verifications[t].email]]
    /\ UNCHANGED <<users, accounts, factor, verifications, sessions, honoured>>

\* Deletes the row only when it has expired.
ConsumeExpiredOnly(r) ==
    /\ At(r, "consume")
    /\ LET t == requests[r].token IN
       IF verifications[t].expired
       THEN /\ verifications' = [verifications EXCEPT ![t].status = "deleted"]
            /\ Return(r)
            /\ UNCHANGED honoured
       ELSE /\ Goto(r, CASE requests[r].kind = "reset" -> "reset"
                         [] requests[r].kind = "verify" -> "confirm"
                         [] requests[r].kind = "magic" -> "find")
            /\ honoured' = [honoured EXCEPT ![t] = @ + 1]
            /\ UNCHANGED verifications
    /\ UNCHANGED <<users, accounts, factor, sessions>>

\* Answers without ending the sessions.
ResetOnly(r) ==
    /\ At(r, "reset")
    /\ LET e == requests[r].email IN
       accounts' = IF accounts[e] = NoPassword THEN accounts
                   ELSE [accounts EXCEPT ![e] = requests[r].new]
    /\ Return(r)
    /\ UNCHANGED <<users, factor, verifications, sessions, honoured>>

\* Leaves email_verified at its default.
CreateUnverified(r) ==
    /\ At(r, "create")
    /\ IF Registered(requests[r].email)
       THEN Return(r) /\ UNCHANGED users
       ELSE /\ users' = [users EXCEPT ![requests[r].email] = "unverified"]
            /\ Goto(r, "insert")
    /\ UNCHANGED <<accounts, factor, verifications, sessions, honoured>>

-----------------------------------------------------------------------------
(* Sign-up: the row of the user, the account, the mail, the session.       *)

\* An email that is taken is refused, and nothing changes.
SignUp(r, e, password) ==
    /\ At(r, "idle")
    /\ ~Registered(e)
    /\ TokenRoom /\ SessionRoom
    /\ requests' = [requests EXCEPT ![r] = [Blank EXCEPT !.pc = "user", !.email = e,
                                                         !.password = password]]
    /\ UNCHANGED <<users, accounts, factor, verifications, sessions, honoured>>

\* A second insert violates UNIQUE (email), and the request fails.
CreateUser(r) ==
    /\ At(r, "user")
    /\ IF Registered(requests[r].email)
       THEN Return(r) /\ UNCHANGED users
       ELSE /\ users' = [users EXCEPT ![requests[r].email] = "unverified"]
            /\ Goto(r, "account")
    /\ UNCHANGED <<accounts, factor, verifications, sessions, honoured>>

CreateAccount(r) ==
    /\ At(r, "account")
    /\ accounts' = [accounts EXCEPT ![requests[r].email] = requests[r].password]
    /\ Goto(r, "mail")
    /\ UNCHANGED <<users, factor, verifications, sessions, honoured>>

Mail(r) ==
    /\ At(r, "mail")
    /\ CreateVerification("verify", requests[r].email)
    /\ Goto(r, "insert")
    /\ UNCHANGED <<users, accounts, factor, sessions, honoured>>

\* _issue_session
Insert(r) ==
    /\ At(r, "insert")
    /\ \E s \in SessionIds :
         /\ IsNextSession(s)
         /\ sessions' = [sessions EXCEPT ![s] =
                           [status |-> "stored", email |-> requests[r].email,
                            bypass |-> requests[r].strict]]
    /\ Return(r)
    /\ UNCHANGED <<users, accounts, factor, verifications, honoured>>

-----------------------------------------------------------------------------
(* Sign-in: the user, the account and its password, the second factor.     *)

SignIn(r, e, password) ==
    /\ At(r, "idle")
    /\ Registered(e)
    /\ SessionRoom
    /\ requests' = [requests EXCEPT ![r] = [Blank EXCEPT !.pc = "password", !.email = e,
                                                         !.password = password,
                                                         !.strict = factor[e]]]
    /\ UNCHANGED <<users, accounts, factor, verifications, sessions, honoured>>

CheckPassword(r) ==
    /\ At(r, "password")
    /\ IF accounts[requests[r].email] = requests[r].password
       THEN Goto(r, "factor")
       ELSE Return(r)
    /\ UNCHANGED <<users, accounts, factor, verifications, sessions, honoured>>

\* With the second factor on the answer is a challenge instead of a session.
CheckFactor(r) ==
    /\ At(r, "factor")
    /\ IF factor[requests[r].email] THEN Return(r) ELSE Goto(r, "insert")
    /\ UNCHANGED <<users, accounts, factor, verifications, sessions, honoured>>

-----------------------------------------------------------------------------
(* Mails.  Their tokens are found by hash and the endpoint's prefix.       *)

ForgetPassword(e) ==
    /\ Registered(e)
    /\ TokenRoom
    /\ CreateVerification("reset", e)
    /\ UNCHANGED <<users, accounts, factor, sessions, requests, honoured>>

\* The email of a magic link need not be registered.
RequestLink(e) ==
    /\ TokenRoom
    /\ CreateVerification("magic", e)
    /\ UNCHANGED <<users, accounts, factor, sessions, requests, honoured>>

TokenExpires(t) ==
    /\ verifications[t].status # "absent"
    /\ ~verifications[t].expired
    /\ verifications' = [verifications EXCEPT ![t].expired = TRUE]
    /\ UNCHANGED <<users, accounts, factor, sessions, requests, honoured>>

\* A token that is not there, or of another kind, is refused, and nothing changes.
Follow(r, t, kind, new) ==
    /\ At(r, "idle")
    /\ Mailed(t)
    /\ verifications[t].kind = kind
    /\ kind = "magic" => SessionRoom
    /\ requests' = [requests EXCEPT ![r] = [Blank EXCEPT !.pc = "consume", !.token = t,
                                                         !.kind = kind, !.new = new,
                                                         !.email = verifications[t].email]]
    /\ UNCHANGED <<users, accounts, factor, verifications, sessions, honoured>>

Honoured(kind) ==
    CASE kind = "reset" -> "reset" [] kind = "verify" -> "confirm" [] kind = "magic" -> "find"

\* The row is deleted, whoever deleted it before, and the expiry looked at after.
Consume(r) ==
    /\ At(r, "consume")
    /\ LET t == requests[r].token IN
       /\ verifications' = [verifications EXCEPT ![t].status = "deleted"]
       /\ IF verifications[t].expired
          THEN Return(r) /\ UNCHANGED honoured
          ELSE /\ Goto(r, Honoured(requests[r].kind))
               /\ honoured' = [honoured EXCEPT ![t] = @ + 1]
    /\ UNCHANGED <<users, accounts, factor, sessions>>

\* reset_password: an update that finds no account changes nothing.
Reset(r) ==
    /\ At(r, "reset")
    /\ LET e == requests[r].email IN
       accounts' = IF accounts[e] = NoPassword THEN accounts
                   ELSE [accounts EXCEPT ![e] = requests[r].new]
    /\ Goto(r, "sweep")
    /\ UNCHANGED <<users, factor, verifications, sessions, honoured>>

Sweep(r) ==
    /\ At(r, "sweep")
    /\ DeleteSessions(SessionsOf(requests[r].email))
    /\ Return(r)
    /\ UNCHANGED <<users, accounts, factor, verifications, honoured>>

\* verify_email
Confirm(r) ==
    /\ At(r, "confirm")
    /\ users' = [users EXCEPT ![requests[r].email] = "verified"]
    /\ Return(r)
    /\ UNCHANGED <<accounts, factor, verifications, sessions, honoured>>

\* A magic link signs in the user of its email, which it creates or marks as verified.
FindUser(r) ==
    /\ At(r, "find")
    /\ Goto(r, CASE users[requests[r].email] = "absent" -> "create"
                 [] users[requests[r].email] = "unverified" -> "mark"
                 [] users[requests[r].email] = "verified" -> "insert")
    /\ UNCHANGED <<users, accounts, factor, verifications, sessions, honoured>>

CreateVerified(r) ==
    /\ At(r, "create")
    /\ IF Registered(requests[r].email)
       THEN Return(r) /\ UNCHANGED users
       ELSE /\ users' = [users EXCEPT ![requests[r].email] = "verified"]
            /\ Goto(r, "insert")
    /\ UNCHANGED <<accounts, factor, verifications, sessions, honoured>>

MarkVerified(r) ==
    /\ At(r, "mark")
    /\ users' = [users EXCEPT ![requests[r].email] = "verified"]
    /\ Goto(r, "insert")
    /\ UNCHANGED <<accounts, factor, verifications, sessions, honoured>>

-----------------------------------------------------------------------------
(* change_password, with the session that resolve_session accepted.        *)

Change(r, s, password, new, others) ==
    /\ At(r, "idle")
    /\ Stored(s)
    /\ requests' = [requests EXCEPT ![r] = [Blank EXCEPT !.pc = "current", !.session = s,
                                                         !.email = sessions[s].email,
                                                         !.password = password,
                                                         !.new = new, !.others = others]]
    /\ UNCHANGED <<users, accounts, factor, verifications, sessions, honoured>>

CheckCurrent(r) ==
    /\ At(r, "current")
    /\ IF accounts[requests[r].email] = requests[r].password
       THEN Goto(r, "change")
       ELSE Return(r)
    /\ UNCHANGED <<users, accounts, factor, verifications, sessions, honoured>>

\* The policy has been asked in between; the update is by the account's id alone.
ChangePassword(r) ==
    /\ At(r, "change")
    /\ accounts' = [accounts EXCEPT ![requests[r].email] = requests[r].new]
    /\ IF requests[r].others THEN Goto(r, "others") ELSE Return(r)
    /\ UNCHANGED <<users, factor, verifications, sessions, honoured>>

RevokeOthers(r) ==
    /\ At(r, "others")
    /\ DeleteSessions(SessionsOf(requests[r].email) \ {requests[r].session})
    /\ Return(r)
    /\ UNCHANGED <<users, accounts, factor, verifications, honoured>>

-----------------------------------------------------------------------------
(* The second factor is turned on and off by the endpoints of TwoFactor.   *)

EnableFactor(e) ==
    /\ Registered(e)
    /\ ~factor[e]
    /\ factor' = [factor EXCEPT ![e] = TRUE]
    /\ UNCHANGED <<users, accounts, verifications, sessions, requests, honoured>>

DisableFactor(e) ==
    /\ factor[e]
    /\ factor' = [factor EXCEPT ![e] = FALSE]
    /\ requests' = [r \in Requests |->
                      IF requests[r].email = e THEN [requests[r] EXCEPT !.strict = FALSE]
                                               ELSE requests[r]]
    /\ UNCHANGED <<users, accounts, verifications, sessions, honoured>>

-----------------------------------------------------------------------------
Handler(r) ==
    \/ CreateUser(r) \/ CreateAccount(r) \/ Mail(r) \/ Insert(r)
    \/ CheckPassword(r) \/ CheckFactor(r)
    \/ Consume(r) \/ Reset(r) \/ Sweep(r) \/ Confirm(r)
    \/ FindUser(r) \/ CreateVerified(r) \/ MarkVerified(r)
    \/ CheckCurrent(r) \/ ChangePassword(r) \/ RevokeOthers(r)

Arrival(r) ==
    \/ \E e \in Emails, p \in Passwords : SignUp(r, e, p) \/ SignIn(r, e, p)
    \/ \E t \in Tokens, new \in Passwords : Follow(r, t, "reset", new)
    \/ \E t \in Tokens, kind \in {"verify", "magic"} : Follow(r, t, kind, NoPassword)
    \/ \E s \in SessionIds, p, new \in Passwords, others \in BOOLEAN :
         Change(r, s, p, new, others)

Next ==
    \/ \E r \in Requests : Arrival(r) \/ Handler(r)
    \/ \E e \in Emails : ForgetPassword(e) \/ RequestLink(e)
                         \/ EnableFactor(e) \/ DisableFactor(e)
    \/ \E t \in Tokens : TokenExpires(t)

Spec == Init /\ [][Next]_vars

-----------------------------------------------------------------------------
\* A password never signs in alone while the second factor is on ("Password success
\* alone cannot create a session when TOTP is enabled"): no session was earned by a
\* sign-in during all of which the factor was on.
SecondFactorIsAsked == \A s \in SessionIds : ~sessions[s].bypass

\* An email counts as verified only after a token for that purpose, mailed to it, was
\* accepted ("a reset token can never pass as an email-verification token").
EmailsAreProven ==
    \A e \in Emails :
      users[e] = "verified" => \E t \in Tokens : /\ verifications[t].email = e
                                                /\ verifications[t].kind # "reset"
                                                /\ honoured[t] > 0

\* Whoever is signed in can sign in again: the user of a session has a password or a
\* verified email, wherever a sign-up stopped.
SessionsHaveCredentials ==
    \A s \in SessionIds :
      Stored(s) => LET e == sessions[s].email IN
                   Registered(e) /\ (accounts[e] # NoPassword \/ users[e] = "verified")

\* A token that was accepted is refused to every request that arrives later.
AcceptedIsGone ==
    [][\A r \in Requests :
          At(r, "idle") /\ requests'[r].token # None => honoured[requests'[r].token] = 0]_vars

\* When a reset is answered, no session of the user is left from before ("Password reset
\* terminates every active session for the user").
ResetTerminatesSessions ==
    [][\A r \in Requests :
          requests[r].pc \in {"reset", "sweep"} /\ requests'[r].pc = "idle"
          => \A s \in SessionsOf(requests[r].email) : sessions'[s].status # "stored"]_vars

\* "One-shot verification tokens": a token is accepted at most once.
OneShot == \A t \in Tokens : honoured[t] <= 1
=============================================================================
