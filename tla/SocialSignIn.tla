----------------------------- MODULE SocialSignIn ----------------------------
(***************************************************************************)
(* Sign-in with an external provider (src/src/hayate_auth/oauth.py): the   *)
(* callback finds the account of the provider's identity, or finds or      *)
(* creates the user it is linked to, and inserts a session.                *)
(*                                                                         *)
(* One action is one adapter call with the computation up to the next one. *)
(* sign_in_social stores nothing: its signed state cookie, the PKCE        *)
(* verifier in it and the exchange of the code only refuse callbacks.  The *)
(* email that a provider claims for an identity may change between two     *)
(* sign-ins; sign_up_email adds users meanwhile.                           *)
(***************************************************************************)
EXTENDS Naturals

CONSTANTS
    Callbacks,      \* the handlers that may run at the same time
    Identities,     \* (provider, subject) pairs
    Asserting,      \* those of providers with an id_token, which may assert an email
    Emails,
    MaxUsers        \* bound: users ever inserted

ASSUME SocialAssumption ==
    /\ Asserting \subseteq Identities
    /\ MaxUsers \in Nat
    /\ "none" \notin Emails \cup Identities

VARIABLES
    lastUser,   \* the newest row of table user
    emailOf,    \* its emails, which are UNIQUE
    creator,    \* history: the identity a user was created for, or NoIdentity
    links,      \* table account: the user of an identity, which is UNIQUE
    assertedAt, \* history: the email the provider asserted when the account was linked
    callbacks,  \* the handlers' program counters and local variables
    signedIn    \* history: the users that an identity was given sessions of

socialVars == <<lastUser, emailOf, creator, links, assertedAt, callbacks, signedIn>>

NoUser == 0
UserIds == 1..MaxUsers
NoEmail == "none"
NoIdentity == "none"
UserEmails == Emails \cup Identities

NotCalled == [pc |-> "idle"]
Called == [pc: {"account", "user", "create", "link", "session"}, identity: Identities,
           email: Emails \cup {NoEmail}, verified: BOOLEAN, user: UserIds \cup {NoUser}]

SocialTypeOK ==
    /\ lastUser \in 0..MaxUsers
    /\ emailOf \in [UserIds -> UserEmails \cup {NoEmail}]
    /\ creator \in [UserIds -> Identities \cup {NoIdentity}]
    /\ links \in [Identities -> UserIds \cup {NoUser}]
    /\ assertedAt \in [Identities -> Emails \cup {NoEmail}]
    /\ callbacks \in [Callbacks -> Called \cup {NotCalled}]
    /\ signedIn \in [Identities -> SUBSET UserIds]

SocialInit ==
    /\ lastUser = 0
    /\ emailOf = [u \in UserIds |-> NoEmail]
    /\ creator = [u \in UserIds |-> NoIdentity]
    /\ links = [i \in Identities |-> NoUser]
    /\ assertedAt = [i \in Identities |-> NoEmail]
    /\ callbacks = [c \in Callbacks |-> NotCalled]
    /\ signedIn = [i \in Identities |-> {}]

-----------------------------------------------------------------------------
Reached(c, label) == callbacks[c].pc = label
Goto(c, label, user) ==
    callbacks' = [callbacks EXCEPT ![c].pc = label, ![c].user = user]
Responds(c) == callbacks' = [callbacks EXCEPT ![c] = NotCalled]

Owns(u, e) == u <= lastUser /\ emailOf[u] = e
Taken(e) == \E u \in UserIds : Owns(u, e)
AddUser(e, i) ==
    /\ lastUser < MaxUsers
    /\ lastUser' = lastUser + 1
    /\ emailOf' = [emailOf EXCEPT ![lastUser + 1] = e]
    /\ creator' = [creator EXCEPT ![lastUser + 1] = i]

\* Without an email, the user gets one made of the identity (...@users.noreply.invalid).
EmailOf(callback) == IF callback.email = NoEmail THEN callback.identity ELSE callback.email

-----------------------------------------------------------------------------
(* Mutants: steps below with one plausible mistake each.  The specification *)
(* does not use them; in the place of what each is named after they make a  *)
(* property of the run fail.                                                *)

\* Takes the user whose email it is for the one that it meant to create.
CreateUserOrFind(c) ==
    /\ Reached(c, "create")
    /\ LET e == EmailOf(callbacks[c]) IN
       IF Taken(e)
       THEN /\ Goto(c, "link", CHOOSE u \in UserIds : Owns(u, e))
            /\ UNCHANGED <<lastUser, emailOf, creator>>
       ELSE AddUser(e, callbacks[c].identity) /\ Goto(c, "link", lastUser + 1)
    /\ UNCHANGED <<links, assertedAt, signedIn>>

\* Goes on when another callback has linked the identity.
LinkAccountOrNot(c) ==
    /\ Reached(c, "link")
    /\ LET i == callbacks[c].identity IN
       IF links[i] = NoUser
       THEN /\ links' = [links EXCEPT ![i] = callbacks[c].user]
            /\ assertedAt' = [assertedAt EXCEPT
                                ![i] = IF callbacks[c].verified THEN callbacks[c].email
                                       ELSE NoEmail]
       ELSE UNCHANGED <<links, assertedAt>>
    /\ Goto(c, "session", callbacks[c].user)
    /\ UNCHANGED <<lastUser, emailOf, creator, signedIn>>

-----------------------------------------------------------------------------
\* sign_up_email inserts a user (Accounts).
SignUpEmail(e) ==
    /\ ~Taken(e)
    /\ AddUser(e, NoIdentity)
    /\ UNCHANGED <<links, assertedAt, callbacks, signedIn>>

\* _exchange: only an id_token asserts an email; what GitHub's userinfo says of one counts
\* as unverified.
MayAssert(i, verified) == verified => i \in Asserting

\* oauth_callback: the state is good, and the code was exchanged for the identity.
Callback(c, i, e, verified) ==
    /\ Reached(c, "idle")
    /\ MayAssert(i, verified)
    /\ callbacks' = [callbacks EXCEPT ![c] = [pc |-> "account", identity |-> i, email |-> e,
                                              verified |-> verified, user |-> NoUser]]
    /\ UNCHANGED <<lastUser, emailOf, creator, links, assertedAt, signedIn>>

FindAccount(c) ==
    /\ Reached(c, "account")
    /\ LET u == links[callbacks[c].identity] IN
       IF u # NoUser THEN Goto(c, "session", u)
       ELSE Goto(c, IF callbacks[c].email = NoEmail THEN "create" ELSE "user", NoUser)
    /\ UNCHANGED <<lastUser, emailOf, creator, links, assertedAt, signedIn>>

\* Only a verified email finds the identity a user that is there already.
FindUser(c) ==
    /\ Reached(c, "user")
    /\ IF ~Taken(callbacks[c].email) THEN Goto(c, "create", NoUser)
       ELSE IF callbacks[c].verified
       THEN \E u \in UserIds : Owns(u, callbacks[c].email) /\ Goto(c, "link", u)
       ELSE Responds(c)
    /\ UNCHANGED <<lastUser, emailOf, creator, links, assertedAt, signedIn>>

\* A second insert violates UNIQUE (email), and the callback fails.
CreateUser(c) ==
    /\ Reached(c, "create")
    /\ LET e == EmailOf(callbacks[c]) IN
       IF Taken(e) THEN Responds(c) /\ UNCHANGED <<lastUser, emailOf, creator>>
       ELSE AddUser(e, callbacks[c].identity) /\ Goto(c, "link", lastUser + 1)
    /\ UNCHANGED <<links, assertedAt, signedIn>>

\* A second insert violates UNIQUE (provider_id, account_id), and the callback fails.
LinkAccount(c) ==
    /\ Reached(c, "link")
    /\ LET i == callbacks[c].identity IN
       IF links[i] # NoUser THEN Responds(c) /\ UNCHANGED <<links, assertedAt>>
       ELSE /\ links' = [links EXCEPT ![i] = callbacks[c].user]
            /\ assertedAt' = [assertedAt EXCEPT
                                ![i] = IF callbacks[c].verified THEN callbacks[c].email
                                       ELSE NoEmail]
            /\ Goto(c, "session", callbacks[c].user)
    /\ UNCHANGED <<lastUser, emailOf, creator, signedIn>>

StartSession(c) ==
    /\ Reached(c, "session")
    /\ signedIn' = [signedIn EXCEPT ![callbacks[c].identity] = @ \cup {callbacks[c].user}]
    /\ Responds(c)
    /\ UNCHANGED <<lastUser, emailOf, creator, links, assertedAt>>

\* The adapter raises, or the worker dies: what was inserted stays.
CallbackFails(c) ==
    /\ ~Reached(c, "idle")
    /\ Responds(c)
    /\ UNCHANGED <<lastUser, emailOf, creator, links, assertedAt, signedIn>>

SocialNext ==
    \/ \E e \in Emails : SignUpEmail(e)
    \/ \E c \in Callbacks, i \in Identities, e \in Emails \cup {NoEmail}, v \in BOOLEAN :
          Callback(c, i, e, v)
    \/ \E c \in Callbacks :
          FindAccount(c) \/ FindUser(c) \/ CreateUser(c) \/ LinkAccount(c) \/ StartSession(c)
          \/ CallbackFails(c)

SocialSpec == SocialInit /\ [][SocialNext]_socialVars

-----------------------------------------------------------------------------
\* An identity signs in to one user for ever, whatever email its provider claims for it
\* and whichever of several callbacks links it.
IdentitiesKeepTheirUser ==
    \A i \in Identities : signedIn[i] \subseteq {links[i]} \ {NoUser}

\* An unverified email links nothing: an identity is linked to the user made for it, or
\* to the one whose email its provider had asserted at that moment.
LinksAreAsserted ==
    \A i \in Identities :
       links[i] # NoUser =>
          creator[links[i]] = i \/ emailOf[links[i]] = assertedAt[i]

=============================================================================
