-------------------------- MODULE Credentials_proofs --------------------------
(***************************************************************************)
(* The components of MCCredentials: social sign-in, passkeys and API keys, *)
(* for every value of their constants, and their composition with the      *)
(* second factor of TwoFactor_proofs.                                      *)
(***************************************************************************)
EXTENDS MCCredentials, TwoFactor_proofs, TLAPS

-----------------------------------------------------------------------------
(* An identity of an external provider signs in to one user for ever, and  *)
(* is linked to no user on the word of an unverified email, for any number *)
(* of callbacks, identities, emails and users.                             *)

USE SocialAssumption

\* The user that an identity may be linked to: made for it, or of its asserted email.
MayLink(u, i, email, verified) == creator[u] = i \/ (verified /\ emailOf[u] = email)

\* What a suspended callback knows of its identity and user stays true.
CallbackKnows(x) ==
    /\ x.pc = "link" =>
          x.user \in 1..lastUser /\ MayLink(x.user, x.identity, x.email, x.verified)
    /\ x.pc = "session" => x.user = links[x.identity] /\ x.user # NoUser
CallbacksKnow == \A c \in Callbacks : CallbackKnows(callbacks[c])

LinkedUsersExist == \A i \in Identities : links[i] # NoUser => links[i] \in 1..lastUser

SocialInv ==
    /\ SocialTypeOK /\ CallbacksKnow /\ LinkedUsersExist
    /\ IdentitiesKeepTheirUser /\ LinksAreAsserted

-----------------------------------------------------------------------------
(* Callbacks.                                                              *)

LEMMA CalledFacts ==
  ASSUME SocialTypeOK, NEW c \in Callbacks, ~Reached(c, "idle")
  PROVE  /\ callbacks[c] \in Called
         /\ callbacks[c].identity \in Identities
         /\ callbacks[c].email \in Emails \cup {NoEmail}
         /\ callbacks[c].verified \in BOOLEAN
         /\ callbacks[c].user \in UserIds \cup {NoUser}
  BY DEF SocialTypeOK, Reached, NotCalled, Called

LEMMA OneCallback ==
  ASSUME SocialTypeOK, NEW c \in Callbacks, NEW x \in Called \cup {NotCalled},
         callbacks' = [callbacks EXCEPT ![c] = x]
  PROVE  /\ callbacks' \in [Callbacks -> Called \cup {NotCalled}]
         /\ callbacks'[c] = x
         /\ \A d \in Callbacks : d # c => callbacks'[d] = callbacks[d]
  BY DEF SocialTypeOK

LEMMA CallbackGoes ==
  ASSUME SocialTypeOK, NEW c \in Callbacks, ~Reached(c, "idle"),
         NEW label \in {"user", "create", "link", "session"},
         NEW u \in UserIds \cup {NoUser}, Goto(c, label, u)
  PROVE  /\ callbacks' \in [Callbacks -> Called \cup {NotCalled}]
         /\ callbacks'[c].pc = label /\ callbacks'[c].user = u
         /\ callbacks'[c].identity = callbacks[c].identity
         /\ callbacks'[c].email = callbacks[c].email
         /\ callbacks'[c].verified = callbacks[c].verified
         /\ \A d \in Callbacks : d # c => callbacks'[d] = callbacks[d]
<1> DEFINE x == [callbacks[c] EXCEPT !.pc = label, !.user = u]
<1>1. callbacks[c] \in Called
  BY CalledFacts
<1>2. /\ x \in Called /\ x.pc = label /\ x.user = u
      /\ x.identity = callbacks[c].identity
      /\ x.email = callbacks[c].email /\ x.verified = callbacks[c].verified
  BY <1>1 DEF Called
<1>3. callbacks' = [callbacks EXCEPT ![c] = x]
  BY DEF Goto, SocialTypeOK
<1> HIDE DEF x
<1> QED
  BY <1>2, <1>3, OneCallback

LEMMA CallbackReturns ==
  ASSUME SocialTypeOK, NEW c \in Callbacks, Responds(c)
  PROVE  /\ callbacks' \in [Callbacks -> Called \cup {NotCalled}]
         /\ callbacks'[c].pc = "idle"
         /\ \A d \in Callbacks : d # c => callbacks'[d] = callbacks[d]
  BY OneCallback DEF Responds, NotCalled

\* A callback that moves on while no table changes.
LEMMA CallbackMovesOn ==
  ASSUME SocialInv, NEW c \in Callbacks,
         callbacks' \in [Callbacks -> Called \cup {NotCalled}],
         \A d \in Callbacks : d # c => callbacks'[d] = callbacks[d],
         NEW x, x = callbacks'[c], CallbackKnows(x),
         UNCHANGED <<lastUser, emailOf, creator, links, assertedAt, signedIn>>
  PROVE  SocialInv'
<1> USE DEF SocialInv
<1>1. SocialTypeOK'
  BY DEF SocialTypeOK
<1>2. CallbacksKnow'
  BY DEF CallbacksKnow, CallbackKnows, MayLink
<1>3. LinkedUsersExist' /\ IdentitiesKeepTheirUser' /\ LinksAreAsserted'
  BY DEF LinkedUsersExist, IdentitiesKeepTheirUser, LinksAreAsserted
<1> QED
  BY <1>1, <1>2, <1>3

-----------------------------------------------------------------------------
(* The table of users.                                                     *)

\* A new user is nobody's yet: what is known of the others stays.
LEMMA UserAdded ==
  ASSUME SocialInv, NEW e \in UserEmails, NEW i \in Identities \cup {NoIdentity}, AddUser(e, i),
         UNCHANGED <<links, assertedAt, signedIn>>
  PROVE  /\ lastUser' \in 0..MaxUsers /\ lastUser' = lastUser + 1 /\ lastUser' \in UserIds
         /\ emailOf' \in [UserIds -> UserEmails \cup {NoEmail}]
         /\ creator' \in [UserIds -> Identities \cup {NoIdentity}]
         /\ creator'[lastUser'] = i
         /\ \A u \in 1..lastUser : /\ u \in 1..lastUser'
                                   /\ emailOf'[u] = emailOf[u] /\ creator'[u] = creator[u]
         /\ LinkedUsersExist' /\ IdentitiesKeepTheirUser' /\ LinksAreAsserted'
<1> USE DEF SocialInv
<1>1. lastUser \in Nat /\ lastUser < MaxUsers /\ lastUser' = lastUser + 1 /\ MaxUsers \in Nat
  BY DEF AddUser, SocialTypeOK
<1>2. lastUser' \in 0..MaxUsers /\ lastUser' \in UserIds
  BY <1>1 DEF UserIds
<1>3. /\ emailOf' = [emailOf EXCEPT ![lastUser'] = e]
      /\ creator' = [creator EXCEPT ![lastUser'] = i]
  BY <1>1 DEF AddUser
<1>4. /\ emailOf' \in [UserIds -> UserEmails \cup {NoEmail}]
      /\ creator' \in [UserIds -> Identities \cup {NoIdentity}]
      /\ creator'[lastUser'] = i
  BY <1>2, <1>3 DEF SocialTypeOK
<1>5. \A u \in 1..lastUser : /\ u \in 1..lastUser' /\ u \in UserIds /\ u # lastUser'
  BY <1>1 DEF UserIds
<1>6. \A u \in 1..lastUser : emailOf'[u] = emailOf[u] /\ creator'[u] = creator[u]
  BY <1>3, <1>5 DEF SocialTypeOK
<1>7. LinkedUsersExist' /\ IdentitiesKeepTheirUser'
  BY <1>5 DEF LinkedUsersExist, IdentitiesKeepTheirUser
<1>8. LinksAreAsserted'
  BY <1>6 DEF LinksAreAsserted, LinkedUsersExist
<1> QED
  BY <1>1, <1>2, <1>4, <1>5, <1>6, <1>7, <1>8

\* What a callback knew before a user was added it knows after.
LEMMA CallbackKnowledgeStays ==
  ASSUME SocialInv, NEW d \in Callbacks, callbacks'[d] = callbacks[d],
         \A u \in 1..lastUser : /\ u \in 1..lastUser'
                                /\ emailOf'[u] = emailOf[u] /\ creator'[u] = creator[u],
         UNCHANGED links
  PROVE  CallbackKnows(callbacks[d])'
  BY DEF SocialInv, CallbacksKnow, CallbackKnows, MayLink

LEMMA SignUpStep ==
  ASSUME SocialInv, NEW e \in Emails, SignUpEmail(e)
  PROVE  SocialInv'
<1> USE DEF SocialInv
<1>1. AddUser(e, NoIdentity) /\ UNCHANGED <<links, assertedAt, callbacks, signedIn>>
  BY DEF SignUpEmail
<1>2. e \in UserEmails
  BY DEF UserEmails
<1>3. /\ SocialTypeOK'
      /\ LinkedUsersExist' /\ IdentitiesKeepTheirUser' /\ LinksAreAsserted'
  BY <1>1, <1>2, UserAdded DEF SocialTypeOK
<1>4. \A u \in 1..lastUser : /\ u \in 1..lastUser'
                             /\ emailOf'[u] = emailOf[u] /\ creator'[u] = creator[u]
  BY <1>1, <1>2, UserAdded
<1>5. CallbacksKnow'
  BY <1>1, <1>4, CallbackKnowledgeStays DEF CallbacksKnow
<1> QED
  BY <1>3, <1>5

LEMMA CreateUserStep ==
  ASSUME SocialInv, NEW c \in Callbacks, CreateUser(c)
  PROVE  SocialInv'
<1> DEFINE e == EmailOf(callbacks[c])
           i == callbacks[c].identity
<1> USE DEF SocialInv
<1>1. ~Reached(c, "idle") /\ UNCHANGED <<links, assertedAt, signedIn>>
  BY DEF CreateUser, Reached
<1>2. e \in UserEmails /\ i \in Identities
  BY <1>1, CalledFacts DEF EmailOf, UserEmails
<1>3. Taken(e) => Responds(c) /\ UNCHANGED <<lastUser, emailOf, creator>>
  BY DEF CreateUser
<1>4. ~Taken(e) => AddUser(e, i) /\ Goto(c, "link", lastUser + 1)
  BY DEF CreateUser
<1> HIDE DEF e
<1>5. CASE Taken(e)
  BY <1>1, <1>3, <1>5, CallbackReturns, CallbackMovesOn DEF CallbackKnows
<1>6. CASE ~Taken(e)
  <2>1. AddUser(e, i) /\ Goto(c, "link", lastUser + 1)
    BY <1>4, <1>6
  <2>2. /\ lastUser' \in 0..MaxUsers /\ lastUser' = lastUser + 1 /\ lastUser' \in UserIds
        /\ emailOf' \in [UserIds -> UserEmails \cup {NoEmail}]
        /\ creator' \in [UserIds -> Identities \cup {NoIdentity}]
        /\ creator'[lastUser'] = i
        /\ \A u \in 1..lastUser : /\ u \in 1..lastUser'
                                  /\ emailOf'[u] = emailOf[u] /\ creator'[u] = creator[u]
        /\ LinkedUsersExist' /\ IdentitiesKeepTheirUser' /\ LinksAreAsserted'
    BY <1>1, <1>2, <2>1, UserAdded
  <2>3. /\ callbacks' \in [Callbacks -> Called \cup {NotCalled}]
        /\ callbacks'[c].pc = "link" /\ callbacks'[c].user = lastUser'
        /\ callbacks'[c].identity = i
        /\ \A d \in Callbacks : d # c => callbacks'[d] = callbacks[d]
    BY <1>1, <2>1, <2>2, CallbackGoes
  <2>4. SocialTypeOK'
    BY <1>1, <2>2, <2>3 DEF SocialTypeOK
  <2>5. CallbacksKnow'
    <3> SUFFICES ASSUME NEW d \in Callbacks  PROVE CallbackKnows(callbacks[d])'
      BY DEF CallbacksKnow
    <3>1. CASE d = c
      BY <2>2, <2>3, <3>1 DEF CallbackKnows, MayLink, UserIds
    <3>2. CASE d # c
      BY <1>1, <2>2, <2>3, <3>2, CallbackKnowledgeStays
    <3> QED
      BY <3>1, <3>2
  <2> QED
    BY <2>2, <2>4, <2>5
<1> QED
  BY <1>5, <1>6

-----------------------------------------------------------------------------
(* The steps of a callback.                                                *)

LEMMA CallbackStep ==
  ASSUME SocialInv, NEW c \in Callbacks, NEW i \in Identities, NEW e \in Emails \cup {NoEmail},
         NEW v \in BOOLEAN, Callback(c, i, e, v)
  PROVE  SocialInv'
<1> DEFINE x == [pc |-> "account", identity |-> i, email |-> e, verified |-> v,
                 user |-> NoUser]
<1>1. x \in Called /\ x.pc = "account"
  BY DEF Called
<1>2. /\ callbacks' = [callbacks EXCEPT ![c] = x]
      /\ UNCHANGED <<lastUser, emailOf, creator, links, assertedAt, signedIn>>
  BY DEF Callback
<1> HIDE DEF x
<1>3. /\ callbacks' \in [Callbacks -> Called \cup {NotCalled}]
      /\ callbacks'[c] = x
      /\ \A d \in Callbacks : d # c => callbacks'[d] = callbacks[d]
  BY <1>1, <1>2, OneCallback DEF SocialInv
<1> QED
  BY <1>1, <1>2, <1>3, CallbackMovesOn DEF CallbackKnows

LEMMA FindAccountStep ==
  ASSUME SocialInv, NEW c \in Callbacks, FindAccount(c)
  PROVE  SocialInv'
<1> DEFINE u == links[callbacks[c].identity]
<1> USE DEF SocialInv
<1>1. ~Reached(c, "idle")
      /\ UNCHANGED <<lastUser, emailOf, creator, links, assertedAt, signedIn>>
  BY DEF FindAccount, Reached
<1>2. u \in UserIds \cup {NoUser}
  BY <1>1, CalledFacts DEF SocialTypeOK
<1>3. CASE u # NoUser
  <2>1. Goto(c, "session", u)
    BY <1>3 DEF FindAccount
  <2>2. /\ callbacks' \in [Callbacks -> Called \cup {NotCalled}]
        /\ callbacks'[c].pc = "session" /\ callbacks'[c].user = u
        /\ callbacks'[c].identity = callbacks[c].identity
        /\ \A d \in Callbacks : d # c => callbacks'[d] = callbacks[d]
    BY <1>1, <1>2, <2>1, CallbackGoes
  <2> QED
    BY <1>1, <1>3, <2>2, CallbackMovesOn DEF CallbackKnows
<1>4. CASE u = NoUser
  <2>1. PICK label \in {"create", "user"} : Goto(c, label, NoUser)
    BY <1>4 DEF FindAccount
  <2>2. /\ callbacks' \in [Callbacks -> Called \cup {NotCalled}]
        /\ callbacks'[c].pc = label
        /\ \A d \in Callbacks : d # c => callbacks'[d] = callbacks[d]
    BY <1>1, <2>1, CallbackGoes
  <2> QED
    BY <1>1, <2>2, CallbackMovesOn DEF CallbackKnows
<1> QED
  BY <1>3, <1>4

LEMMA FindUserStep ==
  ASSUME SocialInv, NEW c \in Callbacks, FindUser(c)
  PROVE  SocialInv'
<1> DEFINE e == callbacks[c].email
<1> USE DEF SocialInv
<1>1. ~Reached(c, "idle")
      /\ UNCHANGED <<lastUser, emailOf, creator, links, assertedAt, signedIn>>
  BY DEF FindUser, Reached
<1>2. CASE ~Taken(e)
  <2>1. Goto(c, "create", NoUser)
    BY <1>2 DEF FindUser
  <2>2. /\ callbacks' \in [Callbacks -> Called \cup {NotCalled}]
        /\ callbacks'[c].pc = "create"
        /\ \A d \in Callbacks : d # c => callbacks'[d] = callbacks[d]
    BY <1>1, <2>1, CallbackGoes
  <2> QED
    BY <1>1, <2>2, CallbackMovesOn DEF CallbackKnows
<1>3. CASE Taken(e) /\ callbacks[c].verified
  <2>1. PICK u \in UserIds : Owns(u, e) /\ Goto(c, "link", u)
    BY <1>3 DEF FindUser
  <2>2. /\ callbacks' \in [Callbacks -> Called \cup {NotCalled}]
        /\ callbacks'[c].pc = "link" /\ callbacks'[c].user = u
        /\ callbacks'[c].identity = callbacks[c].identity
        /\ callbacks'[c].email = e /\ callbacks'[c].verified = callbacks[c].verified
        /\ \A d \in Callbacks : d # c => callbacks'[d] = callbacks[d]
    BY <1>1, <2>1, CallbackGoes
  <2>3. u \in 1..lastUser /\ emailOf[u] = e
    BY <2>1 DEF Owns, UserIds, SocialTypeOK
  <2>4. MayLink(u, callbacks[c].identity, e, callbacks[c].verified)
    BY <1>3, <2>3 DEF MayLink
  <2> QED
    BY <1>1, <2>2, <2>3, <2>4, CallbackMovesOn DEF CallbackKnows
<1>4. CASE Taken(e) /\ ~callbacks[c].verified
  <2>1. Responds(c)
    BY <1>4 DEF FindUser
  <2> QED
    BY <1>1, <2>1, CallbackReturns, CallbackMovesOn DEF CallbackKnows
<1> QED
  BY <1>2, <1>3, <1>4

LEMMA LinkAccountStep ==
  ASSUME SocialInv, NEW c \in Callbacks, LinkAccount(c)
  PROVE  SocialInv'
<1> DEFINE i == callbacks[c].identity
           u == callbacks[c].user
           a == IF callbacks[c].verified THEN callbacks[c].email ELSE NoEmail
<1> USE DEF SocialInv
<1>1. Reached(c, "link") /\ ~Reached(c, "idle")
      /\ UNCHANGED <<lastUser, emailOf, creator, signedIn>>
  BY DEF LinkAccount, Reached
<1>2. /\ i \in Identities /\ a \in Emails \cup {NoEmail} /\ u \in UserIds
      /\ u \in 1..lastUser /\ u # NoUser
      /\ MayLink(u, i, callbacks[c].email, callbacks[c].verified)
  BY <1>1, CalledFacts DEF CallbacksKnow, CallbackKnows, Reached, NoUser, SocialTypeOK
<1>3. links[i] # NoUser => Responds(c) /\ UNCHANGED <<links, assertedAt>>
  BY DEF LinkAccount
<1>4. links[i] = NoUser => /\ links' = [links EXCEPT ![i] = u]
                           /\ assertedAt' = [assertedAt EXCEPT ![i] = a]
                           /\ Goto(c, "session", u)
  BY DEF LinkAccount
<1>5. creator[u] = i \/ emailOf[u] = a
  BY <1>2 DEF MayLink
<1> HIDE DEF a
<1>6. CASE links[i] # NoUser
  BY <1>1, <1>3, <1>6, CallbackReturns, CallbackMovesOn DEF CallbackKnows
<1>7. CASE links[i] = NoUser
  <2>1. /\ links' = [links EXCEPT ![i] = u]
        /\ assertedAt' = [assertedAt EXCEPT ![i] = a]
        /\ Goto(c, "session", u)
    BY <1>4, <1>7
  <2>2. /\ callbacks' \in [Callbacks -> Called \cup {NotCalled}]
        /\ callbacks'[c].pc = "session" /\ callbacks'[c].user = u
        /\ callbacks'[c].identity = i
        /\ \A d \in Callbacks : d # c => callbacks'[d] = callbacks[d]
    BY <1>1, <1>2, <2>1, CallbackGoes
  <2>3. SocialTypeOK'
    BY <1>1, <1>2, <2>1, <2>2 DEF SocialTypeOK
  <2>4. /\ links'[i] = u /\ assertedAt'[i] = a
        /\ \A j \in Identities : j # i => links'[j] = links[j] /\ assertedAt'[j] = assertedAt[j]
    BY <1>2, <2>1 DEF SocialTypeOK
  <2>5. LinkedUsersExist' /\ LinksAreAsserted'
    BY <1>1, <1>2, <1>5, <2>4 DEF LinkedUsersExist, LinksAreAsserted
  <2>6. IdentitiesKeepTheirUser'
    BY <1>1, <1>2, <1>7, <2>4 DEF IdentitiesKeepTheirUser
  <2>7. CallbacksKnow'
    <3> SUFFICES ASSUME NEW d \in Callbacks  PROVE CallbackKnows(callbacks[d])'
      BY DEF CallbacksKnow
    <3>1. CASE d = c
      BY <1>2, <2>2, <2>4, <3>1 DEF CallbackKnows
    <3>2. CASE d # c /\ Reached(d, "session")
      <4>1. callbacks[d].identity # i /\ callbacks[d].identity \in Identities
        BY <1>7, <3>2, CalledFacts DEF CallbacksKnow, CallbackKnows, Reached
      <4> QED
        BY <2>2, <2>4, <3>2, <4>1 DEF CallbacksKnow, CallbackKnows, Reached
    <3>3. CASE d # c /\ ~Reached(d, "session")
      BY <1>1, <2>2, <3>3 DEF CallbacksKnow, CallbackKnows, Reached, MayLink
    <3> QED
      BY <3>1, <3>2, <3>3
  <2> QED
    BY <2>3, <2>5, <2>6, <2>7
<1> QED
  BY <1>6, <1>7

LEMMA StartSessionStep ==
  ASSUME SocialInv, NEW c \in Callbacks, StartSession(c)
  PROVE  SocialInv'
<1> DEFINE i == callbacks[c].identity
           u == callbacks[c].user
<1> USE DEF SocialInv
<1>1. Reached(c, "session") /\ ~Reached(c, "idle") /\ Responds(c)
      /\ UNCHANGED <<lastUser, emailOf, creator, links, assertedAt>>
  BY DEF StartSession, Reached
<1>2. i \in Identities /\ u \in UserIds /\ u = links[i] /\ u # NoUser
  BY <1>1, CalledFacts DEF CallbacksKnow, CallbackKnows, Reached
<1>3. signedIn' = [signedIn EXCEPT ![i] = signedIn[i] \cup {u}]
  BY DEF StartSession
<1>4. /\ callbacks' \in [Callbacks -> Called \cup {NotCalled}]
      /\ callbacks'[c].pc = "idle"
      /\ \A d \in Callbacks : d # c => callbacks'[d] = callbacks[d]
  BY <1>1, CallbackReturns
<1>5. SocialTypeOK'
  BY <1>1, <1>2, <1>3, <1>4 DEF SocialTypeOK
<1>6. CallbacksKnow'
  BY <1>1, <1>4 DEF CallbacksKnow, CallbackKnows, Reached, MayLink
<1>7. IdentitiesKeepTheirUser'
  BY <1>1, <1>2, <1>3 DEF IdentitiesKeepTheirUser, SocialTypeOK
<1>8. LinkedUsersExist' /\ LinksAreAsserted'
  BY <1>1 DEF LinkedUsersExist, LinksAreAsserted
<1> QED
  BY <1>5, <1>6, <1>7, <1>8

LEMMA CallbackFailsStep ==
  ASSUME SocialInv, NEW c \in Callbacks, CallbackFails(c)
  PROVE  SocialInv'
  BY CallbackReturns, CallbackMovesOn DEF CallbackFails, SocialInv, CallbackKnows

-----------------------------------------------------------------------------
LEMMA SocialStarts == SocialInit => SocialInv
BY DEF SocialInit, SocialInv, SocialTypeOK, CallbacksKnow, LinkedUsersExist,
       IdentitiesKeepTheirUser, LinksAreAsserted, CallbackKnows, NotCalled, NoUser

LEMMA SocialStays == SocialInv /\ [SocialNext]_socialVars => SocialInv'
<1> SUFFICES ASSUME SocialInv, [SocialNext]_socialVars  PROVE SocialInv'
  OBVIOUS
<1>1. ASSUME UNCHANGED socialVars  PROVE SocialInv'
  BY <1>1 DEF socialVars, SocialInv, SocialTypeOK, CallbacksKnow, LinkedUsersExist,
              IdentitiesKeepTheirUser, LinksAreAsserted, CallbackKnows, MayLink
<1> QED
  BY <1>1, SignUpStep, CallbackStep, FindAccountStep, FindUserStep, CreateUserStep,
     LinkAccountStep, StartSessionStep, CallbackFailsStep DEF SocialNext

\* The inductive invariant.
THEOREM SocialInvariant == SocialSpec => []SocialInv
BY SocialStarts, SocialStays, PTL DEF SocialSpec

\* Every reachable state is well typed.
THEOREM SocialTypeCorrect == SocialSpec => []SocialTypeOK
<1>1. SocialInv => SocialTypeOK
  BY DEF SocialInv
<1> QED
  BY <1>1, SocialInvariant, PTL

\* An identity is given sessions of one user only: the one it is linked to.
THEOREM OneUserPerIdentity == SocialSpec => []IdentitiesKeepTheirUser
<1>1. SocialInv => IdentitiesKeepTheirUser
  BY DEF SocialInv
<1> QED
  BY <1>1, SocialInvariant, PTL

\* No identity is linked to a user on the word of an unverified email.
THEOREM NoLinkUnasserted == SocialSpec => []LinksAreAsserted
<1>1. SocialInv => LinksAreAsserted
  BY DEF SocialInv
<1> QED
  BY <1>1, SocialInvariant, PTL

-----------------------------------------------------------------------------
(* A passkey belongs to, and signs in, the user whose challenge it was     *)
(* made under, its counter does not fall behind the one it had before      *)
(* sign-ins overlapped, and only its user deletes it, for any number of    *)
(* ceremonies, users and credentials.                                      *)

USE PasskeyAssumption

\* What a suspended ceremony knows of its credential stays true.
CeremonyKnows(x) ==
    /\ x.pc \in {"create", "count", "session"} => x.owner = responses[x.credential].owner
    /\ x.pc \in {"count", "delete"} => x.id # 0
    /\ Made(x.credential)

CeremoniesKnow == \A c \in Ceremonies : ~AtStage(c, "idle") => CeremonyKnows(ceremonies[c])

RegisteredAreMade == \A k \in Credentials : Registered(k) => Made(k)
AdmittedAreMade == \A k \in Credentials : admitted[k] # {} => Made(k)

\* No handler holds the id of a row that is still to be inserted.
IdsAreGiven ==
    /\ \A k \in Credentials : passkeys[k].id <= lastPasskey
    /\ \A c \in Ceremonies : ~AtStage(c, "idle") => ceremonies[c].id <= lastPasskey

PasskeysInv ==
    /\ PasskeysTypeOK /\ CeremoniesKnow /\ RegisteredAreMade /\ AdmittedAreMade
    /\ CredentialsKeepTheirOwner /\ IdsAreGiven /\ AheadOfSettled

-----------------------------------------------------------------------------
(* Ceremonies and rows.                                                    *)

LEMMA CeremonyFacts ==
  ASSUME PasskeysTypeOK, NEW c \in Ceremonies, ~AtStage(c, "idle")
  PROVE  /\ ceremonies[c] \in Ceremony
         /\ ceremonies[c].credential \in Credentials
         /\ ceremonies[c].owner \in Owners
         /\ ceremonies[c].id \in 0..MaxPasskeys
         /\ ceremonies[c].count \in Counts
  BY DEF PasskeysTypeOK, AtStage, NoCeremony, Ceremony

LEMMA RowFacts ==
  ASSUME PasskeysTypeOK, NEW k \in Credentials, Registered(k)
  PROVE  /\ passkeys[k] \in PasskeyRow
         /\ passkeys[k].owner \in Owners
         /\ passkeys[k].id \in 1..MaxPasskeys /\ passkeys[k].counter \in Counts
  BY DEF PasskeysTypeOK, Registered, PasskeyRow

LEMMA OneCeremony ==
  ASSUME PasskeysTypeOK, NEW c \in Ceremonies, NEW x \in Ceremony \cup {NoCeremony},
         ceremonies' = [ceremonies EXCEPT ![c] = x]
  PROVE  /\ ceremonies' \in [Ceremonies -> Ceremony \cup {NoCeremony}]
         /\ ceremonies'[c] = x
         /\ \A d \in Ceremonies : d # c => ceremonies'[d] = ceremonies[d]
  BY DEF PasskeysTypeOK

LEMMA CeremonyFinishes ==
  ASSUME PasskeysTypeOK, NEW c \in Ceremonies, Finishes(c)
  PROVE  /\ ceremonies' \in [Ceremonies -> Ceremony \cup {NoCeremony}]
         /\ ceremonies'[c].pc = "idle"
         /\ \A d \in Ceremonies : d # c => ceremonies'[d] = ceremonies[d]
  BY OneCeremony DEF Finishes, NoCeremony

\* The ceremony of one handler moves on, the others' stay as they are.
LEMMA CeremonyKnowledgeStays ==
  ASSUME PasskeysInv, NEW c \in Ceremonies,
         \A d \in Ceremonies : d # c => ceremonies'[d] = ceremonies[d],
         NEW x, x = ceremonies'[c], x.pc # "idle" => CeremonyKnows(x),
         UNCHANGED responses
  PROVE  CeremoniesKnow'
  BY DEF PasskeysInv, CeremoniesKnow, AtStage, CeremonyKnows, Made

\* No row changes, and no sign-in begins.
LEMMA AheadStays ==
  ASSUME AheadOfSettled, UNCHANGED <<passkeys, settled>>,
         \A d \in Ceremonies : AtStage(d, "count")' => ceremonies'[d] = ceremonies[d]
  PROVE  AheadOfSettled'
  BY DEF AheadOfSettled, AtWork, AtStage, Registered

\* The handler that moves on keeps its id or takes one that was given.
LEMMA IdsStayGiven ==
  ASSUME PasskeysInv, NEW c \in Ceremonies,
         \A d \in Ceremonies : d # c => ceremonies'[d] = ceremonies[d],
         AtStage(c, "idle")' \/ ceremonies'[c].id <= lastPasskey,
         UNCHANGED lastPasskey,
         \A k \in Credentials : passkeys'[k].id = passkeys[k].id \/ passkeys'[k] = NoPasskey
  PROVE  IdsAreGiven'
  BY DEF PasskeysInv, PasskeysTypeOK, IdsAreGiven, AtStage, NoPasskey

-----------------------------------------------------------------------------
(* The steps.                                                              *)

\* A handler that read what it needs.
LEMMA BeginStep ==
  ASSUME PasskeysInv, NEW c \in Ceremonies, NEW x \in Ceremony, Begins(c, x), CeremonyKnows(x),
         x.id <= lastPasskey, settled' \in [Credentials -> Counts],
         x.pc = "count" \/ UNCHANGED settled, x.pc = "count" => AheadOfSettled',
         UNCHANGED <<responses, signed, lastPasskey, passkeys, admitted>>
  PROVE  PasskeysInv'
<1> USE DEF PasskeysInv
<1>1. /\ ceremonies' \in [Ceremonies -> Ceremony \cup {NoCeremony}]
      /\ ceremonies'[c] = x
      /\ \A d \in Ceremonies : d # c => ceremonies'[d] = ceremonies[d]
  BY OneCeremony DEF Begins
<1>2. PasskeysTypeOK'
  BY <1>1 DEF PasskeysTypeOK
<1>3. CeremoniesKnow'
  BY <1>1, CeremonyKnowledgeStays
<1>4. RegisteredAreMade' /\ AdmittedAreMade' /\ CredentialsKeepTheirOwner'
  BY DEF RegisteredAreMade, AdmittedAreMade, CredentialsKeepTheirOwner, Registered, Made
<1>5. IdsAreGiven'
  BY <1>1, IdsStayGiven
<1>6. AheadOfSettled'
  <2>1. CASE x.pc = "count"
    BY <2>1
  <2>2. CASE x.pc # "count"
    BY <1>1, <2>2, AheadStays DEF AtStage
  <2> QED
    BY <2>1, <2>2
<1> QED
  BY <1>2, <1>3, <1>4, <1>5, <1>6

LEMMA VerifyRegistrationStep ==
  ASSUME PasskeysInv, NEW c \in Ceremonies, NEW u \in Owners, NEW k \in Credentials,
         VerifyRegistration(c, u, k)
  PROVE  PasskeysInv'
<1> DEFINE x == [pc |-> "create", credential |-> k, owner |-> u, id |-> 0,
                 count |-> responses[k].count]
<1>1. /\ Begins(c, x) /\ Made(k) /\ responses[k].owner = u
      /\ UNCHANGED <<responses, signed, lastPasskey, passkeys, admitted, settled>>
  BY DEF VerifyRegistration
<1>2. responses[k].count \in Counts
  BY DEF PasskeysInv, PasskeysTypeOK, Response, NoResponse, Counts
<1>3. x \in Ceremony /\ CeremonyKnows(x) /\ x.pc # "count"
  BY <1>1, <1>2 DEF Ceremony, CeremonyKnows, Counts
<1>4. x.id <= lastPasskey /\ settled \in [Credentials -> Counts]
  BY DEF PasskeysInv, PasskeysTypeOK
<1> HIDE DEF x
<1> QED
  BY <1>1, <1>3, <1>4, BeginStep

LEMMA VerifyAuthenticationStep ==
  ASSUME PasskeysInv, NEW c \in Ceremonies, NEW k \in Credentials, NEW count \in Counts,
         VerifyAuthentication(c, k, count)
  PROVE  PasskeysInv'
<1> DEFINE x == [pc |-> "count", credential |-> k, owner |-> passkeys[k].owner,
                 id |-> passkeys[k].id, count |-> count]
           alone == ~\E d \in Ceremonies : AtWork(d, k)
<1>1. /\ Begins(c, x) /\ Registered(k) /\ Newer(count, passkeys[k].counter)
      /\ settled' = IF alone THEN [settled EXCEPT ![k] = passkeys[k].counter] ELSE settled
      /\ UNCHANGED <<responses, signed, lastPasskey, passkeys, admitted>>
  BY DEF VerifyAuthentication
<1>2. /\ passkeys[k].owner \in Owners /\ passkeys[k].id \in 0..MaxPasskeys
      /\ passkeys[k].id # 0 /\ passkeys[k].counter \in Counts
  BY <1>1, RowFacts DEF PasskeysInv
<1>3. Made(k) /\ passkeys[k].owner = responses[k].owner
  BY <1>1 DEF PasskeysInv, RegisteredAreMade, CredentialsKeepTheirOwner
<1>4. x \in Ceremony /\ CeremonyKnows(x) /\ x.pc = "count"
  BY <1>1, <1>2, <1>3 DEF Ceremony, CeremonyKnows
<1>5. x.id <= lastPasskey
  BY DEF PasskeysInv, IdsAreGiven
<1>6. /\ settled' \in [Credentials -> Counts]
      /\ \A j \in Credentials :
            settled'[j] = IF alone /\ j = k THEN passkeys[k].counter ELSE settled[j]
  BY <1>1, <1>2 DEF PasskeysInv, PasskeysTypeOK
<1>7. /\ x.credential = k /\ x.id = passkeys[k].id /\ x.count = count
  OBVIOUS
<1> HIDE DEF x
<1>8. AheadOfSettled'
  <2> SUFFICES ASSUME NEW j \in Credentials, Registered(j)
               PROVE  /\ passkeys[j].counter >= settled'[j]
                      /\ \A d \in Ceremonies :
                            AtWork(d, j)' => Newer(ceremonies'[d].count, settled'[j])
    BY <1>1 DEF AheadOfSettled, Registered
  <2>1. /\ passkeys[j].counter \in Nat /\ settled[j] \in Nat /\ count \in Nat
        /\ passkeys[j].counter >= settled[j]
        /\ \A d \in Ceremonies : AtWork(d, j) => Newer(ceremonies[d].count, settled[j])
    BY RowFacts DEF PasskeysInv, PasskeysTypeOK, AheadOfSettled, Counts
  <2>2. passkeys[j].counter >= settled'[j]
    BY <1>6, <2>1
  <2>3. ASSUME NEW d \in Ceremonies, AtWork(d, j)'
        PROVE  Newer(ceremonies'[d].count, settled'[j])
    <3>1. CASE d = c
      <4>1. ceremonies'[c] = x
        BY <1>1, <1>4, OneCeremony DEF Begins, PasskeysInv
      <4>2. j = k /\ ceremonies'[d].count = count
        BY <1>7, <2>3, <3>1, <4>1 DEF AtWork
      <4>3. Newer(count, passkeys[k].counter) /\ passkeys[k].counter >= settled'[k]
            /\ settled'[k] \in Nat /\ passkeys[k].counter \in Nat
        BY <1>1, <1>6, <2>1, <2>2, <4>2
      <4> QED
        BY <2>1, <4>2, <4>3 DEF Newer
    <3>2. CASE d # c
      <4>1. ceremonies'[d] = ceremonies[d]
        BY <1>1, <1>4, <3>2, OneCeremony DEF Begins, PasskeysInv
      <4>2. AtWork(d, j)
        BY <1>1, <2>3, <4>1 DEF AtWork, AtStage
      <4>3. settled'[j] = settled[j]
        BY <1>6, <4>2
      <4> QED
        BY <2>1, <4>1, <4>2, <4>3
    <3> QED
      BY <3>1, <3>2
  <2> QED
    BY <2>2, <2>3
<1> QED
  BY <1>1, <1>4, <1>5, <1>6, <1>8, BeginStep

LEMMA AskDeletionStep ==
  ASSUME PasskeysInv, NEW c \in Ceremonies, NEW u \in Owners, NEW k \in Credentials,
         AskDeletion(c, u, k)
  PROVE  PasskeysInv'
<1> DEFINE x == [pc |-> "delete", credential |-> k, owner |-> u, id |-> passkeys[k].id,
                 count |-> 0]
<1>1. /\ Begins(c, x) /\ Registered(k)
      /\ UNCHANGED <<responses, signed, lastPasskey, passkeys, admitted, settled>>
  BY DEF AskDeletion
<1>2. passkeys[k].id \in 0..MaxPasskeys /\ passkeys[k].id # 0 /\ 0 \in Counts
  BY <1>1, RowFacts DEF PasskeysInv, Counts
<1>3. Made(k)
  BY <1>1 DEF PasskeysInv, RegisteredAreMade
<1>4. x \in Ceremony /\ CeremonyKnows(x) /\ x.pc # "count"
  BY <1>2, <1>3 DEF Ceremony, CeremonyKnows
<1>5. x.id <= lastPasskey /\ settled \in [Credentials -> Counts]
  BY DEF PasskeysInv, PasskeysTypeOK, IdsAreGiven
<1> HIDE DEF x
<1> QED
  BY <1>1, <1>4, <1>5, BeginStep

\* The row it inserts is of the user whose challenge it was, and no sign-in is at work on
\* it yet.
LEMMA CreatePasskeyStep ==
  ASSUME PasskeysInv, NEW c \in Ceremonies, CreatePasskey(c)
  PROVE  PasskeysInv'
<1> DEFINE k == ceremonies[c].credential
           row == [id |-> lastPasskey + 1, owner |-> ceremonies[c].owner,
                   counter |-> ceremonies[c].count]
<1> USE DEF PasskeysInv
<1>1. AtStage(c, "create") /\ ~AtStage(c, "idle") /\ Finishes(c)
      /\ UNCHANGED <<responses, signed, admitted>>
  BY DEF CreatePasskey, AtStage
<1>2. /\ k \in Credentials /\ ceremonies[c].owner \in Owners /\ ceremonies[c].count \in Counts
      /\ ceremonies[c].owner = responses[k].owner /\ Made(k)
  BY <1>1, CeremonyFacts DEF CeremoniesKnow, CeremonyKnows, AtStage
<1>3. /\ ceremonies' \in [Ceremonies -> Ceremony \cup {NoCeremony}]
      /\ ceremonies'[c].pc = "idle"
      /\ \A d \in Ceremonies : d # c => ceremonies'[d] = ceremonies[d]
  BY <1>1, CeremonyFinishes
<1>4. PICK x : x = ceremonies'[c]
  OBVIOUS
<1>5. CeremoniesKnow'
  BY <1>1, <1>3, <1>4, CeremonyKnowledgeStays
<1>6. AdmittedAreMade'
  BY <1>1 DEF AdmittedAreMade, Made
<1>7. CASE Registered(k)
  <2>1. UNCHANGED <<passkeys, lastPasskey, settled>>
    BY <1>7 DEF CreatePasskey
  <2>2. AheadOfSettled' /\ IdsAreGiven'
    BY <1>3, <2>1, AheadStays, IdsStayGiven DEF AtStage
  <2> QED
    BY <1>1, <1>3, <1>5, <1>6, <2>1, <2>2
       DEF PasskeysTypeOK, RegisteredAreMade, CredentialsKeepTheirOwner, Registered, Made
<1>8. CASE ~Registered(k)
  <2>1. /\ lastPasskey < MaxPasskeys /\ lastPasskey' = lastPasskey + 1
        /\ passkeys' = [passkeys EXCEPT ![k] = row]
        /\ settled' = [settled EXCEPT ![k] = ceremonies[c].count]
    BY <1>8 DEF CreatePasskey
  <2>2. lastPasskey' \in 0..MaxPasskeys /\ lastPasskey + 1 \in 1..MaxPasskeys
    BY <2>1 DEF PasskeysTypeOK
  <2>3. /\ row \in PasskeyRow /\ row.owner = responses[k].owner
        /\ row.id = lastPasskey + 1 /\ row.counter = ceremonies[c].count
    BY <1>2, <2>2 DEF PasskeyRow
  <2> HIDE DEF row
  <2>4. PasskeysTypeOK'
    BY <1>1, <1>2, <1>3, <2>1, <2>2, <2>3 DEF PasskeysTypeOK
  <2>5. /\ passkeys'[k] = row /\ settled'[k] = ceremonies[c].count
        /\ \A j \in Credentials : j # k => passkeys'[j] = passkeys[j] /\ settled'[j] = settled[j]
    BY <1>2, <2>1 DEF PasskeysTypeOK
  <2>6. RegisteredAreMade' /\ CredentialsKeepTheirOwner'
    BY <1>1, <1>2, <2>3, <2>5
       DEF RegisteredAreMade, CredentialsKeepTheirOwner, Registered, Made
  <2>7. lastPasskey \in Nat /\ \A d \in Ceremonies : ~AtStage(d, "idle") => ceremonies[d].id \in Nat
    BY CeremonyFacts DEF PasskeysTypeOK
  <2>8. IdsAreGiven'
    <3>1. ASSUME NEW j \in Credentials  PROVE passkeys'[j].id <= lastPasskey'
      BY <2>1, <2>3, <2>5, <2>7 DEF IdsAreGiven, PasskeysTypeOK, PasskeyRow, NoPasskey
    <3>2. ASSUME NEW d \in Ceremonies, ~AtStage(d, "idle")'
          PROVE  ceremonies'[d].id <= lastPasskey'
      BY <1>3, <2>1, <2>7, <3>2 DEF IdsAreGiven, AtStage
    <3> QED
      BY <3>1, <3>2 DEF IdsAreGiven
  <2>9. AheadOfSettled'
    <3> SUFFICES ASSUME NEW j \in Credentials, Registered(j)'
                 PROVE  /\ passkeys'[j].counter >= settled'[j]
                        /\ \A d \in Ceremonies :
                              AtWork(d, j)' => Newer(ceremonies'[d].count, settled'[j])
      BY DEF AheadOfSettled
    <3>1. \A d \in Ceremonies : AtWork(d, j)' => AtWork(d, j) /\ j # k
                                             /\ ceremonies'[d] = ceremonies[d]
      <4> SUFFICES ASSUME NEW d \in Ceremonies, AtWork(d, j)'
                   PROVE  AtWork(d, j) /\ j # k /\ ceremonies'[d] = ceremonies[d]
        OBVIOUS
      <4>1. d # c /\ ceremonies'[d] = ceremonies[d] /\ ~AtStage(d, "idle")
        BY <1>3 DEF AtWork, AtStage
      <4>2. ceremonies[d].id <= lastPasskey /\ ceremonies[d].id \in Nat
        BY <2>7, <4>1 DEF IdsAreGiven
      <4>3. j # k
        BY <2>3, <2>5, <2>7, <4>1, <4>2 DEF AtWork
      <4> QED
        BY <2>5, <4>1, <4>3 DEF AtWork, AtStage
    <3>2. CASE j = k
      BY <1>2, <2>3, <2>5, <3>1, <3>2 DEF Counts
    <3>3. CASE j # k
      BY <2>5, <3>1, <3>3 DEF AheadOfSettled, Registered
    <3> QED
      BY <3>2, <3>3
  <2> QED
    BY <1>5, <1>6, <2>4, <2>6, <2>8, <2>9
<1> QED
  BY <1>7, <1>8

LEMMA UpdateCounterStep ==
  ASSUME PasskeysInv, NEW c \in Ceremonies, UpdateCounter(c)
  PROVE  PasskeysInv'
<1> DEFINE k == ceremonies[c].credential
           x == [ceremonies[c] EXCEPT !.pc = "session"]
           row == [passkeys[k] EXCEPT !.counter = ceremonies[c].count]
<1> USE DEF PasskeysInv
<1>1. AtStage(c, "count") /\ ~AtStage(c, "idle")
      /\ UNCHANGED <<responses, signed, lastPasskey, admitted, settled>>
  BY DEF UpdateCounter, AtStage
<1>2. /\ ceremonies[c] \in Ceremony /\ k \in Credentials /\ ceremonies[c].count \in Counts
      /\ CeremonyKnows(ceremonies[c]) /\ ceremonies[c].id # 0
      /\ ceremonies[c].owner = responses[k].owner
  BY <1>1, CeremonyFacts DEF CeremoniesKnow, CeremonyKnows, AtStage
<1>3. /\ x \in Ceremony /\ x.pc = "session"
      /\ x.credential = k /\ x.owner = ceremonies[c].owner /\ x.id = ceremonies[c].id
  BY <1>2 DEF Ceremony
<1>4. CeremonyKnows(x)
  BY <1>2, <1>3 DEF CeremonyKnows
<1>5. ceremonies' = [ceremonies EXCEPT ![c] = x]
  BY DEF UpdateCounter
<1> HIDE DEF x
<1>6. /\ ceremonies' \in [Ceremonies -> Ceremony \cup {NoCeremony}]
      /\ ceremonies'[c] = x
      /\ \A d \in Ceremonies : d # c => ceremonies'[d] = ceremonies[d]
  BY <1>3, <1>5, OneCeremony
<1>7. CeremoniesKnow'
  BY <1>1, <1>4, <1>6, CeremonyKnowledgeStays
<1>8. AdmittedAreMade'
  BY <1>1 DEF AdmittedAreMade, Made
<1>9. AtStage(c, "idle")' \/ ceremonies'[c].id <= lastPasskey
  BY <1>1, <1>3, <1>6 DEF IdsAreGiven
<1>10. \A d \in Ceremonies : AtStage(d, "count")' => d # c /\ ceremonies'[d] = ceremonies[d]
  BY <1>3, <1>6 DEF AtStage
<1>11. CASE passkeys[k].id = ceremonies[c].id
  <2>1. Registered(k)
    BY <1>2, <1>11 DEF Registered, NoPasskey
  <2>2. /\ row \in PasskeyRow /\ row.owner = passkeys[k].owner
        /\ row.id = passkeys[k].id /\ row.counter = ceremonies[c].count
    BY <1>2, <2>1, RowFacts DEF PasskeyRow
  <2>3. passkeys' = [passkeys EXCEPT ![k] = row]
    BY <1>11 DEF UpdateCounter, PasskeysTypeOK
  <2> HIDE DEF row
  <2>4. PasskeysTypeOK'
    BY <1>1, <1>2, <1>6, <2>2, <2>3 DEF PasskeysTypeOK
  <2>5. passkeys'[k] = row /\ \A j \in Credentials : j # k => passkeys'[j] = passkeys[j]
    BY <1>2, <2>3 DEF PasskeysTypeOK
  <2>6. RegisteredAreMade' /\ CredentialsKeepTheirOwner'
    BY <1>1, <2>1, <2>2, <2>5
       DEF RegisteredAreMade, CredentialsKeepTheirOwner, Registered, Made
  <2>7. IdsAreGiven'
    BY <1>1, <1>6, <1>9, <2>2, <2>5, IdsStayGiven
  <2>8. AheadOfSettled'
    <3> SUFFICES ASSUME NEW j \in Credentials, Registered(j)'
                 PROVE  /\ passkeys'[j].counter >= settled'[j]
                        /\ \A d \in Ceremonies :
                              AtWork(d, j)' => Newer(ceremonies'[d].count, settled'[j])
      BY DEF AheadOfSettled
    <3>1. Registered(j) /\ passkeys'[j].id = passkeys[j].id /\ settled'[j] = settled[j]
      BY <1>1, <2>1, <2>2, <2>5 DEF Registered
    <3>2. \A d \in Ceremonies : AtWork(d, j)' => AtWork(d, j) /\ ceremonies'[d] = ceremonies[d]
      BY <1>10, <3>1 DEF AtWork, AtStage
    <3>3. \A d \in Ceremonies : AtWork(d, j)' => Newer(ceremonies'[d].count, settled'[j])
      BY <3>1, <3>2 DEF AheadOfSettled
    <3>4. passkeys'[j].counter >= settled'[j]
      <4>1. CASE j = k
        <5>1. AtWork(c, k)
          BY <1>1, <1>11 DEF AtWork
        <5>2. Newer(ceremonies[c].count, settled[k])
          BY <1>2, <2>1, <5>1 DEF AheadOfSettled
        <5> QED
          BY <1>2, <2>2, <2>5, <3>1, <4>1, <5>2 DEF Newer, Counts, PasskeysTypeOK
      <4>2. CASE j # k
        BY <2>5, <3>1, <4>2 DEF AheadOfSettled
      <4> QED
        BY <4>1, <4>2
    <3> QED
      BY <3>3, <3>4
  <2> QED
    BY <1>7, <1>8, <2>4, <2>6, <2>7, <2>8
<1>12. CASE passkeys[k].id # ceremonies[c].id
  <2>1. UNCHANGED passkeys
    BY <1>12 DEF UpdateCounter
  <2>2. IdsAreGiven' /\ AheadOfSettled'
    BY <1>1, <1>6, <1>9, <1>10, <2>1, IdsStayGiven, AheadStays
  <2> QED
    BY <1>1, <1>6, <1>7, <1>8, <2>1, <2>2
       DEF PasskeysTypeOK, RegisteredAreMade, CredentialsKeepTheirOwner, Registered, Made
<1> QED
  BY <1>11, <1>12

LEMMA IssueSessionStep ==
  ASSUME PasskeysInv, NEW c \in Ceremonies, IssueSession(c)
  PROVE  PasskeysInv'
<1> DEFINE k == ceremonies[c].credential
           u == ceremonies[c].owner
<1> USE DEF PasskeysInv
<1>1. AtStage(c, "session") /\ ~AtStage(c, "idle") /\ Finishes(c)
      /\ UNCHANGED <<responses, signed, lastPasskey, passkeys, settled>>
  BY DEF IssueSession, AtStage
<1>2. k \in Credentials /\ u \in Owners /\ u = responses[k].owner /\ Made(k)
  BY <1>1, CeremonyFacts DEF CeremoniesKnow, CeremonyKnows, AtStage
<1>3. /\ ceremonies' \in [Ceremonies -> Ceremony \cup {NoCeremony}]
      /\ ceremonies'[c].pc = "idle"
      /\ \A d \in Ceremonies : d # c => ceremonies'[d] = ceremonies[d]
  BY <1>1, CeremonyFinishes
<1>4. PICK x : x = ceremonies'[c]
  OBVIOUS
<1>5. CeremoniesKnow'
  BY <1>1, <1>3, <1>4, CeremonyKnowledgeStays
<1>6. admitted' = [admitted EXCEPT ![k] = admitted[k] \cup {u}]
  BY DEF IssueSession
<1>7. PasskeysTypeOK'
  BY <1>1, <1>2, <1>3, <1>6 DEF PasskeysTypeOK
<1>8. RegisteredAreMade'
  BY <1>1 DEF RegisteredAreMade, Registered, Made
<1>9. /\ admitted'[k] = admitted[k] \cup {u}
      /\ \A j \in Credentials : j # k => admitted'[j] = admitted[j]
  BY <1>2, <1>6 DEF PasskeysTypeOK
<1>10. AdmittedAreMade' /\ CredentialsKeepTheirOwner'
  BY <1>1, <1>2, <1>9 DEF AdmittedAreMade, CredentialsKeepTheirOwner, Registered, Made
<1>11. IdsAreGiven' /\ AheadOfSettled'
  BY <1>1, <1>3, IdsStayGiven, AheadStays DEF AtStage
<1> QED
  BY <1>5, <1>7, <1>8, <1>10, <1>11

LEMMA DeletePasskeyStep ==
  ASSUME PasskeysInv, NEW c \in Ceremonies, DeletePasskey(c)
  PROVE  PasskeysInv'
<1> DEFINE k == ceremonies[c].credential
<1> USE DEF PasskeysInv
<1>1. AtStage(c, "delete") /\ ~AtStage(c, "idle") /\ Finishes(c)
      /\ UNCHANGED <<responses, signed, lastPasskey, admitted, settled>>
      /\ (UNCHANGED passkeys \/ passkeys' = [passkeys EXCEPT ![k] = NoPasskey])
  BY DEF DeletePasskey, AtStage
<1>2. k \in Credentials
  BY <1>1, CeremonyFacts
<1>3. /\ ceremonies' \in [Ceremonies -> Ceremony \cup {NoCeremony}]
      /\ ceremonies'[c].pc = "idle"
      /\ \A d \in Ceremonies : d # c => ceremonies'[d] = ceremonies[d]
  BY <1>1, CeremonyFinishes
<1>4. PICK x : x = ceremonies'[c]
  OBVIOUS
<1>5. CeremoniesKnow' /\ AdmittedAreMade'
  BY <1>1, <1>3, <1>4, CeremonyKnowledgeStays DEF AdmittedAreMade, Made
<1>6. \A j \in Credentials : passkeys'[j] = passkeys[j] \/ passkeys'[j] = NoPasskey
  BY <1>1, <1>2 DEF PasskeysTypeOK
<1>7. PasskeysTypeOK'
  BY <1>1, <1>2, <1>3 DEF PasskeysTypeOK
<1>8. RegisteredAreMade' /\ CredentialsKeepTheirOwner'
  BY <1>1, <1>6 DEF RegisteredAreMade, CredentialsKeepTheirOwner, Registered, Made
<1>9. IdsAreGiven'
  BY <1>1, <1>3, <1>6, IdsStayGiven DEF AtStage
<1>10. AheadOfSettled'
  <2> SUFFICES ASSUME NEW j \in Credentials, Registered(j)'
               PROVE  /\ passkeys'[j].counter >= settled'[j]
                      /\ \A d \in Ceremonies :
                            AtWork(d, j)' => Newer(ceremonies'[d].count, settled'[j])
    BY DEF AheadOfSettled
  <2>1. Registered(j) /\ passkeys'[j] = passkeys[j] /\ settled'[j] = settled[j]
    BY <1>1, <1>6 DEF Registered
  <2>2. \A d \in Ceremonies : AtWork(d, j)' => AtWork(d, j) /\ ceremonies'[d] = ceremonies[d]
    BY <1>3, <2>1 DEF AtWork, AtStage
  <2> QED
    BY <2>1, <2>2 DEF AheadOfSettled
<1> QED
  BY <1>5, <1>7, <1>8, <1>9, <1>10

\* A credential that is made now has neither row nor ceremony.
LEMMA AuthenticatorStep ==
  ASSUME PasskeysInv, NEW k \in Credentials,
         \/ \E u \in Owners, count \in Counts : MakeCredential(k, u, count)
         \/ SignAssertion(k)
  PROVE  PasskeysInv'
<1> USE DEF PasskeysInv
<1>1. UNCHANGED <<lastPasskey, passkeys, ceremonies, admitted, settled>>
  BY DEF MakeCredential, SignAssertion
<1>2. \A c \in Ceremonies : ~AtStage(c, "idle") => ceremonies[c].credential \in Credentials
  BY CeremonyFacts
<1>3. IdsAreGiven' /\ AheadOfSettled'
  BY <1>1 DEF IdsAreGiven, AheadOfSettled, AtWork, AtStage, Registered
<1>4. ASSUME NEW u \in Owners, NEW count \in Counts, MakeCredential(k, u, count)  PROVE PasskeysInv'
  <2> DEFINE r == [owner |-> u, count |-> count]
  <2>1. r \in Response /\ r.owner = u
    BY DEF Response
  <2>2. /\ ~Made(k) /\ responses' = [responses EXCEPT ![k] = r]
        /\ signed' = [signed EXCEPT ![k] = count]
    BY <1>4 DEF MakeCredential
  <2> HIDE DEF r
  <2>3. PasskeysTypeOK'
    BY <1>1, <2>1, <2>2 DEF PasskeysTypeOK
  <2>4. \A j \in Credentials : Made(j) => j # k /\ responses'[j] = responses[j]
    BY <2>2 DEF PasskeysTypeOK, Made
  <2>5. CeremoniesKnow'
    BY <1>1, <1>2, <2>4 DEF CeremoniesKnow, CeremonyKnows, AtStage, Made
  <2>6. RegisteredAreMade' /\ AdmittedAreMade'
    BY <1>1, <2>4 DEF RegisteredAreMade, AdmittedAreMade, Registered, Made
  <2>7. CredentialsKeepTheirOwner'
    BY <1>1, <2>4 DEF CredentialsKeepTheirOwner, RegisteredAreMade, AdmittedAreMade, Registered
  <2> QED
    BY <1>3, <2>3, <2>5, <2>6, <2>7
<1>5. ASSUME SignAssertion(k)  PROVE PasskeysInv'
  <2>1. UNCHANGED responses /\ signed' = [signed EXCEPT ![k] = signed[k] + 1]
        /\ signed[k] < MaxCount /\ signed[k] \in 0..MaxCount
    BY <1>5 DEF SignAssertion, PasskeysTypeOK, Counts
  <2>2. signed[k] + 1 \in Counts
    BY <2>1 DEF Counts
  <2> QED
    BY <1>1, <1>3, <2>1, <2>2
       DEF PasskeysTypeOK, CeremoniesKnow, CeremonyKnows, AtStage, RegisteredAreMade, AdmittedAreMade,
           CredentialsKeepTheirOwner, Registered, Made
<1> QED
  BY <1>4, <1>5

-----------------------------------------------------------------------------
LEMMA PasskeysStarts == PasskeysInit => PasskeysInv
BY DEF PasskeysInit, PasskeysInv, PasskeysTypeOK, CeremoniesKnow, RegisteredAreMade,
       AdmittedAreMade, CredentialsKeepTheirOwner, Registered, AtStage, NoCeremony, Counts,
       IdsAreGiven, AheadOfSettled, NoPasskey

LEMMA PasskeysStays == PasskeysInv /\ [PasskeysNext]_passkeyVars => PasskeysInv'
<1> SUFFICES ASSUME PasskeysInv, [PasskeysNext]_passkeyVars  PROVE PasskeysInv'
  OBVIOUS
<1>1. ASSUME UNCHANGED passkeyVars  PROVE PasskeysInv'
  BY <1>1 DEF passkeyVars, PasskeysInv, PasskeysTypeOK, CeremoniesKnow, RegisteredAreMade,
              AdmittedAreMade, CredentialsKeepTheirOwner, Registered, AtStage, CeremonyKnows, Made,
              IdsAreGiven, AheadOfSettled, AtWork
<1> QED
  BY <1>1, AuthenticatorStep, VerifyRegistrationStep, VerifyAuthenticationStep,
     AskDeletionStep, CreatePasskeyStep, UpdateCounterStep, IssueSessionStep,
     DeletePasskeyStep DEF PasskeysNext

\* The inductive invariant.
THEOREM PasskeysInvariant == PasskeysSpec => []PasskeysInv
BY PasskeysStarts, PasskeysStays, PTL DEF PasskeysSpec

\* Every reachable state is well typed.
THEOREM PasskeysTypeCorrect == PasskeysSpec => []PasskeysTypeOK
<1>1. PasskeysInv => PasskeysTypeOK
  BY DEF PasskeysInv
<1> QED
  BY <1>1, PasskeysInvariant, PTL

\* A credential belongs to, and signs in, the user whose challenge it was made under.
THEOREM CredentialsAreOwned == PasskeysSpec => []CredentialsKeepTheirOwner
<1>1. PasskeysInv => CredentialsKeepTheirOwner
  BY DEF PasskeysInv
<1> QED
  BY <1>1, PasskeysInvariant, PTL

\* Sign-ins that overlap do not take the counter behind what it was before them.
THEOREM OverlapsStayAhead == PasskeysSpec => []AheadOfSettled
<1>1. PasskeysInv => AheadOfSettled
  BY DEF PasskeysInv
<1> QED
  BY <1>1, PasskeysInvariant, PTL

\* Only the user of a passkey deletes it.
THEOREM DeletedByOwner == PasskeysSpec => DeletedByTheirOwner
<1> DEFINE Asked == \A k \in Credentials :
                       Registered(k) /\ ~Registered(k)' =>
                          \E c \in Ceremonies :
                             /\ AtStage(c, "delete") /\ ceremonies[c].id = passkeys[k].id
                             /\ ceremonies[c].owner = passkeys[k].owner
<1>1. PasskeysInv /\ [PasskeysNext]_passkeyVars => Asked \/ UNCHANGED passkeyVars
  <2> SUFFICES ASSUME PasskeysInv, [PasskeysNext]_passkeyVars, NEW k \in Credentials,
                      Registered(k), ~Registered(k)'
               PROVE  \E c \in Ceremonies :
                         /\ AtStage(c, "delete") /\ ceremonies[c].id = passkeys[k].id
                         /\ ceremonies[c].owner = passkeys[k].owner
    OBVIOUS
  <2> USE DEF PasskeysInv
  <2>1. passkeys[k] \in PasskeyRow /\ passkeys[k].id # 0 /\ passkeys'[k] = NoPasskey
    BY RowFacts DEF Registered
  <2>2. PICK d \in Ceremonies : CreatePasskey(d) \/ UpdateCounter(d) \/ DeletePasskey(d)
    BY DEF PasskeysNext, passkeyVars, MakeCredential, SignAssertion, VerifyRegistration,
           AskDeletion, VerifyAuthentication, IssueSession, Registered
  <2>3. ~CreatePasskey(d)
    BY <2>1 DEF CreatePasskey, Registered, PasskeysTypeOK
  <2>4. ~UpdateCounter(d)
    BY <2>1 DEF UpdateCounter, PasskeysTypeOK, PasskeyRow, NoPasskey
  <2>5. DeletePasskey(d)
    BY <2>2, <2>3, <2>4
  <2>6. k = ceremonies[d].credential /\ passkeys'[k] # passkeys[k]
    BY <2>1, <2>5 DEF DeletePasskey, PasskeysTypeOK, NoPasskey
  <2> QED
    BY <2>5, <2>6 DEF DeletePasskey
<1> QED
  BY <1>1, PasskeysInvariant, PTL DEF PasskeysSpec, DeletedByTheirOwner

-----------------------------------------------------------------------------
(* An API key that ended stays so, and none ends without a reason, for any *)
(* number of verifiers, users and keys.                                    *)

USE ApiKeysAssumption

\* A purge has found its key expired, and a key that expired stays so.
VerifiersKnow ==
    /\ \A k \in KeyIds : lastKey < k => ~Stored(k)
    /\ \A v \in Verifiers : Standing(v, "purge") =>
          LET k == verifiers[v].key IN
          k \in KeyIds /\ k <= lastKey /\ (Stored(k) => Expired(k))

ApiKeysInv == ApiKeysTypeOK /\ VerifiersKnow

LEMMA KeyFacts ==
  ASSUME ApiKeysTypeOK
  PROVE  /\ hour \in Nat /\ lastKey \in Nat
         /\ \A k \in KeyIds : k \in Nat /\ (Stored(k) => keys[k] \in KeyRow)
         /\ \A v \in Verifiers : ~Standing(v, "idle") => verifiers[v] \in Verifier
BY DEF ApiKeysTypeOK, Hours, KeyIds, Stored, Standing, NoVerifier

\* A handler is done: what the others know is about their own keys.
LEMMA VerifierCloses ==
  ASSUME ApiKeysInv, NEW v \in Verifiers, Closes(v), UNCHANGED <<hour, lastKey>>,
         keys' \in [KeyIds -> KeyRow \cup {NoKey}],
         \A k \in KeyIds : /\ ~Stored(k) => keys'[k] = NoKey
                           /\ keys'[k] # NoKey => keys'[k].expires = keys[k].expires
  PROVE  ApiKeysInv'
<1> USE DEF ApiKeysInv
<1>1. \A w \in Verifiers : verifiers'[w] = IF w = v THEN NoVerifier ELSE verifiers[w]
  BY DEF Closes, ApiKeysTypeOK
<1>2. ApiKeysTypeOK'
  BY DEF Closes, ApiKeysTypeOK
<1>3. \A w \in Verifiers : Standing(w, "purge")' =>
         Standing(w, "purge") /\ verifiers'[w] = verifiers[w]
  BY <1>1 DEF Standing, NoVerifier
<1> QED
  BY <1>2, <1>3 DEF VerifiersKnow, Stored, Expired

\* A handler has named a key.
LEMMA VerifierOpens ==
  ASSUME ApiKeysInv, NEW v \in Verifiers, NEW label \in {"purge", "touch", "delete"},
         NEW k \in KeyIds, NEW u \in Keepers, Opens(v, label, k, u),
         label = "purge" => k <= lastKey /\ Expired(k),
         UNCHANGED <<hour, lastKey, keys>>
  PROVE  ApiKeysInv'
<1> USE DEF ApiKeysInv
<1>1. [pc |-> label, key |-> k, keeper |-> u, stamp |-> hour] \in Verifier
  BY DEF ApiKeysTypeOK, Verifier
<1>2. \A w \in Verifiers :
         verifiers'[w] = IF w = v THEN [pc |-> label, key |-> k, keeper |-> u, stamp |-> hour]
                         ELSE verifiers[w]
  BY DEF Opens, ApiKeysTypeOK
<1>3. ApiKeysTypeOK'
  BY <1>1 DEF Opens, ApiKeysTypeOK
<1>4. \A w \in Verifiers : Standing(w, "purge")' =>
         \/ Standing(w, "purge") /\ verifiers'[w] = verifiers[w]
         \/ label = "purge" /\ verifiers'[w].key = k
  BY <1>2 DEF Standing
<1> QED
  BY <1>3, <1>4 DEF VerifiersKnow, Stored, Expired

\* What the endings of the handlers do to the rows.
LEMMA KeysChange ==
  ASSUME ApiKeysInv, NEW v \in Verifiers, PurgeKey(v) \/ TouchKey(v) \/ DeleteKey(v)
  PROVE  /\ keys' \in [KeyIds -> KeyRow \cup {NoKey}]
         /\ \A k \in KeyIds :
               /\ ~Stored(k) => keys'[k] = NoKey
               /\ keys'[k] # NoKey => keys'[k].expires = keys[k].expires
               /\ Stored(k) /\ keys'[k] = NoKey =>
                     /\ k = verifiers[v].key
                     /\ \/ Standing(v, "purge")
                        \/ Standing(v, "delete") /\ verifiers[v].keeper = keys[k].keeper
<1> USE DEF ApiKeysInv
<1> DEFINE k == verifiers[v].key
<1>1. verifiers[v] \in Verifier /\ k \in KeyIds
  BY KeyFacts DEF PurgeKey, TouchKey, DeleteKey, Standing, Verifier
<1>2. CASE PurgeKey(v)
  BY <1>1, <1>2 DEF PurgeKey, ApiKeysTypeOK, Stored
<1>3. CASE DeleteKey(v)
  BY <1>1, <1>3 DEF DeleteKey, ApiKeysTypeOK, Stored
<1>4. CASE TouchKey(v) /\ ~Stored(k)
  BY <1>4 DEF TouchKey, ApiKeysTypeOK, Stored
<1>5. CASE TouchKey(v) /\ Stored(k)
  <2>1. keys' = [keys EXCEPT ![k] = [keys[k] EXCEPT !.used = verifiers[v].stamp]]
    BY <1>5 DEF TouchKey
  <2>2. keys[k] \in KeyRow /\ verifiers[v].stamp \in Hours
    BY <1>1, <1>5, KeyFacts DEF Verifier
  <2> DEFINE row == [keys[k] EXCEPT !.used = verifiers[v].stamp]
  <2>3. row \in KeyRow /\ row.expires = keys[k].expires
    BY <2>2 DEF KeyRow
  <2>4. row # NoKey
    BY <2>3 DEF KeyRow, NoKey, Never
  <2> HIDE DEF row
  <2>5. \A j \in KeyIds : keys'[j] = IF j = k THEN row ELSE keys[j]
    BY <2>1 DEF ApiKeysTypeOK, row
  <2>6. keys' \in [KeyIds -> KeyRow \cup {NoKey}]
    BY <2>1, <2>3 DEF ApiKeysTypeOK, row
  <2> QED
    BY <1>1, <1>5, <2>3, <2>4, <2>5, <2>6 DEF Stored
<1> QED
  BY <1>2, <1>3, <1>4, <1>5

LEMMA CreateKeyStep ==
  ASSUME ApiKeysInv, NEW u \in Keepers, NEW expires \in 1..Never, CreateKey(u, expires)
  PROVE  ApiKeysInv'
<1> USE DEF ApiKeysInv
<1> DEFINE row == [keeper |-> u, expires |-> expires, used |-> 0]
<1>1. row \in KeyRow
  BY DEF KeyRow, Hours
<1>2. /\ lastKey + 1 \in KeyIds /\ lastKey' = lastKey + 1 /\ lastKey \in Nat
      /\ keys' = [keys EXCEPT ![lastKey + 1] = row]
      /\ UNCHANGED <<hour, verifiers>>
  BY DEF CreateKey, ApiKeysTypeOK, KeyIds
<1>3. ApiKeysTypeOK'
  BY <1>1, <1>2 DEF ApiKeysTypeOK, KeyIds
<1>4. \A k \in KeyIds : k # lastKey + 1 => keys'[k] = keys[k]
  BY <1>2 DEF ApiKeysTypeOK
<1>5. \A k \in KeyIds : lastKey' < k => ~Stored(k)'
  BY <1>2, <1>4 DEF VerifiersKnow, Stored, KeyIds
<1>6. ASSUME NEW v \in Verifiers, NEW k, k = verifiers'[v].key, Standing(v, "purge")'
      PROVE  k \in KeyIds /\ k <= lastKey' /\ (Stored(k)' => Expired(k)')
  <2>1. k \in KeyIds /\ k <= lastKey /\ (Stored(k) => Expired(k))
    BY <1>2, <1>6 DEF Standing, VerifiersKnow
  <2>2. keys'[k] = keys[k] /\ k <= lastKey'
    BY <1>2, <1>4, <2>1 DEF KeyIds
  <2> QED
    BY <1>2, <2>1, <2>2 DEF Stored, Expired
<1> QED
  BY <1>3, <1>5, <1>6 DEF VerifiersKnow, ApiKeysInv, Stored, Expired

LEMMA ApiKeysStarts == ApiKeysInit => ApiKeysInv
BY DEF ApiKeysInit, ApiKeysInv, ApiKeysTypeOK, VerifiersKnow, Hours, Stored, Standing,
       NoVerifier

LEMMA ApiKeysStays == ApiKeysInv /\ [ApiKeysNext]_apiKeyVars => ApiKeysInv'
<1> SUFFICES ASSUME ApiKeysInv, [ApiKeysNext]_apiKeyVars  PROVE ApiKeysInv'
  OBVIOUS
<1>1. ASSUME NEW v \in Verifiers, NEW k \in KeyIds, VerifyKey(v, k)  PROVE ApiKeysInv'
  <2>1. keys[k].keeper \in Keepers
    BY <1>1, KeyFacts DEF VerifyKey, ApiKeysInv, KeyRow
  <2>2. k <= lastKey
    BY <1>1, KeyFacts DEF VerifyKey, ApiKeysInv, VerifiersKnow
  <2>3. PICK label \in {"purge", "touch", "delete"} :
          /\ Opens(v, label, k, keys[k].keeper)
          /\ label = "purge" => Expired(k)
    BY <1>1 DEF VerifyKey
  <2> QED
    BY <1>1, <2>1, <2>2, <2>3, VerifierOpens DEF VerifyKey
<1>2. ASSUME NEW v \in Verifiers, NEW u \in Keepers, NEW k \in KeyIds,
             AskKeyDeletion(v, u, k)
      PROVE  ApiKeysInv'
  BY <1>2, VerifierOpens DEF AskKeyDeletion
<1>3. ASSUME NEW v \in Verifiers, PurgeKey(v) \/ TouchKey(v) \/ DeleteKey(v)
      PROVE  ApiKeysInv'
  BY <1>3, KeysChange, VerifierCloses DEF PurgeKey, TouchKey, DeleteKey
<1>4. CASE HourPasses
  <2>1. /\ hour' = hour + 1 /\ hour' \in Hours /\ hour \in Nat
        /\ UNCHANGED <<lastKey, keys, verifiers>>
    BY <1>4 DEF HourPasses, ApiKeysInv, ApiKeysTypeOK, Hours
  <2>2. \A k \in KeyIds : Stored(k) => keys[k].expires \in Nat
    BY KeyFacts DEF ApiKeysInv, KeyRow, Never
  <2> QED
    BY <2>1, <2>2 DEF ApiKeysInv, ApiKeysTypeOK, VerifiersKnow, Stored, Expired, Standing
<1>5. CASE UNCHANGED apiKeyVars
  BY <1>5 DEF apiKeyVars, ApiKeysInv, ApiKeysTypeOK, VerifiersKnow, Stored, Expired, Standing
<1> QED
  BY <1>1, <1>2, <1>3, <1>4, <1>5, CreateKeyStep DEF ApiKeysNext

\* The inductive invariant.
THEOREM ApiKeysInvariant == ApiKeysSpec => []ApiKeysInv
BY ApiKeysStarts, ApiKeysStays, PTL DEF ApiKeysSpec

\* The rows of api_key and the locals of the verifiers keep their types.
THEOREM ApiKeysTypeCorrect == ApiKeysSpec => []ApiKeysTypeOK
<1>1. ApiKeysInv => ApiKeysTypeOK
  BY DEF ApiKeysInv
<1> QED
  BY <1>1, ApiKeysInvariant, PTL

\* A key that was deleted or purged stays gone, although a request that read its row
\* before touches it afterwards (api_key.py writes last_used_at by id).
THEOREM DeadKeysStayDead == ApiKeysSpec => EndedKeysStayDead
<1> DEFINE Dead == \A k \in KeyIds : k <= lastKey /\ ~Stored(k) => ~Stored(k)'
<1>1. ApiKeysInv /\ [ApiKeysNext]_apiKeyVars => Dead \/ UNCHANGED apiKeyVars
  <2> SUFFICES ASSUME ApiKeysInv, [ApiKeysNext]_apiKeyVars, ~UNCHANGED apiKeyVars,
                      NEW k \in KeyIds, k <= lastKey, ~Stored(k)
               PROVE  ~Stored(k)'
    OBVIOUS
  <2>1. CASE UNCHANGED keys
    BY <2>1 DEF Stored
  <2>2. ASSUME NEW v \in Verifiers, PurgeKey(v) \/ TouchKey(v) \/ DeleteKey(v)
        PROVE  ~Stored(k)'
    BY <2>2, KeysChange DEF Stored
  <2>3. ASSUME NEW u \in Keepers, NEW expires \in 1..Never, CreateKey(u, expires)
        PROVE  ~Stored(k)'
    BY <2>3 DEF CreateKey, Stored, ApiKeysInv, ApiKeysTypeOK, KeyIds
  <2> QED
    BY <2>1, <2>2, <2>3 DEF ApiKeysNext, VerifyKey, AskKeyDeletion, HourPasses
<1> QED
  BY <1>1, ApiKeysInvariant, PTL DEF ApiKeysSpec, EndedKeysStayDead

\* No key ends unless it has expired or its own user asked for it: the row that a purge
\* deletes by id is still the expired one it read.
THEOREM NoKeyEndsEarly == ApiKeysSpec => KeysEndWithReason
<1> DEFINE Reason ==
             \A k \in KeyIds :
                Stored(k) /\ ~Stored(k)' =>
                   \/ Expired(k)
                   \/ \E v \in Verifiers :
                         /\ Standing(v, "delete")
                         /\ verifiers[v].key = k /\ verifiers[v].keeper = keys[k].keeper
<1>1. ApiKeysInv /\ [ApiKeysNext]_apiKeyVars => Reason \/ UNCHANGED apiKeyVars
  <2> SUFFICES ASSUME ApiKeysInv, [ApiKeysNext]_apiKeyVars, NEW k \in KeyIds,
                      Stored(k), ~Stored(k)'
               PROVE  \/ Expired(k)
                      \/ \E v \in Verifiers :
                            /\ Standing(v, "delete")
                            /\ verifiers[v].key = k /\ verifiers[v].keeper = keys[k].keeper
    OBVIOUS
  <2>1. ASSUME UNCHANGED keys  PROVE FALSE
    BY <2>1 DEF Stored
  <2>2. ASSUME NEW u \in Keepers, NEW expires \in 1..Never, CreateKey(u, expires)
        PROVE  FALSE
    <3>1. k # lastKey + 1
      BY KeyFacts DEF ApiKeysInv, VerifiersKnow
    <3> QED
      BY <2>2, <3>1 DEF CreateKey, Stored, ApiKeysInv, ApiKeysTypeOK
  <2>3. PICK v \in Verifiers : PurgeKey(v) \/ TouchKey(v) \/ DeleteKey(v)
    BY <2>1, <2>2 DEF ApiKeysNext, apiKeyVars, VerifyKey, AskKeyDeletion, HourPasses
  <2>4. /\ k = verifiers[v].key
        /\ \/ Standing(v, "purge")
           \/ Standing(v, "delete") /\ verifiers[v].keeper = keys[k].keeper
    BY <2>3, KeysChange DEF Stored
  <2> QED
    BY <2>4 DEF ApiKeysInv, VerifiersKnow
<1> QED
  BY <1>1, ApiKeysInvariant, PTL DEF ApiKeysSpec, KeysEndWithReason

-----------------------------------------------------------------------------
(* The components side by side.                                            *)

\* What TLC runs is a behaviour of each component, so what is proved of the components
\* holds of the run: the composition adds no step to them.
THEOREM CredentialsRunTheComponents ==
  CredentialsSpec => Spec /\ SocialSpec /\ PasskeysSpec /\ ApiKeysSpec
<1>1. CredentialsInit => Init /\ SocialInit /\ PasskeysInit /\ ApiKeysInit
  BY DEF CredentialsInit
<1>2. [CredentialsNext]_credentialsVars =>
         /\ [Next]_vars /\ [SocialNext]_socialVars
         /\ [PasskeysNext]_passkeyVars /\ [ApiKeysNext]_apiKeyVars
  BY DEF CredentialsNext, credentialsVars
<1> QED
  BY <1>1, <1>2, PTL DEF CredentialsSpec, Spec, SocialSpec, PasskeysSpec, ApiKeysSpec

\* Every reachable state of the composition is well typed.
THEOREM CredentialsTypeCorrect == CredentialsSpec => []CredentialsTypeOK
<1> DEFINE Moving == moving \in {"factor", "social", "passkeys", "keys"}
<1>1. CredentialsInit => Moving
  BY DEF CredentialsInit
<1>2. Moving /\ [CredentialsNext]_credentialsVars => Moving'
  BY DEF CredentialsNext, credentialsVars
<1>3. Moving /\ TypeOK /\ SocialTypeOK /\ PasskeysTypeOK /\ ApiKeysTypeOK => CredentialsTypeOK
  BY DEF CredentialsTypeOK
<1> HIDE DEF Moving
<1> QED
  BY <1>1, <1>2, <1>3, CredentialsRunTheComponents, TypeCorrect, SocialTypeCorrect,
     PasskeysTypeCorrect, ApiKeysTypeCorrect, PTL
     DEF CredentialsSpec
=============================================================================
