---------------------------- MODULE Accounts_proofs ----------------------------
(***************************************************************************)
(* A password signs in only where no second factor is on, an email counts  *)
(* as verified only once a token mailed to it was accepted, and whoever is *)
(* signed in can sign in again, for any number of handlers, users, mails   *)
(* and sessions.                                                           *)
(***************************************************************************)
EXTENDS Accounts, TLAPS

USE AccountsAssumption

\* What a handler that is suspended has made sure of, and nobody takes back.
Knows(x) ==
    /\ x.email \in Emails
    /\ x.pc \in {"user", "account"} => x.password \in Passwords
    /\ x.pc \in {"account", "mail", "insert", "password", "factor", "mark"} =>
          users[x.email] # "absent"
    /\ x.pc \in {"mail", "factor"} => accounts[x.email] # NoPassword
    /\ x.pc = "insert" => accounts[x.email] # NoPassword \/ users[x.email] = "verified"
    /\ x.pc = "password" => x.password \in Passwords
    /\ x.pc \in {"consume", "reset", "confirm", "find", "create", "mark"} =>
          /\ x.token \in Tokens
          /\ verifications[x.token].status # "absent"
          /\ verifications[x.token].email = x.email
          /\ verifications[x.token].kind = x.kind
    /\ x.pc \in {"confirm", "find", "create", "mark"} =>
          x.kind # "reset" /\ honoured[x.token] > 0
    /\ x.pc = "consume" /\ x.kind = "reset" => x.new \in Passwords
    /\ x.pc \in {"reset", "current", "change"} => x.new \in Passwords

RequestsKnow ==
    \A r \in Requests : /\ At(r, "idle") => requests[r].token = None
                        /\ ~At(r, "idle") => Knows(requests[r])

\* A sign-in that began with the second factor on, and sees it stay so, gets no further
\* than the question for it.
StrictMeansOn ==
    \A r \in Requests : requests[r].strict =>
       /\ requests[r].pc \in {"password", "factor"}
       /\ requests[r].email \in Emails
       /\ factor[requests[r].email]

\* A token is mailed to somebody, and gone once it was accepted.
TokensAreSound ==
    \A t \in Tokens :
       /\ verifications[t].status # "absent" => verifications[t].email \in Emails
       /\ honoured[t] > 0 => verifications[t].status = "deleted"

SessionsHaveUsers == \A s \in SessionIds : Stored(s) => sessions[s].email \in Emails

IInv ==
    /\ TypeOK
    /\ RequestsKnow
    /\ StrictMeansOn
    /\ TokensAreSound
    /\ SessionsHaveUsers
    /\ SecondFactorIsAsked
    /\ EmailsAreProven
    /\ SessionsHaveCredentials

-----------------------------------------------------------------------------
(* What no step takes back.                                                *)

UsersAdvance ==
    \A e \in Emails :
       /\ users[e] # "absent" => users'[e] # "absent"
       /\ users[e] = "verified" => users'[e] = "verified"
       /\ accounts[e] # NoPassword => accounts'[e] # NoPassword

TokensAdvance ==
    \A t \in Tokens :
       /\ honoured[t] > 0 => honoured'[t] > 0
       /\ verifications[t].status = "deleted" => verifications'[t].status = "deleted"
       /\ verifications[t].status # "absent" =>
             /\ verifications'[t].status # "absent"
             /\ verifications'[t].email = verifications[t].email
             /\ verifications'[t].kind = verifications[t].kind

LEMMA KnowledgeStays ==
  ASSUME TypeOK, UsersAdvance, TokensAdvance, NEW x, Knows(x)
  PROVE  Knows(x)'
BY DEF Knows, UsersAdvance, TokensAdvance

\* One handler moves to the locals x.
LEMMA HandlerBecomes ==
  ASSUME IInv, UsersAdvance, TokensAdvance, UNCHANGED factor,
         NEW r \in Requests, NEW x \in Locals, requests' = [requests EXCEPT ![r] = x],
         x.pc = "idle" => x.token = None,
         x.pc # "idle" => Knows(x)',
         x.strict => /\ x.pc \in {"password", "factor"}
                     /\ x.email \in Emails
                     /\ factor[x.email]
  PROVE  /\ requests' \in [Requests -> Locals]
         /\ RequestsKnow'
         /\ StrictMeansOn'
<1> USE DEF IInv
<1>1. \A q \in Requests : requests'[q] = IF q = r THEN x ELSE requests[q]
  BY DEF TypeOK
<1>2. requests' \in [Requests -> Locals]
  BY DEF TypeOK
<1>3. ASSUME NEW q \in Requests, NEW y, y = requests'[q], y.pc # "idle"
      PROVE  Knows(y)'
  <2>1. CASE q = r
    BY <1>1, <1>3, <2>1
  <2>2. CASE q # r
    BY <1>1, <1>3, <2>2, KnowledgeStays DEF RequestsKnow, At
  <2> QED
    BY <2>1, <2>2
<1>4. RequestsKnow'
  BY <1>1, <1>3 DEF RequestsKnow, At, Knows
<1>5. StrictMeansOn'
  BY <1>1 DEF StrictMeansOn
<1> QED
  BY <1>2, <1>4, <1>5

\* The locals of a handler that goes on to its next call.
LEMMA HandlerGoes ==
  ASSUME TypeOK, NEW r \in Requests, NEW label \in Labels, Goto(r, label)
  PROVE  \E x \in Locals :
           /\ requests' = [requests EXCEPT ![r] = x]
           /\ x.pc = label /\ x.email = requests[r].email
           /\ x.password = requests[r].password /\ x.new = requests[r].new
           /\ x.token = requests[r].token /\ x.kind = requests[r].kind
           /\ x.strict = requests[r].strict
<1>1. PICK x : x = [requests[r] EXCEPT !.pc = label]
  OBVIOUS
<1>2. requests[r] \in Locals
  BY DEF TypeOK
<1>3. x \in Locals
  BY <1>1, <1>2 DEF Locals
<1>4. requests' = [requests EXCEPT ![r] = x]
  BY <1>1 DEF Goto
<1>5. /\ x.pc = label /\ x.email = requests[r].email
      /\ x.password = requests[r].password /\ x.new = requests[r].new
      /\ x.token = requests[r].token /\ x.kind = requests[r].kind
      /\ x.strict = requests[r].strict
  BY <1>1, <1>2 DEF Locals
<1> QED
  BY <1>3, <1>4, <1>5

LEMMA HandlerReturns ==
  ASSUME IInv, UsersAdvance, TokensAdvance, UNCHANGED factor, NEW r \in Requests, Return(r)
  PROVE  /\ requests' \in [Requests -> Locals]
         /\ RequestsKnow'
         /\ StrictMeansOn'
<1>1. Blank \in Locals /\ Blank.pc = "idle" /\ Blank.token = None /\ ~Blank.strict
  BY DEF Blank, Locals, Labels, Kinds, AnyEmail, AnyPassword
<1> QED
  BY <1>1, HandlerBecomes DEF Return

\* What a handler that is called has made sure of.
LEMMA HandlerFacts ==
  ASSUME IInv, NEW r \in Requests, ~At(r, "idle")
  PROVE  /\ requests[r] \in Locals
         /\ Knows(requests[r])
         /\ requests[r].email \in Emails
         /\ requests[r].strict => /\ At(r, "password") \/ At(r, "factor")
                                  /\ factor[requests[r].email]
BY DEF IInv, TypeOK, RequestsKnow, StrictMeansOn, Knows, At

-----------------------------------------------------------------------------
(* Tables that a step leaves alone.                                        *)

LEMMA SessionsKept ==
  ASSUME IInv, UsersAdvance, UNCHANGED sessions
  PROVE  SessionsHaveUsers' /\ SecondFactorIsAsked' /\ SessionsHaveCredentials'
BY DEF IInv, UsersAdvance, SessionsHaveUsers, SecondFactorIsAsked, SessionsHaveCredentials,
       Stored, Registered

LEMMA TokensKept ==
  ASSUME IInv, UNCHANGED <<verifications, honoured>>
  PROVE  TokensAdvance /\ TokensAreSound'
BY DEF IInv, TokensAdvance, TokensAreSound

LEMMA UsersKept ==
  ASSUME UNCHANGED <<users, accounts>>
  PROVE  UsersAdvance
BY DEF UsersAdvance

\* The tokens that proved an email stay accepted.
LEMMA ProofsStay ==
  ASSUME IInv, TokensAdvance, NEW e \in Emails, users[e] = "verified"
  PROVE  \E t \in Tokens : /\ verifications'[t].email = e
                           /\ verifications'[t].kind # "reset"
                           /\ honoured'[t] > 0
<1>1. PICK t \in Tokens : /\ verifications[t].email = e
                          /\ verifications[t].kind # "reset"
                          /\ honoured[t] > 0
  BY DEF IInv, EmailsAreProven
<1>2. verifications[t].status = "deleted"
  BY <1>1 DEF IInv, TokensAreSound
<1> QED
  BY <1>1, <1>2 DEF TokensAdvance

LEMMA EmailsKept ==
  ASSUME IInv, TokensAdvance, UNCHANGED users
  PROVE  EmailsAreProven'
BY ProofsStay DEF EmailsAreProven

\* The email of a row becomes verified, for a handler that holds the token.
LEMMA EmailProven ==
  ASSUME IInv, UNCHANGED <<verifications, honoured>>, NEW r \in Requests,
         At(r, "confirm") \/ At(r, "create") \/ At(r, "mark"),
         users' = [users EXCEPT ![requests[r].email] = "verified"]
  PROVE  EmailsAreProven'
<1> DEFINE t == requests[r].token
<1>1. ~At(r, "idle")
  BY DEF At
<1>2. /\ t \in Tokens /\ verifications[t].email = requests[r].email
      /\ verifications[t].kind # "reset" /\ honoured[t] > 0
  BY <1>1, HandlerFacts DEF Knows, At
<1>3. \A e \in Emails : e # requests[r].email => users'[e] = users[e]
  BY DEF IInv, TypeOK
<1> QED
  BY <1>2, <1>3 DEF EmailsAreProven, IInv

\* The rows of users and accounts that a step of a handler writes.
LEMMA UserWritten ==
  ASSUME IInv, NEW e \in Emails, NEW status \in {"unverified", "verified"},
         users' = [users EXCEPT ![e] = status], UNCHANGED accounts,
         status = "verified" \/ users[e] # "verified"
  PROVE  users' \in [Emails -> {"absent", "unverified", "verified"}] /\ UsersAdvance
BY DEF IInv, TypeOK, UsersAdvance

LEMMA AccountWritten ==
  ASSUME IInv, NEW e \in Emails, NEW password \in Passwords,
         accounts' = [accounts EXCEPT ![e] = password], UNCHANGED users
  PROVE  accounts' \in [Emails -> AnyPassword] /\ UsersAdvance
BY DEF IInv, TypeOK, UsersAdvance, AnyPassword

-----------------------------------------------------------------------------
(* The steps of the handlers.                                              *)

\* A handler that only reads, and goes on or gives up.
LEMMA ReadStep ==
  ASSUME IInv, NEW r \in Requests,
         CheckPassword(r) \/ CheckFactor(r) \/ FindUser(r) \/ CheckCurrent(r)
  PROVE  IInv'
<1>1. /\ UNCHANGED <<users, accounts, factor, verifications, sessions, honoured>>
      /\ ~At(r, "idle")
  BY DEF CheckPassword, CheckFactor, FindUser, CheckCurrent, At
<1>2. /\ UsersAdvance /\ TokensAdvance /\ EmailsAreProven'
      /\ SessionsHaveUsers' /\ SecondFactorIsAsked' /\ SessionsHaveCredentials'
      /\ TokensAreSound'
  BY <1>1, UsersKept, TokensKept, EmailsKept, SessionsKept
<1>3. /\ requests' \in [Requests -> Locals]
      /\ RequestsKnow'
      /\ StrictMeansOn'
  <2>1. CASE Return(r)
    BY <1>1, <1>2, <2>1, HandlerReturns
  <2>2. CASE ~Return(r)
    <3>1. PICK label \in Labels :
            /\ Goto(r, label)
            /\ \/ /\ At(r, "password") /\ label = "factor"
                  /\ accounts[requests[r].email] = requests[r].password
               \/ At(r, "factor") /\ label = "insert" /\ ~factor[requests[r].email]
               \/ At(r, "find") /\ label = "create"
               \/ At(r, "find") /\ label = "mark" /\ users[requests[r].email] = "unverified"
               \/ At(r, "find") /\ label = "insert" /\ users[requests[r].email] = "verified"
               \/ At(r, "current") /\ label = "change"
      <4>1. requests[r].email \in Emails
        BY <1>1, HandlerFacts
      <4>2. users[requests[r].email] \in {"absent", "unverified", "verified"}
        BY <4>1 DEF IInv, TypeOK
      <4> QED
        BY <2>2, <4>2 DEF CheckPassword, CheckFactor, FindUser, CheckCurrent, Labels
    <3>2. PICK x \in Locals :
           /\ requests' = [requests EXCEPT ![r] = x]
           /\ x.pc = label /\ x.email = requests[r].email
           /\ x.password = requests[r].password /\ x.new = requests[r].new
           /\ x.token = requests[r].token /\ x.kind = requests[r].kind
           /\ x.strict = requests[r].strict
      BY <3>1, HandlerGoes DEF IInv
    <3>3. requests[r].email \in Emails /\ Knows(requests[r])
      BY <1>1, HandlerFacts
    <3>4. Knows(x)
      <4>1. CASE At(r, "password") \/ At(r, "factor")
        BY <3>1, <3>2, <3>3, <4>1 DEF Knows, At
      <4>2. CASE At(r, "find")
        BY <3>1, <3>2, <3>3, <4>2 DEF Knows, At
      <4>3. CASE At(r, "current")
        BY <3>1, <3>2, <3>3, <4>3 DEF Knows, At
      <4> QED
        BY <3>1, <4>1, <4>2, <4>3
    <3>5. Knows(x)'
      BY <1>2, <3>4, KnowledgeStays DEF IInv
    <3>6. x.strict => x.pc = "factor" /\ factor[x.email]
      BY <1>1, <3>1, <3>2, HandlerFacts DEF At
    <3> QED
      BY <1>1, <1>2, <3>1, <3>2, <3>3, <3>5, <3>6, HandlerBecomes
  <2> QED
    BY <2>1, <2>2
<1> QED
  BY <1>1, <1>2, <1>3 DEF IInv, TypeOK

\* The row of a user is inserted or marked.
LEMMA UserStep ==
  ASSUME IInv, NEW r \in Requests,
         CreateUser(r) \/ CreateVerified(r) \/ MarkVerified(r) \/ Confirm(r)
  PROVE  IInv'
<1> DEFINE e == requests[r].email
<1>1. /\ UNCHANGED <<accounts, factor, verifications, sessions, honoured>>
      /\ ~At(r, "idle")
  BY DEF CreateUser, CreateVerified, MarkVerified, Confirm, At
<1>2. e \in Emails /\ Knows(requests[r]) /\ ~requests[r].strict
  BY <1>1, HandlerFacts DEF CreateUser, CreateVerified, MarkVerified, Confirm, At
<1>3. /\ users' \in [Emails -> {"absent", "unverified", "verified"}]
      /\ UsersAdvance /\ EmailsAreProven'
  <2>1. CASE UNCHANGED users
    BY <1>1, <2>1, UsersKept, TokensKept, EmailsKept DEF IInv, TypeOK
  <2>2. CASE users' = [users EXCEPT ![e] = "unverified"] /\ ~Registered(e)
    <3>1. users' \in [Emails -> {"absent", "unverified", "verified"}] /\ UsersAdvance
      BY <1>1, <1>2, <2>2, UserWritten DEF Registered
    <3>2. \A f \in Emails : users'[f] = "verified" => users[f] = "verified"
      BY <1>2, <2>2 DEF IInv, TypeOK
    <3>3. TokensAdvance
      BY <1>1, TokensKept
    <3> QED
      BY <3>1, <3>2, <3>3, ProofsStay DEF EmailsAreProven
  <2>3. CASE /\ users' = [users EXCEPT ![e] = "verified"]
             /\ At(r, "confirm") \/ At(r, "create") \/ At(r, "mark")
    BY <1>1, <1>2, <2>3, UserWritten, EmailProven
  <2> QED
    BY <2>1, <2>2, <2>3 DEF CreateUser, CreateVerified, MarkVerified, Confirm
<1>4. /\ TokensAdvance /\ TokensAreSound'
      /\ SessionsHaveUsers' /\ SecondFactorIsAsked' /\ SessionsHaveCredentials'
  BY <1>1, <1>3, TokensKept, SessionsKept
<1>5. /\ requests' \in [Requests -> Locals]
      /\ RequestsKnow'
      /\ StrictMeansOn'
  <2>1. CASE Return(r)
    BY <1>1, <1>3, <1>4, <2>1, HandlerReturns
  <2>2. CASE ~Return(r)
    <3>1. PICK label \in Labels :
            /\ Goto(r, label)
            /\ \/ /\ At(r, "user") /\ label = "account"
                  /\ users' = [users EXCEPT ![e] = "unverified"]
               \/ /\ At(r, "create") \/ At(r, "mark")
                  /\ label = "insert"
                  /\ users' = [users EXCEPT ![e] = "verified"]
      BY <2>2 DEF CreateUser, CreateVerified, MarkVerified, Confirm, Labels
    <3>2. PICK x \in Locals :
           /\ requests' = [requests EXCEPT ![r] = x]
           /\ x.pc = label /\ x.email = requests[r].email
           /\ x.password = requests[r].password /\ x.new = requests[r].new
           /\ x.token = requests[r].token /\ x.kind = requests[r].kind
           /\ x.strict = requests[r].strict
      BY <3>1, HandlerGoes DEF IInv
    <3>3. users'[e] # "absent" /\ (label = "insert" => users'[e] = "verified")
      BY <1>2, <3>1 DEF IInv, TypeOK
    <3>4. Knows(x)'
      BY <1>2, <3>1, <3>2, <3>3 DEF Knows, At
    <3> QED
      BY <1>1, <1>2, <1>3, <1>4, <3>1, <3>2, <3>4, HandlerBecomes
  <2> QED
    BY <2>1, <2>2
<1> QED
  BY <1>1, <1>3, <1>4, <1>5 DEF IInv, TypeOK

\* A password is stored or replaced.
LEMMA PasswordStep ==
  ASSUME IInv, NEW r \in Requests, CreateAccount(r) \/ Reset(r) \/ ChangePassword(r)
  PROVE  IInv'
<1> DEFINE e == requests[r].email
<1>1. /\ UNCHANGED <<users, factor, verifications, sessions, honoured>>
      /\ ~At(r, "idle")
  BY DEF CreateAccount, Reset, ChangePassword, At
<1>2. e \in Emails /\ Knows(requests[r]) /\ ~requests[r].strict
  BY <1>1, HandlerFacts DEF CreateAccount, Reset, ChangePassword, At
<1>3. /\ accounts' \in [Emails -> AnyPassword]
      /\ UsersAdvance
      /\ CreateAccount(r) => accounts'[e] # NoPassword
  <2>1. CASE UNCHANGED accounts
    BY <1>1, <1>2, <2>1, UsersKept DEF IInv, TypeOK, CreateAccount, Knows, At
  <2>2. CASE accounts' # accounts
    <3>1. PICK password \in Passwords : accounts' = [accounts EXCEPT ![e] = password]
      BY <1>2, <2>2 DEF CreateAccount, Reset, ChangePassword, Knows, At
    <3> QED
      BY <1>1, <1>2, <3>1, AccountWritten DEF IInv, TypeOK
  <2> QED
    BY <2>1, <2>2
<1>4. /\ TokensAdvance /\ TokensAreSound' /\ EmailsAreProven'
      /\ SessionsHaveUsers' /\ SecondFactorIsAsked' /\ SessionsHaveCredentials'
  BY <1>1, <1>3, TokensKept, SessionsKept, EmailsKept
<1>5. /\ requests' \in [Requests -> Locals]
      /\ RequestsKnow'
      /\ StrictMeansOn'
  <2>1. CASE Return(r)
    BY <1>1, <1>3, <1>4, <2>1, HandlerReturns
  <2>2. CASE ~Return(r)
    <3>1. PICK label \in Labels :
            /\ Goto(r, label)
            /\ \/ At(r, "account") /\ label = "mail" /\ CreateAccount(r)
               \/ At(r, "reset") /\ label = "sweep"
               \/ At(r, "change") /\ label = "others"
      BY <2>2 DEF CreateAccount, Reset, ChangePassword, Labels
    <3>2. PICK x \in Locals :
           /\ requests' = [requests EXCEPT ![r] = x]
           /\ x.pc = label /\ x.email = requests[r].email
           /\ x.password = requests[r].password /\ x.new = requests[r].new
           /\ x.token = requests[r].token /\ x.kind = requests[r].kind
           /\ x.strict = requests[r].strict
      BY <3>1, HandlerGoes DEF IInv
    <3>3. Knows(x)'
      BY <1>1, <1>2, <1>3, <3>1, <3>2 DEF Knows, At
    <3> QED
      BY <1>1, <1>2, <1>3, <1>4, <3>1, <3>2, <3>3, HandlerBecomes
  <2> QED
    BY <2>1, <2>2
<1> QED
  BY <1>1, <1>3, <1>4, <1>5 DEF IInv, TypeOK

\* The rows of the table that a step of a handler inserts or deletes.
LEMMA TokenInserted ==
  ASSUME IInv, NEW kind \in Kinds, NEW e \in Emails, CreateVerification(kind, e),
         UNCHANGED honoured
  PROVE  /\ verifications' \in [Tokens -> VerificationRow]
         /\ TokensAdvance
         /\ TokensAreSound'
<1>1. PICK t \in Tokens :
        /\ verifications[t].status = "absent"
        /\ verifications' = [verifications EXCEPT ![t] =
                               [status |-> "stored", kind |-> kind, email |-> e,
                                expired |-> FALSE]]
  BY DEF CreateVerification, IsNextToken
<1>2. verifications' \in [Tokens -> VerificationRow]
  BY <1>1 DEF IInv, TypeOK, VerificationRow, AnyEmail
<1>3. \A u \in Tokens : u # t => verifications'[u] = verifications[u]
  BY <1>1 DEF IInv, TypeOK
<1>4. ~(honoured[t] > 0)
  BY <1>1 DEF IInv, TokensAreSound
<1> QED
  BY <1>1, <1>2, <1>3, <1>4 DEF IInv, TokensAdvance, TokensAreSound

LEMMA MailStep ==
  ASSUME IInv, NEW r \in Requests, Mail(r)
  PROVE  IInv'
<1>1. /\ UNCHANGED <<users, accounts, factor, sessions, honoured>>
      /\ ~At(r, "idle") /\ At(r, "mail")
      /\ Goto(r, "insert")
  BY DEF Mail, At
<1>2. requests[r].email \in Emails /\ Knows(requests[r]) /\ ~requests[r].strict
  BY <1>1, HandlerFacts DEF At
<1>3. /\ verifications' \in [Tokens -> VerificationRow]
      /\ TokensAdvance
      /\ TokensAreSound'
  BY <1>1, <1>2, TokenInserted DEF Mail, Kinds
<1>4. /\ UsersAdvance /\ EmailsAreProven'
      /\ SessionsHaveUsers' /\ SecondFactorIsAsked' /\ SessionsHaveCredentials'
  BY <1>1, <1>3, UsersKept, SessionsKept, EmailsKept
<1>5. PICK x \in Locals :
        /\ requests' = [requests EXCEPT ![r] = x]
        /\ x.pc = "insert" /\ x.email = requests[r].email
        /\ x.strict = requests[r].strict
  BY <1>1, HandlerGoes DEF IInv, Labels
<1>6. Knows(x)'
  BY <1>1, <1>2, <1>5 DEF Knows, At
<1>7. /\ requests' \in [Requests -> Locals]
      /\ RequestsKnow'
      /\ StrictMeansOn'
  BY <1>1, <1>2, <1>3, <1>4, <1>5, <1>6, HandlerBecomes
<1> QED
  BY <1>1, <1>3, <1>4, <1>7 DEF IInv, TypeOK

\* One-shot: the row is gone before the token is accepted.
LEMMA ConsumeStep ==
  ASSUME IInv, NEW r \in Requests, Consume(r)
  PROVE  IInv'
<1> DEFINE t == requests[r].token
           row == [verifications[t] EXCEPT !.status = "deleted"]
<1>1. /\ UNCHANGED <<users, accounts, factor, sessions>>
      /\ ~At(r, "idle") /\ At(r, "consume")
      /\ verifications' = [verifications EXCEPT ![t] = row]
  BY DEF Consume, At
<1>2. Knows(requests[r]) /\ ~requests[r].strict /\ requests[r] \in Locals
  BY <1>1, HandlerFacts DEF At
<1>3. t \in Tokens /\ verifications[t] \in VerificationRow /\ verifications[t].email \in Emails
  BY <1>1, <1>2 DEF Knows, At, IInv, TypeOK
<1>4. /\ row \in VerificationRow /\ row.status = "deleted"
      /\ row.email = verifications[t].email /\ row.kind = verifications[t].kind
  BY <1>3 DEF VerificationRow
<1> HIDE DEF row
<1>5. /\ verifications' \in [Tokens -> VerificationRow]
      /\ \A u \in Tokens : verifications'[u] = IF u = t THEN row ELSE verifications[u]
  BY <1>1, <1>3, <1>4 DEF IInv, TypeOK
<1>6. /\ honoured' \in [Tokens -> Nat]
      /\ \A u \in Tokens : honoured[u] > 0 => honoured'[u] > 0
      /\ \A u \in Tokens : u # t => honoured'[u] = honoured[u]
  BY <1>3 DEF Consume, IInv, TypeOK
<1>7. TokensAdvance /\ TokensAreSound'
  BY <1>3, <1>4, <1>5, <1>6 DEF TokensAdvance, TokensAreSound, IInv
<1>8. /\ UsersAdvance /\ EmailsAreProven'
      /\ SessionsHaveUsers' /\ SecondFactorIsAsked' /\ SessionsHaveCredentials'
  BY <1>1, <1>7, UsersKept, SessionsKept, EmailsKept
<1>9. /\ requests' \in [Requests -> Locals]
      /\ RequestsKnow'
      /\ StrictMeansOn'
  <2>1. CASE Return(r)
    BY <1>1, <1>7, <1>8, <2>1, HandlerReturns
  <2>2. CASE ~Return(r)
    <3>1. PICK label \in Labels :
            /\ Goto(r, label)
            /\ \/ label = "reset" /\ requests[r].kind = "reset"
               \/ label = "confirm" /\ requests[r].kind = "verify"
               \/ label = "find" /\ requests[r].kind = "magic"
      BY <1>2, <2>2 DEF Consume, Honoured, Locals, Kinds, Labels
    <3>2. honoured'[t] > 0
      BY <1>3, <2>2 DEF Consume, IInv, TypeOK
    <3>3. PICK x \in Locals :
           /\ requests' = [requests EXCEPT ![r] = x]
           /\ x.pc = label /\ x.email = requests[r].email
           /\ x.password = requests[r].password /\ x.new = requests[r].new
           /\ x.token = requests[r].token /\ x.kind = requests[r].kind
           /\ x.strict = requests[r].strict
      BY <3>1, HandlerGoes DEF IInv
    <3>4. Knows(x)'
      BY <1>1, <1>2, <1>3, <1>4, <1>5, <3>1, <3>2, <3>3 DEF Knows, At
    <3> QED
      BY <1>1, <1>2, <1>7, <1>8, <3>1, <3>3, <3>4, HandlerBecomes
  <2> QED
    BY <2>1, <2>2
<1> QED
  BY <1>1, <1>5, <1>6, <1>7, <1>8, <1>9 DEF IInv, TypeOK

\* Sessions are started ...
LEMMA InsertStep ==
  ASSUME IInv, NEW r \in Requests, Insert(r)
  PROVE  IInv'
<1>1. /\ UNCHANGED <<users, accounts, factor, verifications, honoured>>
      /\ ~At(r, "idle") /\ At(r, "insert") /\ Return(r)
  BY DEF Insert, At
<1>2. Knows(requests[r]) /\ requests[r].email \in Emails /\ ~requests[r].strict
  BY <1>1, HandlerFacts DEF At
<1>3. PICK s \in SessionIds :
        sessions' = [sessions EXCEPT ![s] = [status |-> "stored", email |-> requests[r].email,
                                             bypass |-> requests[r].strict]]
  BY DEF Insert
<1>4. requests[r].strict \in BOOLEAN
  BY DEF IInv, TypeOK, Locals
<1>5. sessions' \in [SessionIds -> SessionRow]
  BY <1>2, <1>3, <1>4 DEF IInv, TypeOK, SessionRow, AnyEmail
<1>6. \A u \in SessionIds :
        \/ sessions'[u] = sessions[u]
        \/ sessions'[u].email = requests[r].email /\ ~sessions'[u].bypass
  BY <1>2, <1>3 DEF IInv, TypeOK
<1>7. SessionsHaveUsers' /\ SecondFactorIsAsked' /\ SessionsHaveCredentials'
  BY <1>1, <1>2, <1>6 DEF IInv, SessionsHaveUsers, SecondFactorIsAsked, Knows, At,
     SessionsHaveCredentials, Stored, Registered
<1>8. UsersAdvance /\ TokensAdvance /\ EmailsAreProven' /\ TokensAreSound'
  BY <1>1, UsersKept, TokensKept, EmailsKept
<1>9. /\ requests' \in [Requests -> Locals]
      /\ RequestsKnow'
      /\ StrictMeansOn'
  BY <1>1, <1>8, HandlerReturns
<1> QED
  BY <1>1, <1>5, <1>7, <1>8, <1>9 DEF IInv, TypeOK

\* ... and ended.
LEMMA DeleteSessionsStep ==
  ASSUME IInv, NEW r \in Requests, Sweep(r) \/ RevokeOthers(r)
  PROVE  IInv'
<1>1. /\ UNCHANGED <<users, accounts, factor, verifications, honoured>>
      /\ Return(r)
  BY DEF Sweep, RevokeOthers
<1>2. PICK S : DeleteSessions(S)
  BY DEF Sweep, RevokeOthers
<1>3. \A s \in SessionIds : sessions'[s] \in {sessions[s], [sessions[s] EXCEPT !.status = "deleted"]}
  BY <1>2 DEF DeleteSessions
<1>4. ASSUME NEW s \in SessionIds
      PROVE  /\ sessions'[s] \in SessionRow
             /\ sessions'[s].status = "stored" => sessions'[s] = sessions[s]
             /\ sessions'[s].bypass = sessions[s].bypass
  <2>1. sessions[s] \in SessionRow
    BY DEF IInv, TypeOK
  <2>2. CASE sessions'[s] = sessions[s]
    BY <2>1, <2>2
  <2>3. CASE sessions'[s] = [sessions[s] EXCEPT !.status = "deleted"]
    BY <2>1, <2>3 DEF SessionRow
  <2> QED
    BY <1>3, <2>2, <2>3
<1>5. \A s \in SessionIds : /\ sessions'[s] \in SessionRow
                            /\ Stored(s)' => sessions'[s] = sessions[s]
                            /\ sessions'[s].bypass = sessions[s].bypass
  BY <1>4 DEF Stored
<1>6. sessions' \in [SessionIds -> SessionRow]
  BY <1>2, <1>5 DEF DeleteSessions
<1>7. SessionsHaveUsers' /\ SecondFactorIsAsked' /\ SessionsHaveCredentials'
  BY <1>1, <1>5 DEF IInv, SessionsHaveUsers, SecondFactorIsAsked, SessionsHaveCredentials,
     Stored, Registered
<1>8. UsersAdvance /\ TokensAdvance /\ EmailsAreProven' /\ TokensAreSound'
  BY <1>1, UsersKept, TokensKept, EmailsKept
<1>9. /\ requests' \in [Requests -> Locals]
      /\ RequestsKnow'
      /\ StrictMeansOn'
  BY <1>1, <1>8, HandlerReturns
<1> QED
  BY <1>1, <1>6, <1>7, <1>8, <1>9 DEF IInv, TypeOK

-----------------------------------------------------------------------------
(* The steps that let a request in, and those of no handler.               *)

\* A request that is let in changes nothing but its own locals.
LEMMA ArrivalStep ==
  ASSUME IInv, NEW r \in Requests, Arrival(r)
  PROVE  IInv'
<1>1. UNCHANGED <<users, accounts, factor, verifications, sessions, honoured>>
  BY DEF Arrival, SignUp, SignIn, Follow, Change
<1>2. /\ UsersAdvance /\ TokensAdvance /\ EmailsAreProven'
      /\ SessionsHaveUsers' /\ SecondFactorIsAsked' /\ SessionsHaveCredentials'
      /\ TokensAreSound'
  BY <1>1, UsersKept, TokensKept, EmailsKept, SessionsKept
<1>3. PICK x \in Locals :
        /\ requests' = [requests EXCEPT ![r] = x]
        /\ Knows(x) /\ x.pc # "idle"
        /\ x.strict => x.pc = "password" /\ factor[x.email]
  <2>1. ASSUME NEW e \in Emails, NEW p \in Passwords, SignUp(r, e, p)
        PROVE  \E x \in Locals :
                 /\ requests' = [requests EXCEPT ![r] = x]
                 /\ Knows(x) /\ x.pc # "idle"
                 /\ x.strict => x.pc = "password" /\ factor[x.email]
    <3>1. PICK x : x = [Blank EXCEPT !.pc = "user", !.email = e, !.password = p]
      OBVIOUS
    <3>2. x \in Locals
      BY <3>1 DEF Blank, Locals, Labels, Kinds, AnyEmail, AnyPassword
    <3>3. x.pc = "user" /\ x.email = e /\ x.password = p /\ ~x.strict
      BY <3>1 DEF Blank
    <3>4. requests' = [requests EXCEPT ![r] = x]
      BY <2>1, <3>1 DEF SignUp
    <3> QED
      BY <3>2, <3>3, <3>4 DEF Knows
  <2>2. ASSUME NEW e \in Emails, NEW p \in Passwords, SignIn(r, e, p)
        PROVE  \E x \in Locals :
                 /\ requests' = [requests EXCEPT ![r] = x]
                 /\ Knows(x) /\ x.pc # "idle"
                 /\ x.strict => x.pc = "password" /\ factor[x.email]
    <3>1. PICK x : x = [Blank EXCEPT !.pc = "password", !.email = e, !.password = p,
                                     !.strict = factor[e]]
      OBVIOUS
    <3>2. x \in Locals
      BY <3>1 DEF Blank, Locals, Labels, Kinds, AnyEmail, AnyPassword, IInv, TypeOK
    <3>3. x.pc = "password" /\ x.email = e /\ x.password = p /\ x.strict = factor[e]
      BY <3>1 DEF Blank
    <3>4. requests' = [requests EXCEPT ![r] = x] /\ users[e] # "absent"
      BY <2>2, <3>1 DEF SignIn, Registered
    <3> QED
      BY <3>2, <3>3, <3>4 DEF Knows
  <2>3. ASSUME NEW t \in Tokens, NEW kind \in Kinds, NEW new \in AnyPassword,
               kind = "reset" => new \in Passwords,
               Follow(r, t, kind, new)
        PROVE  \E x \in Locals :
                 /\ requests' = [requests EXCEPT ![r] = x]
                 /\ Knows(x) /\ x.pc # "idle"
                 /\ x.strict => x.pc = "password" /\ factor[x.email]
    <3>1. PICK x : x = [Blank EXCEPT !.pc = "consume", !.token = t, !.kind = kind,
                                     !.new = new, !.email = verifications[t].email]
      OBVIOUS
    <3>2. /\ verifications[t].status = "stored" /\ verifications[t].kind = kind
          /\ verifications[t].email \in Emails
      BY <2>3 DEF Follow, Mailed, IInv, TokensAreSound
    <3>3. x \in Locals
      BY <2>3, <3>1, <3>2 DEF Blank, Locals, Labels, AnyEmail, AnyPassword
    <3>4. /\ x.pc = "consume" /\ x.token = t /\ x.kind = kind /\ x.new = new
          /\ x.email = verifications[t].email /\ ~x.strict
      BY <3>1 DEF Blank
    <3>5. requests' = [requests EXCEPT ![r] = x]
      BY <2>3, <3>1 DEF Follow
    <3> QED
      BY <2>3, <3>2, <3>3, <3>4, <3>5 DEF Knows
  <2>4. ASSUME NEW s \in SessionIds, NEW p \in Passwords, NEW new \in Passwords,
               NEW others \in BOOLEAN, Change(r, s, p, new, others)
        PROVE  \E x \in Locals :
                 /\ requests' = [requests EXCEPT ![r] = x]
                 /\ Knows(x) /\ x.pc # "idle"
                 /\ x.strict => x.pc = "password" /\ factor[x.email]
    <3>1. PICK x : x = [Blank EXCEPT !.pc = "current", !.session = s,
                                     !.email = sessions[s].email, !.password = p,
                                     !.new = new, !.others = others]
      OBVIOUS
    <3>2. sessions[s].email \in Emails
      BY <2>4 DEF Change, IInv, SessionsHaveUsers
    <3>3. x \in Locals
      BY <3>1, <3>2 DEF Blank, Locals, Labels, Kinds, AnyEmail, AnyPassword
    <3>4. x.pc = "current" /\ x.email = sessions[s].email /\ x.new = new /\ ~x.strict
      BY <3>1 DEF Blank
    <3>5. requests' = [requests EXCEPT ![r] = x]
      BY <2>4, <3>1 DEF Change
    <3> QED
      BY <3>2, <3>3, <3>4, <3>5 DEF Knows
  <2> QED
    BY <2>1, <2>2, <2>3, <2>4 DEF Arrival, Kinds, AnyPassword
<1>4. Knows(x)'
  BY <1>2, <1>3, KnowledgeStays DEF IInv
<1>5. x.email \in Emails
  BY <1>3 DEF Knows
<1>6. /\ requests' \in [Requests -> Locals]
      /\ RequestsKnow'
      /\ StrictMeansOn'
  BY <1>1, <1>2, <1>3, <1>4, <1>5, HandlerBecomes
<1> QED
  BY <1>1, <1>2, <1>6 DEF IInv, TypeOK

\* Handlers that do not move know what they knew.
LEMMA OthersKnow ==
  ASSUME IInv, UsersAdvance, TokensAdvance, UNCHANGED requests
  PROVE  RequestsKnow'
<1>1. ASSUME NEW r \in Requests, ~At(r, "idle"), NEW y, y = requests'[r]
      PROVE  Knows(y)'
  BY <1>1, KnowledgeStays DEF IInv, RequestsKnow
<1>2. \A r \in Requests : At(r, "idle")' => requests'[r].token = None
  BY DEF IInv, RequestsKnow, At
<1> QED
  BY <1>1, <1>2 DEF RequestsKnow, At, Knows

LEMMA MailedStep ==
  ASSUME IInv, NEW e \in Emails, ForgetPassword(e) \/ RequestLink(e)
  PROVE  IInv'
<1>1. UNCHANGED <<users, accounts, factor, sessions, requests, honoured>>
  BY DEF ForgetPassword, RequestLink
<1>2. verifications' \in [Tokens -> VerificationRow] /\ TokensAdvance /\ TokensAreSound'
  BY <1>1, TokenInserted DEF ForgetPassword, RequestLink, Kinds
<1>3. /\ UsersAdvance /\ EmailsAreProven'
      /\ SessionsHaveUsers' /\ SecondFactorIsAsked' /\ SessionsHaveCredentials'
  BY <1>1, <1>2, UsersKept, SessionsKept, EmailsKept
<1>4. RequestsKnow' /\ StrictMeansOn'
  BY <1>1, <1>2, <1>3, OthersKnow DEF IInv, StrictMeansOn
<1> QED
  BY <1>1, <1>2, <1>3, <1>4 DEF IInv, TypeOK

LEMMA TokenExpiresStep ==
  ASSUME IInv, NEW t \in Tokens, TokenExpires(t)
  PROVE  IInv'
<1>1. UNCHANGED <<users, accounts, factor, sessions, requests, honoured>>
  BY DEF TokenExpires
<1>2. PICK row : row = [verifications[t] EXCEPT !.expired = TRUE]
  OBVIOUS
<1>3. /\ row \in VerificationRow /\ row.status = verifications[t].status
      /\ row.email = verifications[t].email /\ row.kind = verifications[t].kind
  BY <1>2 DEF IInv, TypeOK, VerificationRow
<1>4. verifications' = [verifications EXCEPT ![t] = row]
  BY <1>2 DEF TokenExpires
<1>5. /\ verifications' \in [Tokens -> VerificationRow]
      /\ \A u \in Tokens : verifications'[u] = IF u = t THEN row ELSE verifications[u]
  BY <1>3, <1>4 DEF IInv, TypeOK
<1>6. TokensAdvance /\ TokensAreSound'
  BY <1>1, <1>3, <1>5 DEF IInv, TokensAdvance, TokensAreSound
<1>7. /\ UsersAdvance /\ EmailsAreProven'
      /\ SessionsHaveUsers' /\ SecondFactorIsAsked' /\ SessionsHaveCredentials'
  BY <1>1, <1>6, UsersKept, SessionsKept, EmailsKept
<1>8. RequestsKnow' /\ StrictMeansOn'
  BY <1>1, <1>6, <1>7, OthersKnow DEF IInv, StrictMeansOn
<1> QED
  BY <1>1, <1>5, <1>6, <1>7, <1>8 DEF IInv, TypeOK

LEMMA EnableStep ==
  ASSUME IInv, NEW e \in Emails, EnableFactor(e)
  PROVE  IInv'
<1>1. /\ UNCHANGED <<users, accounts, verifications, sessions, requests, honoured>>
      /\ factor' = [factor EXCEPT ![e] = TRUE]
  BY DEF EnableFactor
<1>2. /\ UsersAdvance /\ TokensAdvance /\ EmailsAreProven' /\ TokensAreSound'
      /\ SessionsHaveUsers' /\ SecondFactorIsAsked' /\ SessionsHaveCredentials'
  BY <1>1, UsersKept, TokensKept, SessionsKept, EmailsKept
<1>3. RequestsKnow'
  BY <1>1, <1>2, OthersKnow
<1>4. factor' \in [Emails -> BOOLEAN] /\ \A f \in Emails : factor[f] => factor'[f]
  BY <1>1 DEF IInv, TypeOK
<1>5. StrictMeansOn'
  BY <1>1, <1>4 DEF IInv, StrictMeansOn
<1> QED
  BY <1>1, <1>2, <1>3, <1>4, <1>5 DEF IInv, TypeOK

\* The sign-ins under way at the email are strict no longer.
LEMMA DisableStep ==
  ASSUME IInv, NEW e \in Emails, DisableFactor(e)
  PROVE  IInv'
<1>1. /\ UNCHANGED <<users, accounts, verifications, sessions, honoured>>
      /\ factor' = [factor EXCEPT ![e] = FALSE]
  BY DEF DisableFactor
<1>2. /\ UsersAdvance /\ TokensAdvance /\ EmailsAreProven' /\ TokensAreSound'
      /\ SessionsHaveUsers' /\ SecondFactorIsAsked' /\ SessionsHaveCredentials'
  BY <1>1, UsersKept, TokensKept, SessionsKept, EmailsKept
<1>3. ASSUME NEW r \in Requests
      PROVE  /\ requests'[r] \in Locals
             /\ requests'[r].strict => requests[r].strict /\ requests[r].email # e
             /\ requests'[r].pc = requests[r].pc /\ requests'[r].email = requests[r].email
             /\ requests'[r].token = requests[r].token
             /\ Knows(requests[r]) => \A y : y = requests'[r] => Knows(y)
  <2>1. requests[r] \in Locals
    BY DEF IInv, TypeOK
  <2>2. CASE requests[r].email = e
    <3>1. requests'[r] = [requests[r] EXCEPT !.strict = FALSE]
      BY <2>2 DEF DisableFactor
    <3>2. PICK y : y = [requests[r] EXCEPT !.strict = FALSE]
      OBVIOUS
    <3>3. y \in Locals
      BY <2>1, <3>2 DEF Locals
    <3>4. /\ ~y.strict /\ y.pc = requests[r].pc /\ y.email = requests[r].email
          /\ y.password = requests[r].password /\ y.new = requests[r].new
          /\ y.token = requests[r].token /\ y.kind = requests[r].kind
      BY <2>1, <3>2 DEF Locals
    <3>5. ASSUME Knows(requests[r])
          PROVE  Knows(y)
      BY <3>4, <3>5 DEF Knows
    <3>6. requests'[r] = y
      BY <3>1, <3>2
    <3> QED
      BY <2>2, <3>3, <3>4, <3>5, <3>6
  <2>3. CASE requests[r].email # e
    BY <2>1, <2>3 DEF DisableFactor
  <2> QED
    BY <2>2, <2>3
<1>4. requests' \in [Requests -> Locals]
  BY <1>3 DEF DisableFactor
<1>5. ASSUME NEW r \in Requests, ~At(r, "idle"), NEW y, y = requests'[r]
      PROVE  Knows(y)'
  <2>1. Knows(y)
    BY <1>3, <1>5 DEF IInv, RequestsKnow
  <2> QED
    BY <1>2, <2>1, KnowledgeStays DEF IInv
<1>6. RequestsKnow'
  BY <1>3, <1>5 DEF IInv, RequestsKnow, At, Knows
<1>7. StrictMeansOn'
  BY <1>1, <1>3 DEF IInv, TypeOK, StrictMeansOn
<1>8. factor' \in [Emails -> BOOLEAN]
  BY <1>1 DEF IInv, TypeOK
<1> QED
  BY <1>1, <1>2, <1>4, <1>6, <1>7, <1>8 DEF IInv, TypeOK

-----------------------------------------------------------------------------
(* The invariant holds, and what it says holds with it.                    *)

LEMMA Start == Init => IInv
<1> SUFFICES ASSUME Init PROVE IInv
  OBVIOUS
<1> USE DEF Init
<1>1. TypeOK
  BY DEF TypeOK, NoVerification, NoSession, Blank, VerificationRow, SessionRow, Locals,
         Labels, Kinds, AnyEmail, AnyPassword
<1>2. RequestsKnow /\ StrictMeansOn
  BY DEF RequestsKnow, StrictMeansOn, At, Blank
<1>3. TokensAreSound /\ SessionsHaveUsers /\ SecondFactorIsAsked /\ SessionsHaveCredentials
  BY DEF TokensAreSound, SessionsHaveUsers, SecondFactorIsAsked, SessionsHaveCredentials,
         Stored, NoVerification, NoSession
<1>4. EmailsAreProven
  BY DEF EmailsAreProven
<1> QED
  BY <1>1, <1>2, <1>3, <1>4 DEF IInv

LEMMA HandlerStep ==
  ASSUME IInv, NEW r \in Requests, Handler(r)
  PROVE  IInv'
BY ReadStep, UserStep, PasswordStep, MailStep, ConsumeStep, InsertStep, DeleteSessionsStep
   DEF Handler

LEMMA Stutter == IInv /\ UNCHANGED vars => IInv'
<1> SUFFICES ASSUME IInv, UNCHANGED vars PROVE IInv'
  OBVIOUS
<1>1. UNCHANGED <<users, accounts, factor, verifications, sessions, requests, honoured>>
  BY DEF vars
<1>2. /\ UsersAdvance /\ TokensAdvance /\ EmailsAreProven' /\ TokensAreSound'
      /\ SessionsHaveUsers' /\ SecondFactorIsAsked' /\ SessionsHaveCredentials'
  BY <1>1, UsersKept, TokensKept, SessionsKept, EmailsKept
<1>3. RequestsKnow' /\ StrictMeansOn'
  BY <1>1, <1>2, OthersKnow DEF IInv, StrictMeansOn
<1> QED
  BY <1>1, <1>2, <1>3 DEF IInv, TypeOK

LEMMA Inductive == IInv /\ [Next]_vars => IInv'
<1> SUFFICES ASSUME IInv, Next PROVE IInv'
  BY Stutter
<1> QED
  BY ArrivalStep, HandlerStep, MailedStep, EnableStep, DisableStep, TokenExpiresStep DEF Next

\* What the handlers know, and the rows they act on, at any number of handlers, users,
\* mails and sessions.
THEOREM AccountsInvariant == Spec => []IInv
BY Start, Inductive, PTL DEF Spec

\* The tables and the locals of the handlers keep their types.
THEOREM AccountsTypeCorrect == Spec => []TypeOK
<1>1. IInv => TypeOK
  BY DEF IInv
<1> QED
  BY <1>1, AccountsInvariant, PTL

\* No sign-in by password that began with the second factor on, and saw it stay on,
\* inserts a session (sign_in of routes.py, however the handlers interleave).
THEOREM FactorIsAsked == Spec => []SecondFactorIsAsked
<1>1. IInv => SecondFactorIsAsked
  BY DEF IInv
<1> QED
  BY <1>1, AccountsInvariant, PTL

\* An email that counts as verified has an accepted token of another kind than a reset
\* (consume_verification and its callers).
THEOREM VerifiedIsProven == Spec => []EmailsAreProven
<1>1. IInv => EmailsAreProven
  BY DEF IInv
<1> QED
  BY <1>1, AccountsInvariant, PTL

\* The user of a stored session has a password or a verified email, wherever the sign-up
\* that made the user stopped.
THEOREM SignedInCanReturn == Spec => []SessionsHaveCredentials
<1>1. IInv => SessionsHaveCredentials
  BY DEF IInv
<1> QED
  BY <1>1, AccountsInvariant, PTL

-----------------------------------------------------------------------------
(* What a step may never do.                                               *)

\* A step is one handler's, and leaves the locals of the others alone.
LEMMA OneMoves ==
  ASSUME IInv, NEW q \in Requests, Arrival(q) \/ Handler(q), NEW r \in Requests, r # q
  PROVE  requests'[r] = requests[r]
<1>1. CASE Arrival(q)
  BY <1>1 DEF Arrival, SignUp, SignIn, Follow, Change, IInv, TypeOK
<1>2. CASE Handler(q)
  <2>1. Return(q) \/ \E label : Goto(q, label)
    BY <1>2 DEF Handler, CreateUser, CreateAccount, Mail, Insert, CheckPassword, CheckFactor,
       Consume, Reset, Sweep, Confirm, FindUser, CreateVerified, MarkVerified, CheckCurrent,
       ChangePassword, RevokeOthers
  <2> QED
    BY <2>1 DEF Return, Goto, IInv, TypeOK
<1> QED
  BY <1>1, <1>2

LEMMA MoversLocals ==
  ASSUME IInv, Next, NEW r \in Requests
  PROVE  \/ Arrival(r) \/ Handler(r)
         \/ /\ requests'[r].pc = requests[r].pc
            /\ requests'[r].token = requests[r].token
<1>1. requests[r] \in Locals
  BY DEF IInv, TypeOK
<1>2. CASE \E q \in Requests : Arrival(q) \/ Handler(q)
  BY <1>2, OneMoves
<1>3. CASE \E e \in Emails : DisableFactor(e)
  <2>1. requests'[r] \in {requests[r], [requests[r] EXCEPT !.strict = FALSE]}
    BY <1>3 DEF DisableFactor
  <2> QED
    BY <1>1, <2>1 DEF Locals
<1>4. CASE UNCHANGED requests
  BY <1>4
<1> QED
  BY <1>2, <1>3, <1>4 DEF Next, ForgetPassword, RequestLink, EnableFactor, TokenExpires

\* A token that was accepted is refused to every request that arrives later: its row is
\* gone (consume_verification deletes before it accepts).
THEOREM AcceptedForGood == Spec => AcceptedIsGone
<1> DEFINE Refused == \A r \in Requests :
                        At(r, "idle") /\ requests'[r].token # None
                        => honoured[requests'[r].token] = 0
<1>1. IInv /\ [Next]_vars => Refused \/ UNCHANGED vars
  <2> SUFFICES ASSUME IInv, Next, NEW r \in Requests, At(r, "idle"), requests'[r].token # None
               PROVE  honoured[requests'[r].token] = 0
    OBVIOUS
  <2>1. requests[r].token = None
    BY DEF IInv, RequestsKnow
  <2>2. Arrival(r)
    <3>1. ~Handler(r)
      BY DEF Handler, CreateUser, CreateAccount, Mail, Insert, CheckPassword, CheckFactor,
         Consume, Reset, Sweep, Confirm, FindUser, CreateVerified, MarkVerified, CheckCurrent,
         ChangePassword, RevokeOthers, At
    <3> QED
      BY <2>1, <3>1, MoversLocals
  <2>3. PICK t \in Tokens, kind \in Kinds, new \in AnyPassword : Follow(r, t, kind, new)
    <3>1. ASSUME NEW e \in Emails, NEW p \in Passwords, SignUp(r, e, p) \/ SignIn(r, e, p)
          PROVE  FALSE
      <4>1. CASE SignUp(r, e, p)
        BY <4>1 DEF SignUp, Blank, IInv, TypeOK
      <4>2. CASE SignIn(r, e, p)
        BY <4>2 DEF SignIn, Blank, IInv, TypeOK
      <4> QED
        BY <3>1, <4>1, <4>2
    <3>2. ASSUME NEW s \in SessionIds, NEW p \in Passwords, NEW new \in Passwords,
                 NEW others \in BOOLEAN, Change(r, s, p, new, others)
          PROVE  FALSE
      BY <3>2 DEF Change, Blank, IInv, TypeOK
    <3> QED
      BY <2>2, <3>1, <3>2 DEF Arrival, Kinds, AnyPassword
  <2>4. requests'[r].token = t
    BY <2>3 DEF Follow, Blank, IInv, TypeOK
  <2>5. honoured[t] \in Nat /\ ~(honoured[t] > 0)
    BY <2>3 DEF Follow, Mailed, IInv, TypeOK, TokensAreSound
  <2> QED
    BY <2>4, <2>5
<1> QED
  BY <1>1, AccountsInvariant, PTL DEF Spec, AcceptedIsGone

\* A reset is answered only after all the sessions of the user are gone, also those that
\* began while it ran (reset_password ends with the delete by user_id).
THEOREM ResetEndsSessions == Spec => ResetTerminatesSessions
<1> DEFINE Ended == \A r \in Requests :
                      requests[r].pc \in {"reset", "sweep"} /\ requests'[r].pc = "idle"
                      => \A s \in SessionsOf(requests[r].email) :
                           sessions'[s].status # "stored"
<1>1. IInv /\ [Next]_vars => Ended \/ UNCHANGED vars
  <2> SUFFICES ASSUME IInv, Next, NEW r \in Requests,
                      requests[r].pc \in {"reset", "sweep"}, requests'[r].pc = "idle",
                      NEW s \in SessionsOf(requests[r].email)
               PROVE  sessions'[s].status # "stored"
    OBVIOUS
  <2>1. ~Arrival(r)
    BY DEF Arrival, SignUp, SignIn, Follow, Change, At
  <2>2. ~Reset(r)
    BY DEF Reset, Goto, IInv, TypeOK, Locals
  <2>3. Handler(r)
    BY <2>1, MoversLocals
  <2>4. Sweep(r)
    BY <2>2, <2>3 DEF Handler, CreateUser, CreateAccount, Mail, Insert, CheckPassword, CheckFactor,
       Consume, Sweep, Confirm, FindUser, CreateVerified, MarkVerified, CheckCurrent,
       ChangePassword, RevokeOthers, At
  <2>5. s \in SessionIds /\ sessions[s] \in SessionRow
    BY DEF SessionsOf, IInv, TypeOK
  <2>6. DeleteSessions(SessionsOf(requests[r].email))
    BY <2>4 DEF Sweep
  <2>7. CASE Stored(s)
    <3>1. sessions'[s] = [sessions[s] EXCEPT !.status = "deleted"]
      BY <2>5, <2>6, <2>7 DEF DeleteSessions
    <3> QED
      BY <2>5, <3>1 DEF SessionRow
  <2>8. CASE ~Stored(s)
    BY <2>5, <2>6, <2>8 DEF DeleteSessions, Stored
  <2> QED
    BY <2>7, <2>8
<1> QED
  BY <1>1, AccountsInvariant, PTL DEF Spec, ResetTerminatesSessions
=============================================================================
