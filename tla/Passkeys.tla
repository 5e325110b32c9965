------------------------------ MODULE Passkeys -------------------------------
(***************************************************************************)
(* Passkeys (src/src/hayate_auth/passkey.py): registration under a         *)
(* challenge for the signed-in user, sign-in with an assertion whose       *)
(* signature counter is compared with the one stored, and deletion.        *)
(*                                                                         *)
(* The signed cookie of a challenge stays with the browser, which may      *)
(* present it, with the response made for it, until it expires: a response *)
(* is the credential, the user its challenge was for and the count of its  *)
(* authenticator, an assertion the credential and a later count.  The      *)
(* options only read; the signature, origin and RP ID only refuse.         *)
(***************************************************************************)
EXTENDS Naturals

CONSTANTS
    Ceremonies,     \* the handlers that may run at the same time
    Owners,         \* the users
    Credentials,
    MaxPasskeys,    \* bound: rows ever inserted
    MaxCount        \* bound: signatures of an authenticator

ASSUME PasskeyAssumption == MaxPasskeys \in Nat /\ MaxCount \in Nat

VARIABLES
    responses,  \* the response that registers each credential, once it was made
    signed,     \* the count of the last assertion of each authenticator
    lastPasskey,\* the newest row of table passkey
    passkeys,   \* its rows by credential_id, which is UNIQUE
    ceremonies, \* the handlers' program counters and local variables
    admitted,   \* history: the users that each credential signed in
    settled     \* history: the counter each row had when no sign-in was last at work on it

passkeyVars == <<responses, signed, lastPasskey, passkeys, ceremonies, admitted, settled>>

NoOwner == "nobody"
NoPasskey == [id |-> 0, owner |-> NoOwner, counter |-> 0]
Counts == 0..MaxCount
Response == [owner: Owners, count: Counts]
NoResponse == [owner |-> NoOwner, count |-> 0]
PasskeyRow == [id: 1..MaxPasskeys, owner: Owners, counter: Counts]
NoCeremony == [pc |-> "idle"]
Ceremony == [pc: {"create", "count", "session", "delete"}, credential: Credentials,
             owner: Owners, id: 0..MaxPasskeys, count: Counts]

PasskeysTypeOK ==
    /\ responses \in [Credentials -> Response \cup {NoResponse}]
    /\ signed \in [Credentials -> Counts]
    /\ lastPasskey \in 0..MaxPasskeys
    /\ passkeys \in [Credentials -> PasskeyRow \cup {NoPasskey}]
    /\ ceremonies \in [Ceremonies -> Ceremony \cup {NoCeremony}]
    /\ admitted \in [Credentials -> SUBSET Owners]
    /\ settled \in [Credentials -> Counts]

PasskeysInit ==
    /\ responses = [k \in Credentials |-> NoResponse]
    /\ signed = [k \in Credentials |-> 0]
    /\ lastPasskey = 0
    /\ passkeys = [k \in Credentials |-> NoPasskey]
    /\ ceremonies = [c \in Ceremonies |-> NoCeremony]
    /\ admitted = [k \in Credentials |-> {}]
    /\ settled = [k \in Credentials |-> 0]

-----------------------------------------------------------------------------
AtStage(c, label) == ceremonies[c].pc = label
Begins(c, locals) == AtStage(c, "idle") /\ ceremonies' = [ceremonies EXCEPT ![c] = locals]
Finishes(c) == ceremonies' = [ceremonies EXCEPT ![c] = NoCeremony]

Made(k) == responses[k] # NoResponse
Registered(k) == passkeys[k] # NoPasskey

\* A sign-in is at work on the row of k: it has read the counter and not yet written it.
AtWork(c, k) ==
    /\ AtStage(c, "count")
    /\ ceremonies[c].credential = k /\ ceremonies[c].id = passkeys[k].id

-----------------------------------------------------------------------------
(* Mutants, see the note in SocialSignIn.                                  *)

\* Registers for whoever is signed in, whosever challenge it was.
VerifyRegistrationOfAny(c, u, k) ==
    /\ Made(k)
    /\ ~Registered(k)
    /\ Begins(c, [pc |-> "create", credential |-> k, owner |-> u, id |-> 0,
                  count |-> responses[k].count])
    /\ UNCHANGED <<responses, signed, lastPasskey, passkeys, admitted, settled>>

\* Updates whatever row the credential has now.
UpdateCounterByCredential(c) ==
    /\ AtStage(c, "count")
    /\ LET k == ceremonies[c].credential IN
       passkeys' = IF Registered(k) THEN [passkeys EXCEPT ![k].counter = ceremonies[c].count]
                   ELSE passkeys
    /\ ceremonies' = [ceremonies EXCEPT ![c].pc = "session"]
    /\ UNCHANGED <<responses, signed, lastPasskey, admitted, settled>>

\* By id alone.
DeletePasskeyOfAny(c) ==
    /\ AtStage(c, "delete")
    /\ LET k == ceremonies[c].credential IN
       passkeys' = IF passkeys[k].id = ceremonies[c].id
                   THEN [passkeys EXCEPT ![k] = NoPasskey] ELSE passkeys
    /\ Finishes(c)
    /\ UNCHANGED <<responses, signed, lastPasskey, admitted, settled>>

\* Clears the owner of the row instead of deleting it.
DeletePasskeySoft(c) ==
    /\ AtStage(c, "delete")
    /\ LET k == ceremonies[c].credential IN
       passkeys' = IF passkeys[k].id = ceremonies[c].id
                   THEN [passkeys EXCEPT ![k].owner = NoOwner] ELSE passkeys
    /\ Finishes(c)
    /\ UNCHANGED <<responses, signed, lastPasskey, admitted, settled>>

-----------------------------------------------------------------------------
(* The authenticator.                                                      *)

\* Answers register_options, made for user u, with a new credential.
MakeCredential(k, u, count) ==
    /\ ~Made(k)
    /\ responses' = [responses EXCEPT ![k] = [owner |-> u, count |-> count]]
    /\ signed' = [signed EXCEPT ![k] = count]
    /\ UNCHANGED <<lastPasskey, passkeys, ceremonies, admitted, settled>>

\* Answers authenticate_options; one that does not count signs 0.
SignAssertion(k) ==
    /\ Made(k)
    /\ signed[k] < MaxCount
    /\ signed' = [signed EXCEPT ![k] = @ + 1]
    /\ UNCHANGED <<responses, lastPasskey, passkeys, ceremonies, admitted, settled>>

-----------------------------------------------------------------------------
\* User u is signed in, the challenge was for u, and the lookup finds no such credential.
VerifyRegistration(c, u, k) ==
    /\ Made(k) /\ responses[k].owner = u
    /\ ~Registered(k)
    /\ Begins(c, [pc |-> "create", credential |-> k, owner |-> u, id |-> 0,
                  count |-> responses[k].count])
    /\ UNCHANGED <<responses, signed, lastPasskey, passkeys, admitted, settled>>

\* A second insert violates UNIQUE (credential_id), and the request fails.
CreatePasskey(c) ==
    /\ AtStage(c, "create")
    /\ LET k == ceremonies[c].credential IN
       IF Registered(k) THEN UNCHANGED <<passkeys, lastPasskey, settled>>
       ELSE /\ lastPasskey < MaxPasskeys
            /\ lastPasskey' = lastPasskey + 1
            /\ passkeys' = [passkeys EXCEPT ![k] = [id |-> lastPasskey + 1,
                                                    owner |-> ceremonies[c].owner,
                                                    counter |-> ceremonies[c].count]]
            /\ settled' = [settled EXCEPT ![k] = ceremonies[c].count]
    /\ Finishes(c)
    /\ UNCHANGED <<responses, signed, admitted>>

\* verify_authentication_response: newer than the count stored, or neither counts.
Newer(count, stored) == count > stored \/ (count = 0 /\ stored = 0)

\* Any assertion signed so far may arrive, in any order and again.
VerifyAuthentication(c, k, count) ==
    /\ Registered(k)
    /\ count <= signed[k]
    /\ Newer(count, passkeys[k].counter)
    /\ Begins(c, [pc |-> "count", credential |-> k, owner |-> passkeys[k].owner,
                  id |-> passkeys[k].id, count |-> count])
    /\ settled' = IF \E d \in Ceremonies : AtWork(d, k) THEN settled
                  ELSE [settled EXCEPT ![k] = passkeys[k].counter]
    /\ UNCHANGED <<responses, signed, lastPasskey, passkeys, admitted>>

\* By id alone, whatever has become of the row and of its counter since it was read.
UpdateCounter(c) ==
    /\ AtStage(c, "count")
    /\ LET k == ceremonies[c].credential IN
       passkeys' = IF passkeys[k].id = ceremonies[c].id
                   THEN [passkeys EXCEPT ![k].counter = ceremonies[c].count] ELSE passkeys
    /\ ceremonies' = [ceremonies EXCEPT ![c].pc = "session"]
    /\ UNCHANGED <<responses, signed, lastPasskey, admitted, settled>>

IssueSession(c) ==
    /\ AtStage(c, "session")
    /\ admitted' = [admitted EXCEPT ![ceremonies[c].credential] = @ \cup {ceremonies[c].owner}]
    /\ Finishes(c)
    /\ UNCHANGED <<responses, signed, lastPasskey, passkeys, settled>>

\* User u asks for the deletion of the passkey with this id.
AskDeletion(c, u, k) ==
    /\ Registered(k)
    /\ Begins(c, [pc |-> "delete", credential |-> k, owner |-> u, id |-> passkeys[k].id,
                  count |-> 0])
    /\ UNCHANGED <<responses, signed, lastPasskey, passkeys, admitted, settled>>

\* delete_passkey: by id and user_id.
DeletePasskey(c) ==
    /\ AtStage(c, "delete")
    /\ LET k == ceremonies[c].credential IN
       passkeys' = IF /\ passkeys[k].id = ceremonies[c].id
                      /\ passkeys[k].owner = ceremonies[c].owner
                   THEN [passkeys EXCEPT ![k] = NoPasskey] ELSE passkeys
    /\ Finishes(c)
    /\ UNCHANGED <<responses, signed, lastPasskey, admitted, settled>>

PasskeysNext ==
    \/ \E k \in Credentials, u \in Owners, count \in Counts : MakeCredential(k, u, count)
    \/ \E k \in Credentials : SignAssertion(k)
    \/ \E c \in Ceremonies, u \in Owners, k \in Credentials :
          VerifyRegistration(c, u, k) \/ AskDeletion(c, u, k)
    \/ \E c \in Ceremonies, k \in Credentials, count \in Counts :
          VerifyAuthentication(c, k, count)
    \/ \E c \in Ceremonies :
          CreatePasskey(c) \/ UpdateCounter(c) \/ IssueSession(c) \/ DeletePasskey(c)

PasskeysSpec == PasskeysInit /\ [][PasskeysNext]_passkeyVars

-----------------------------------------------------------------------------
\* A credential is registered for, and signs in, only the user whose challenge it was
\* made under, though browsers change users between the options and the response, and
\* responses are replayed after a deletion.
CredentialsKeepTheirOwner ==
    \A k \in Credentials :
       /\ Registered(k) => passkeys[k].owner = responses[k].owner
       /\ admitted[k] \subseteq {responses[k].owner}

\* However many sign-ins overlap, and whatever is deleted and registered again meanwhile,
\* the counter of a row does not fall behind the one it had before the first of them, and
\* none of them was accepted with a count that is not newer than that one.
AheadOfSettled ==
    \A k \in Credentials : Registered(k) =>
       /\ passkeys[k].counter >= settled[k]
       /\ \A c \in Ceremonies : AtWork(c, k) => Newer(ceremonies[c].count, settled[k])

\* Violated.  The documents say that a regression of the counter is rejected: no request
\* leaves a row with a lower count than it found there (0 is not one: an authenticator
\* that signs it does not count).
CounterRegressionIsRejected ==
    [][\A k \in Credentials :
          /\ Registered(k) /\ passkeys'[k].id = passkeys[k].id
          /\ passkeys'[k].counter # 0
          => passkeys'[k].counter >= passkeys[k].counter]_passkeyVars

\* A passkey ends only at the request of the user it belongs to.
DeletedByTheirOwner ==
    [][\A k \in Credentials :
          Registered(k) /\ ~Registered(k)' =>
             \E c \in Ceremonies :
                /\ AtStage(c, "delete") /\ ceremonies[c].id = passkeys[k].id
                /\ ceremonies[c].owner = passkeys[k].owner]_passkeyVars

=============================================================================
