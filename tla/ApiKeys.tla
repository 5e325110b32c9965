------------------------------- MODULE ApiKeys -------------------------------
(***************************************************************************)
(* API keys (src/src/hayate_auth/api_key.py): creation, verification,      *)
(* which purges a key that has expired and touches one that has not, and   *)
(* deletion by the user.  A presented key names its row by its hash.       *)
(***************************************************************************)
EXTENDS Naturals

CONSTANTS
    Verifiers,      \* the handlers that may run at the same time
    Keepers,        \* the users
    MaxKeys,        \* bound: rows ever inserted
    MaxHour         \* bound: the last moment of the instance

ASSUME ApiKeysAssumption == MaxKeys \in Nat /\ MaxHour \in Nat

VARIABLES
    hour,
    lastKey,    \* the newest row of table api_key
    keys,       \* its rows
    verifiers   \* the handlers' program counters and local variables

apiKeyVars == <<hour, lastKey, keys, verifiers>>

Hours == 0..MaxHour
KeyIds == 1..MaxKeys
Never == MaxHour + 1
NoKeeper == "nobody"
NoKey == [keeper |-> NoKeeper, expires |-> 0, used |-> 0]
KeyRow == [keeper: Keepers, expires: 1..Never, used: Hours]
NoVerifier == [pc |-> "idle"]
Verifier == [pc: {"purge", "touch", "delete"}, key: KeyIds, keeper: Keepers, stamp: Hours]

ApiKeysTypeOK ==
    /\ hour \in Hours
    /\ lastKey \in 0..MaxKeys
    /\ keys \in [KeyIds -> KeyRow \cup {NoKey}]
    /\ verifiers \in [Verifiers -> Verifier \cup {NoVerifier}]

ApiKeysInit ==
    /\ hour = 0
    /\ lastKey = 0
    /\ keys = [k \in KeyIds |-> NoKey]
    /\ verifiers = [v \in Verifiers |-> NoVerifier]

-----------------------------------------------------------------------------
Standing(v, label) == verifiers[v].pc = label
Opens(v, label, k, u) ==
    /\ Standing(v, "idle")
    /\ verifiers' = [verifiers EXCEPT
                       ![v] = [pc |-> label, key |-> k, keeper |-> u, stamp |-> hour]]
Closes(v) == verifiers' = [verifiers EXCEPT ![v] = NoVerifier]

Stored(k) == keys[k] # NoKey
Expired(k) == keys[k].expires <= hour

-----------------------------------------------------------------------------
(* Mutants, see the note in SocialSignIn.                                  *)

\* Writes the row it read, whether or not it is still there.
TouchWholeRow(v) ==
    /\ Standing(v, "touch")
    /\ LET k == verifiers[v].key IN
       keys' = [keys EXCEPT ![k] = [keeper |-> verifiers[v].keeper, used |-> verifiers[v].stamp,
                                    expires |-> IF Stored(k) THEN keys[k].expires ELSE Never]]
    /\ Closes(v)
    /\ UNCHANGED <<hour, lastKey>>

\* By id alone.
DeleteKeyOfAny(v) ==
    /\ Standing(v, "delete")
    /\ keys' = [keys EXCEPT ![verifiers[v].key] = NoKey]
    /\ Closes(v)
    /\ UNCHANGED <<hour, lastKey>>

-----------------------------------------------------------------------------
CreateKey(u, expires) ==
    /\ lastKey < MaxKeys
    /\ expires > hour
    /\ lastKey' = lastKey + 1
    /\ keys' = [keys EXCEPT ![lastKey + 1] = [keeper |-> u, expires |-> expires, used |-> 0]]
    /\ UNCHANGED <<hour, verifiers>>

\* verify_key: every row is enabled; no endpoint changes that.
VerifyKey(v, k) ==
    /\ Stored(k)
    /\ Opens(v, IF Expired(k) THEN "purge" ELSE "touch", k, keys[k].keeper)
    /\ UNCHANGED <<hour, lastKey, keys>>

PurgeKey(v) ==
    /\ Standing(v, "purge")
    /\ keys' = [keys EXCEPT ![verifiers[v].key] = NoKey]
    /\ Closes(v)
    /\ UNCHANGED <<hour, lastKey>>

\* By id; the key is accepted whether or not the row is still there.
TouchKey(v) ==
    /\ Standing(v, "touch")
    /\ LET k == verifiers[v].key IN
       keys' = IF Stored(k) THEN [keys EXCEPT ![k].used = verifiers[v].stamp] ELSE keys
    /\ Closes(v)
    /\ UNCHANGED <<hour, lastKey>>

\* User u, who is signed in, names a key.
AskKeyDeletion(v, u, k) ==
    /\ k <= lastKey
    /\ Opens(v, "delete", k, u)
    /\ UNCHANGED <<hour, lastKey, keys>>

DeleteKey(v) ==
    /\ Standing(v, "delete")
    /\ LET k == verifiers[v].key IN
       keys' = IF keys[k].keeper = verifiers[v].keeper THEN [keys EXCEPT ![k] = NoKey] ELSE keys
    /\ Closes(v)
    /\ UNCHANGED <<hour, lastKey>>

HourPasses ==
    /\ hour < MaxHour
    /\ hour' = hour + 1
    /\ UNCHANGED <<lastKey, keys, verifiers>>

ApiKeysNext ==
    \/ \E u \in Keepers, expires \in 1..Never : CreateKey(u, expires)
    \/ \E v \in Verifiers, k \in KeyIds : VerifyKey(v, k)
    \/ \E v \in Verifiers, u \in Keepers, k \in KeyIds : AskKeyDeletion(v, u, k)
    \/ \E v \in Verifiers : PurgeKey(v) \/ TouchKey(v) \/ DeleteKey(v)
    \/ HourPasses

ApiKeysSpec == ApiKeysInit /\ [][ApiKeysNext]_apiKeyVars

-----------------------------------------------------------------------------
\* A key that was deleted or purged stays gone, whoever read it before and touches it.
EndedKeysStayDead ==
    [][\A k \in KeyIds : k <= lastKey /\ ~Stored(k) => ~Stored(k)']_apiKeyVars

\* A key ends only when it has expired or its user asked: what a purge decided on an
\* earlier read is still true when it deletes.
KeysEndWithReason ==
    [][\A k \in KeyIds :
          Stored(k) /\ ~Stored(k)' =>
             \/ Expired(k)
             \/ \E v \in Verifiers :
                   /\ Standing(v, "delete")
                   /\ verifiers[v].key = k /\ verifiers[v].keeper = keys[k].keeper]_apiKeyVars

=============================================================================
