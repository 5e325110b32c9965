---------------------------- MODULE MCCredentials -----------------------------
(* Instances of TwoFactor, SocialSignIn, Passkeys and ApiKeys for TLC, one  *)
(* of them moving at a time (see MCStores).                                 *)
EXTENDS TwoFactor, SocialSignIn, Passkeys, ApiKeys, TLC

CONSTANTS c1, c2, e1, e2

VARIABLE moving
credentialsVars == <<moving, vars, socialVars, passkeyVars, apiKeyVars>>

CredentialsTypeOK ==
    /\ moving \in {"factor", "social", "passkeys", "keys"}
    /\ TypeOK /\ SocialTypeOK /\ PasskeysTypeOK /\ ApiKeysTypeOK

CredentialsInit ==
    /\ moving \in {"factor", "social", "passkeys", "keys"}
    /\ Init /\ SocialInit /\ PasskeysInit /\ ApiKeysInit

CredentialsNext ==
    \/ moving = "factor" /\ Next /\ UNCHANGED <<moving, socialVars, passkeyVars, apiKeyVars>>
    \/ moving = "social" /\ SocialNext /\ UNCHANGED <<moving, vars, passkeyVars, apiKeyVars>>
    \/ moving = "passkeys" /\ PasskeysNext /\ UNCHANGED <<moving, vars, socialVars, apiKeyVars>>
    \/ moving = "keys" /\ ApiKeysNext /\ UNCHANGED <<moving, vars, socialVars, passkeyVars>>

CredentialsSpec == CredentialsInit /\ [][CredentialsNext]_credentialsVars

Symmetry == Permutations(Requests) \cup Permutations(Callbacks) \cup Permutations(Emails)
=============================================================================
