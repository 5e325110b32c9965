----------------------- MODULE MCAuthorizationServer -----------------------
(* Instances of AuthorizationServer for TLC.                               *)
EXTENDS AuthorizationServer, TLC

CONSTANTS r1, r2, r3, u1, c1, c2

Symmetry == Permutations(Requests)

OneScope == {{"mcp"}}
TwoScopes == {{"mcp"}, {"mcp", "profile"}}

TokenOperations == {"authorize", "consent", "exchange", "refresh", "revoke_token", "crash"}
ExpiryOperations == AllOperations \ {"revoke_consent"}
ConsentOperations == {"authorize", "consent", "revoke_consent"}
GrantOperations == AllOperations \ {"code_expiry", "crash"}
AllButCrash == AllOperations \ {"crash"}
=============================================================================
