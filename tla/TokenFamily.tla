----------------------------- MODULE TokenFamily -----------------------------
(***************************************************************************)
(* What the authorization server promises about the credentials of a grant *)
(* (docs/oauth-revocation-introspection.md, CHANGELOG.md 0.10.0 and 0.9.0),*)
(* without handlers, tables or markers: a token family has at most one     *)
(* live credential, a credential is issued once, and a family that was     *)
(* closed (revoked, or its refresh token replayed, or its consent          *)
(* withdrawn, and the request answered) never has a live one again.        *)
(***************************************************************************)
CONSTANTS Families, Tokens

VARIABLES
    live,     \* the credentials of each family that a resource server accepts
    issued,   \* the credentials that were ever sent to a client
    closed    \* the families that were closed

vars == <<live, issued, closed>>

Init ==
    /\ live = [f \in Families |-> {}]
    /\ issued = {}
    /\ closed = {}

\* A client receives a new credential: of an open family without another live one.
Issue(f, t) ==
    /\ t \notin issued
    /\ f \notin closed
    /\ live[f] = {}
    /\ live' = [live EXCEPT ![f] = {t}]
    /\ issued' = issued \cup {t}
    /\ UNCHANGED closed

\* The credential was invalidated while its response was on the way.
IssueDead(t) ==
    /\ t \notin issued
    /\ issued' = issued \cup {t}
    /\ UNCHANGED <<live, closed>>

\* Rotation, replay or revocation takes the credentials of the families F away; the
\* families C are closed, of which none may keep a live credential.
Retire(F, C) ==
    /\ live' = [f \in Families |-> IF f \in F THEN {} ELSE live[f]]
    /\ closed' = closed \cup C
    /\ \A f \in C : live'[f] = {}
    /\ UNCHANGED issued

Next ==
    \/ \E f \in Families, t \in Tokens : Issue(f, t)
    \/ \E t \in Tokens : IssueDead(t)
    \/ \E F, C \in SUBSET Families : Retire(F, C)

Spec == Init /\ [][Next]_vars
=============================================================================
