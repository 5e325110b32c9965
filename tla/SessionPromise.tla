---------------------------- MODULE SessionPromise ----------------------------
(***************************************************************************)
(* What docs/session-management.md promises of a session, without handlers *)
(* and rows: it is served only while it is alive, before its absolute      *)
(* deadline and its inactivity limit; its activity is recorded at most once*)
(* per touch interval and never moves back; and an ended session stays     *)
(* ended.                                                                  *)
(***************************************************************************)
EXTENDS Naturals

CONSTANTS Sessions, Moments, Ttl, IdleTimeout, TouchInterval

VARIABLES
    phase,      \* new, alive or ended
    created,    \* when it was created
    activity,   \* its last recorded activity
    served      \* the last authentication of a request: by which session, when

vars == <<phase, created, activity, served>>

Init ==
    /\ phase = [s \in Sessions |-> "new"]
    /\ created = [s \in Sessions |-> 0]
    /\ activity = [s \in Sessions |-> 0]
    /\ served = [session |-> 0, moment |-> 0]

Start(s, moment) ==
    /\ phase[s] = "new"
    /\ phase' = [phase EXCEPT ![s] = "alive"]
    /\ created' = [created EXCEPT ![s] = moment]
    /\ activity' = [activity EXCEPT ![s] = moment]
    /\ UNCHANGED served

\* IdleTimeout = 0 disables the inactivity limit.
Acceptable(s, moment) ==
    /\ phase[s] = "alive"
    /\ moment < created[s] + Ttl
    /\ IdleTimeout # 0 => moment < activity[s] + IdleTimeout

Serve(s, moment) ==
    /\ Acceptable(s, moment)
    /\ served' = [session |-> s, moment |-> moment]
    /\ UNCHANGED <<phase, created, activity>>

Touch(s, moment) ==
    /\ Acceptable(s, moment)
    /\ moment >= activity[s] + TouchInterval
    /\ activity' = [activity EXCEPT ![s] = moment]
    /\ served' = [session |-> s, moment |-> moment]
    /\ UNCHANGED <<phase, created>>

End(S) ==
    /\ \A s \in S : phase[s] = "alive"
    /\ phase' = [s \in Sessions |-> IF s \in S THEN "ended" ELSE phase[s]]
    /\ UNCHANGED <<created, activity, served>>

Next ==
    \/ \E s \in Sessions, moment \in Moments :
         Start(s, moment) \/ Serve(s, moment) \/ Touch(s, moment)
    \/ \E S \in SUBSET Sessions : End(S)

Spec == Init /\ [][Next]_vars
=============================================================================
