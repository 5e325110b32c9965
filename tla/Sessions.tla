------------------------------- MODULE Sessions -------------------------------
(***************************************************************************)
(* The sessions of hayate-auth (src/src/hayate_auth/session.py, and the    *)
(* endpoints of routes.py and auth.py that use it): a row per session, an  *)
(* absolute deadline, an inactivity limit whose activity is written        *)
(* sparsely by compare-and-swap, and revocation from several devices.      *)
(*                                                                         *)
(* One action is one adapter call with the computation up to the next one; *)
(* now() is the clock at that point, which the workers are assumed to      *)
(* share.  The row's user and created_at never change, and expires_at is   *)
(* created_at + Ttl: a handler reads them through the session's id.        *)
(***************************************************************************)
EXTENDS Naturals, FiniteSets

CONSTANTS
    Requests,       \* the handlers that may run at the same time
    Users,
    MaxSessions,    \* bound: session rows ever inserted
    MaxTime,        \* bound: the last moment of the instance
    Ttl,            \* session_ttl
    IdleTimeout,    \* session_idle_timeout, 0 for None
    TouchInterval,  \* session_touch_interval
    FreshTtl        \* session_fresh_ttl, 0 for None

\* What Auth.__init__ insists on.
ASSUME SessionsAssumption ==
    /\ MaxSessions \in Nat
    /\ MaxTime \in Nat
    /\ Ttl \in Nat \ {0}
    /\ IdleTimeout \in Nat
    /\ TouchInterval \in Nat \ {0}
    /\ IdleTimeout # 0 => TouchInterval < IdleTimeout
    /\ FreshTtl \in Nat

SessionIds == 1..MaxSessions
None == 0
Moments == 0..MaxTime

Revocations == {"revoke_one", "revoke_others", "revoke_all"}
Labels == {"idle", "insert", "expire", "touch", "reread", "user"} \cup Revocations

VARIABLES
    clock,
    sessions,   \* table session
    requests,   \* the handlers' program counters and local variables
    served      \* history: the session and the moment of the last authentication

vars == <<clock, sessions, requests, served>>

NoSession == [status |-> "absent", user |-> None, created |-> 0, active |-> 0]
Blank == [pc |-> "idle", session |-> None, user |-> None, moment |-> 0, seen |-> 0]

SessionRow == [status: {"absent", "stored", "deleted"}, user: Users \cup {None},
               created: Moments, active: Moments]
Locals == [pc: Labels, session: SessionIds \cup {None}, user: Users \cup {None},
           moment: Moments, seen: Moments]

TypeOK ==
    /\ clock \in Moments
    /\ sessions \in [SessionIds -> SessionRow]
    /\ requests \in [Requests -> Locals]
    /\ served \in [session: SessionIds \cup {None}, moment: Moments]

Init ==
    /\ clock = 0
    /\ sessions = [s \in SessionIds |-> NoSession]
    /\ requests = [r \in Requests |-> Blank]
    /\ served = [session |-> None, moment |-> 0]

-----------------------------------------------------------------------------
At(r, label) == requests[r].pc = label
Goto(r, label) == requests' = [requests EXCEPT ![r].pc = label]
Return(r) == requests' = [requests EXCEPT ![r] = Blank]

Stored(s) == sessions[s].status = "stored"

\* is_expired, of a row with this last activity
IsExpired(s, active, moment) ==
    \/ sessions[s].created + Ttl <= moment
    \/ IdleTimeout # 0 /\ active + IdleTimeout <= moment

\* Mutant: marks the rows, as oauth_token does, with a status that nobody looks at.
SoftDelete(S) ==
    sessions' = [s \in SessionIds |->
                   IF s \in S /\ Stored(s) THEN [sessions[s] EXCEPT !.status = "revoked"]
                                           ELSE sessions[s]]

\* adapter.delete("session", ...) of the rows S, as far as they are stored
Delete(S) ==
    sessions' = [s \in SessionIds |->
                   IF s \in S /\ Stored(s) THEN [sessions[s] EXCEPT !.status = "deleted"]
                                           ELSE sessions[s]]

OwnedBy(user) == {s \in SessionIds : sessions[s].user = user}

IsNext(s) == /\ sessions[s].status = "absent"
             /\ \A t \in SessionIds : t < s => sessions[t].status # "absent"

\* Bound: a sign-in is let in only if the instance has a row left for it.
Room ==
    Cardinality({s \in SessionIds : sessions[s].status # "absent"})
      + Cardinality({r \in Requests : At(r, "insert")}) < MaxSessions

-----------------------------------------------------------------------------
(* Mutants: steps below with one plausible mistake each.  No action of the *)
(* specification uses them; in the place of the action each is named after *)
(* they make a property of the run fail.                                   *)

\* Updates by id, without the activity that was read.
TouchUnguarded(r) ==
    /\ At(r, "touch")
    /\ LET s == requests[r].session IN
       IF Stored(s)
       THEN /\ sessions' = [sessions EXCEPT ![s].active = requests[r].moment]
            /\ served' = [session |-> s, moment |-> requests[r].moment]
            /\ requests' = [requests EXCEPT ![r] = [Blank EXCEPT !.pc = "user",
                                                                 !.session = s]]
       ELSE /\ Goto(r, "reread")
            /\ UNCHANGED <<sessions, served>>
    /\ UNCHANGED clock

\* Deletes by the session id alone.
RevokeOneUnscoped(r) ==
    /\ At(r, "revoke_one")
    /\ \E target \in SessionIds : Delete({target})
    /\ Return(r)
    /\ UNCHANGED <<clock, served>>

-----------------------------------------------------------------------------
(* create_session: the stamps are taken before the insert.                 *)

SignIn(r, user) ==
    /\ At(r, "idle")
    /\ Room
    /\ requests' = [requests EXCEPT ![r] = [Blank EXCEPT !.pc = "insert", !.user = user,
                                                         !.moment = clock]]
    /\ UNCHANGED <<clock, sessions, served>>

Insert(r) ==
    /\ At(r, "insert")
    /\ \E s \in SessionIds :
         /\ IsNext(s)
         /\ sessions' = [sessions EXCEPT ![s] =
                           [status |-> "stored", user |-> requests[r].user,
                            created |-> requests[r].moment, active |-> requests[r].moment]]
    /\ Return(r)
    /\ UNCHANGED <<clock, served>>

-----------------------------------------------------------------------------
(* resolve_session: read the row; purge it, touch it, or take it as it is. *)

\* The request is authenticated by s: get_session goes on to read the user.
Authenticate(r, s, moment) ==
    /\ served' = [session |-> s, moment |-> moment]
    /\ requests' = [requests EXCEPT ![r] = [Blank EXCEPT !.pc = "user", !.session = s]]

\* A row that is not there is refused at once, and nothing changes.
Resolve(r, s) ==
    /\ At(r, "idle")
    /\ Stored(s)
    /\ LET active == sessions[s].active IN
       \/ /\ IsExpired(s, active, clock)
          /\ requests' = [requests EXCEPT ![r] = [Blank EXCEPT !.pc = "expire",
                                                               !.session = s]]
          /\ UNCHANGED served
       \/ /\ ~IsExpired(s, active, clock)
          /\ active + TouchInterval <= clock
          /\ requests' = [requests EXCEPT ![r] =
                            [Blank EXCEPT !.pc = "touch", !.session = s, !.moment = clock,
                                          !.seen = active]]
          /\ UNCHANGED served
       \/ /\ ~IsExpired(s, active, clock)
          /\ active + TouchInterval > clock
          /\ Authenticate(r, s, clock)
    /\ UNCHANGED <<clock, sessions>>

\* The purge is by id and token hash, which are the row's for good.
Expire(r) ==
    /\ At(r, "expire")
    /\ Delete({requests[r].session})
    /\ Return(r)
    /\ UNCHANGED <<clock, served>>

\* The compare-and-swap on last_active_at.
Touch(r) ==
    /\ At(r, "touch")
    /\ LET s == requests[r].session IN
       IF Stored(s) /\ sessions[s].active = requests[r].seen
       THEN /\ sessions' = [sessions EXCEPT ![s].active = requests[r].moment]
            /\ Authenticate(r, s, requests[r].moment)
       ELSE /\ Goto(r, "reread")
            /\ UNCHANGED <<sessions, served>>
    /\ UNCHANGED clock

\* The loser takes the row as the winner left it, if it left one.
Reread(r) ==
    /\ At(r, "reread")
    /\ LET s == requests[r].session IN
       IF Stored(s) /\ ~IsExpired(s, sessions[s].active, requests[r].moment)
       THEN Authenticate(r, s, requests[r].moment)
       ELSE Return(r) /\ UNCHANGED served
    /\ UNCHANGED <<clock, sessions>>

-----------------------------------------------------------------------------
(* What the endpoint does with the session it resolved.                    *)

IsFresh(s) == FreshTtl # 0 => clock < sessions[s].created + FreshTtl

\* The user's row is there as long as the session's.  Here the endpoint first matters:
\* get-session, list-sessions, the require_session middleware and a refusal by
\* _fresh_session change nothing more; the revocations go on.
FindUser(r) ==
    /\ At(r, "user")
    /\ \/ Return(r)
       \/ IsFresh(requests[r].session) /\ \E label \in Revocations : Goto(r, label)
    /\ UNCHANGED <<clock, sessions, served>>

Caller(r) == sessions[requests[r].session].user

\* The session id is the client's; one it does not own matches no row.
RevokeOne(r) ==
    /\ At(r, "revoke_one")
    /\ \E target \in SessionIds : Delete({target} \cap OwnedBy(Caller(r)))
    /\ Return(r)
    /\ UNCHANGED <<clock, served>>

RevokeOthers(r) ==
    /\ At(r, "revoke_others")
    /\ Delete(OwnedBy(Caller(r)) \ {requests[r].session})
    /\ Return(r)
    /\ UNCHANGED <<clock, served>>

RevokeAll(r) ==
    /\ At(r, "revoke_all")
    /\ Delete(OwnedBy(Caller(r)))
    /\ Return(r)
    /\ UNCHANGED <<clock, served>>

\* sign_out deletes by the cookie's token in its only adapter call.
SignOut(s) ==
    /\ Stored(s)
    /\ Delete({s})
    /\ UNCHANGED <<clock, requests, served>>

\* Auth.revoke_user_sessions, and the last step of reset_password.
RevokeUserSessions(user) ==
    /\ \E s \in OwnedBy(user) : Stored(s)
    /\ Delete(OwnedBy(user))
    /\ UNCHANGED <<clock, requests, served>>

-----------------------------------------------------------------------------
Tick ==
    /\ clock < MaxTime
    /\ clock' = clock + 1
    /\ UNCHANGED <<sessions, requests, served>>

Next ==
    \/ \E r \in Requests :
         \/ \E user \in Users : SignIn(r, user)
         \/ \E s \in SessionIds : Resolve(r, s)
         \/ Insert(r) \/ Expire(r) \/ Touch(r) \/ Reread(r) \/ FindUser(r)
         \/ RevokeOne(r) \/ RevokeOthers(r) \/ RevokeAll(r)
    \/ \E s \in SessionIds : SignOut(s)
    \/ \E user \in Users : RevokeUserSessions(user)
    \/ Tick

Spec == Init /\ [][Next]_vars

-----------------------------------------------------------------------------
PhaseOf(status) ==
    CASE status = "absent" -> "new"
      [] status = "stored" -> "alive"
      [] status = "deleted" -> "ended"

Promise == INSTANCE SessionPromise WITH
    Sessions <- SessionIds,
    Moments <- Moments,
    phase <- [s \in SessionIds |-> PhaseOf(sessions[s].status)],
    created <- [s \in SessionIds |-> sessions[s].created],
    activity <- [s \in SessionIds |-> sessions[s].active],
    served <- served

\* However requests, revocations and the clock interleave, a request is authenticated
\* only by a session that is stored, and within its limits at a moment of the request;
\* activity is written at most once per touch interval and never moves back; a
\* revoked session never authenticates again, not even a request that read it before
\* ("a concurrent revocation wins", resolve_session).
SessionsKeepThePromise == Promise!Spec

\* A request ends no session of another user, whatever session id it names, and
\* revoke-other-sessions leaves the caller's own.
EndsOnlyItsOwn ==
    [][\A r \in Requests, s \in SessionIds :
          /\ requests'[r] # requests[r]
          /\ Stored(s)
          /\ sessions'[s].status = "deleted"
          => /\ sessions[s].user = Caller(r)
             /\ At(r, "revoke_others") => s # requests[r].session]_vars

(* The inductive invariant behind SessionsKeepThePromise.                   *)

\* A handler works on a row that exists; the one about to touch has read an activity
\* that the moment it read is past, and within the limits.
HandlerWellFormed(r) ==
    LET q == requests[r] IN
    /\ q.pc \notin {"idle", "insert"} => /\ q.session \in SessionIds
                                         /\ sessions[q.session].status # "absent"
    /\ q.pc = "touch" => /\ q.seen + TouchInterval <= q.moment
                         /\ ~IsExpired(q.session, q.seen, q.moment)
HandlersWellFormed == \A r \in Requests : HandlerWellFormed(r)

IInv == TypeOK /\ HandlersWellFormed
=============================================================================
