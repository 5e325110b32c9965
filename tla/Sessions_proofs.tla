--------------------------- MODULE Sessions_proofs ---------------------------
(***************************************************************************)
(* The sessions of hayate-auth keep SessionPromise, for any number of      *)
(* handlers, users and sessions and whatever the limits are.               *)
(***************************************************************************)
EXTENDS Sessions, TLAPS

USE SessionsAssumption

-----------------------------------------------------------------------------
(* Types.                                                                  *)

\* What a handler holds of a session it is authenticated by, or returns with.
LEMMA BlankType == Blank \in Locals
  BY DEF Blank, Locals, Labels, Moments, SessionIds, None

\* Every step of the handlers and of the clock keeps the types: the stamps are moments
\* of the clock and the rows stay rows of the table.
LEMMA TypeStep == TypeOK /\ [Next]_vars => TypeOK'
<1> SUFFICES ASSUME TypeOK, [Next]_vars PROVE TypeOK'
  OBVIOUS
<1> USE DEF Moments
<1>1. ASSUME NEW S, Delete(S)
      PROVE  sessions' \in [SessionIds -> SessionRow]
  BY <1>1 DEF Delete, TypeOK, SessionRow
<1>2. ASSUME NEW r \in Requests, Return(r)
      PROVE  requests' \in [Requests -> Locals]
  BY <1>2, BlankType DEF Return, TypeOK
<1>3. ASSUME NEW r \in Requests, NEW label \in Labels, Goto(r, label)
      PROVE  requests' \in [Requests -> Locals]
  <2>1. requests[r] \in Locals
    BY DEF TypeOK
  <2>2. [requests[r] EXCEPT !.pc = label] \in Locals
    BY <2>1 DEF Locals
  <2>3. requests' = [requests EXCEPT ![r] = [requests[r] EXCEPT !.pc = label]]
    BY <1>3 DEF Goto
  <2> QED
    BY <2>2, <2>3 DEF TypeOK
<1>4. ASSUME NEW r \in Requests, NEW s \in SessionIds \cup {None}, NEW moment \in Moments,
             Authenticate(r, s, moment)
      PROVE  /\ requests' \in [Requests -> Locals]
             /\ served' \in [session: SessionIds \cup {None}, moment: Moments]
  <2>1. [Blank EXCEPT !.pc = "user", !.session = s] \in Locals
    BY BlankType DEF Locals, Labels
  <2> QED
    BY <1>4, <2>1 DEF Authenticate, TypeOK
<1>5. ASSUME NEW r \in Requests, NEW user \in Users, SignIn(r, user)  PROVE TypeOK'
  <2>1. [Blank EXCEPT !.pc = "insert", !.user = user, !.moment = clock] \in Locals
    BY BlankType DEF Locals, Labels, TypeOK
  <2> QED
    BY <1>5, <2>1 DEF SignIn, TypeOK
<1>6. ASSUME NEW r \in Requests, Insert(r)  PROVE TypeOK'
  <2>1. PICK s \in SessionIds :
          sessions' = [sessions EXCEPT ![s] =
                         [status |-> "stored", user |-> requests[r].user,
                          created |-> requests[r].moment, active |-> requests[r].moment]]
    BY <1>6 DEF Insert
  <2>2. sessions' \in [SessionIds -> SessionRow]
    BY <2>1 DEF TypeOK, Locals, SessionRow
  <2> QED
    BY <1>6, <1>2, <2>2 DEF Insert, TypeOK
<1>7. ASSUME NEW r \in Requests, NEW s \in SessionIds, Resolve(r, s)  PROVE TypeOK'
  <2> DEFINE expire == [Blank EXCEPT !.pc = "expire", !.session = s]
             touch == [Blank EXCEPT !.pc = "touch", !.session = s, !.moment = clock,
                                    !.seen = sessions[s].active]
  <2>1. expire \in Locals /\ touch \in Locals
    BY BlankType DEF Locals, Labels, TypeOK, SessionRow
  <2>2. CASE requests' = [requests EXCEPT ![r] = expire] /\ UNCHANGED served
    BY <1>7, <2>1, <2>2 DEF Resolve, TypeOK
  <2>3. CASE requests' = [requests EXCEPT ![r] = touch] /\ UNCHANGED served
    BY <1>7, <2>1, <2>3 DEF Resolve, TypeOK
  <2>4. CASE Authenticate(r, s, clock)
    BY <1>7, <1>4, <2>4 DEF Resolve, TypeOK
  <2> QED
    BY <1>7, <2>2, <2>3, <2>4 DEF Resolve
<1>8. ASSUME NEW r \in Requests, Expire(r)  PROVE TypeOK'
  BY <1>8, <1>1, <1>2 DEF Expire, TypeOK
<1>9. ASSUME NEW r \in Requests, Touch(r)  PROVE TypeOK'
  <2> DEFINE s == requests[r].session
  <2> s \in SessionIds \cup {None} /\ requests[r].moment \in Moments
    BY DEF TypeOK, Locals
  <2> HIDE DEF s
  <2>1. CASE Stored(s) /\ sessions[s].active = requests[r].seen
    <3>1. sessions' = [sessions EXCEPT ![s] =
                         [sessions[s] EXCEPT !.active = requests[r].moment]]
      BY <1>9, <2>1 DEF Touch, s
    <3>2. sessions' \in [SessionIds -> SessionRow]
      <4>1. \A row \in SessionRow, moment \in Moments : [row EXCEPT !.active = moment] \in SessionRow
        BY DEF SessionRow
      <4>2. \A u \in SessionIds : sessions[u] \in SessionRow
        BY DEF TypeOK
      <4> QED
        BY <3>1, <4>1, <4>2 DEF TypeOK
    <3>3. Authenticate(r, s, requests[r].moment)
      BY <1>9, <2>1 DEF Touch, s
    <3> QED
      BY <1>9, <1>4, <3>2, <3>3 DEF Touch, TypeOK
  <2>2. CASE ~(Stored(s) /\ sessions[s].active = requests[r].seen)
    BY <1>9, <1>3, <2>2 DEF Touch, TypeOK, Labels, s
  <2> QED
    BY <2>1, <2>2
<1>10. ASSUME NEW r \in Requests, Reread(r)  PROVE TypeOK'
  <2> DEFINE s == requests[r].session
  <2> s \in SessionIds \cup {None} /\ requests[r].moment \in Moments
    BY DEF TypeOK, Locals
  <2> HIDE DEF s
  <2>1. CASE Authenticate(r, s, requests[r].moment)
    BY <1>10, <1>4, <2>1 DEF Reread, TypeOK
  <2>2. CASE Return(r) /\ UNCHANGED served
    BY <1>10, <1>2, <2>2 DEF Reread, TypeOK
  <2> QED
    BY <1>10, <2>1, <2>2 DEF Reread, s
<1>11. ASSUME NEW r \in Requests, FindUser(r)  PROVE TypeOK'
  <2>1. CASE Return(r)
    BY <1>11, <1>2, <2>1 DEF FindUser, TypeOK
  <2>2. CASE \E label \in Revocations : Goto(r, label)
    BY <1>11, <1>3, <2>2 DEF FindUser, TypeOK, Labels
  <2> QED
    BY <1>11, <2>1, <2>2 DEF FindUser
<1>12. ASSUME NEW r \in Requests, RevokeOne(r) \/ RevokeOthers(r) \/ RevokeAll(r)
       PROVE TypeOK'
  BY <1>12, <1>1, <1>2 DEF RevokeOne, RevokeOthers, RevokeAll, TypeOK
<1>13. ASSUME NEW s \in SessionIds, SignOut(s)  PROVE TypeOK'
  BY <1>13, <1>1 DEF SignOut, TypeOK
<1>14. ASSUME NEW user \in Users, RevokeUserSessions(user)  PROVE TypeOK'
  BY <1>14, <1>1 DEF RevokeUserSessions, TypeOK
<1>15. CASE Tick
  BY <1>15 DEF Tick, TypeOK
<1>16. CASE UNCHANGED vars
  BY <1>16 DEF vars, TypeOK
<1> QED
  BY <1>5, <1>6, <1>7, <1>8, <1>9, <1>10, <1>11, <1>12, <1>13, <1>14, <1>15, <1>16 DEF Next

\* Every reachable state is well typed; in particular no stamp is ahead of the last
\* moment and no status is one the table does not have.
THEOREM TypeCorrect == Spec => []TypeOK
<1>1. Init => TypeOK
  BY BlankType DEF Init, TypeOK, Moments, SessionRow, NoSession, None
<1> QED
  BY <1>1, TypeStep, PTL DEF Spec
-----------------------------------------------------------------------------
(* Rows and handlers.                                                      *)

\* An inserted row stays in the table or among the deleted ones, and its user and
\* creation never change: what a handler reads of them through the id is what it read.
LEMMA RowsStay ==
  ASSUME TypeOK, [Next]_vars, NEW s \in SessionIds, sessions[s].status # "absent"
  PROVE  /\ sessions'[s].status # "absent"
         /\ sessions'[s].created = sessions[s].created
         /\ sessions'[s].user = sessions[s].user
<1> USE DEF TypeOK, SessionRow
<1>1. ASSUME NEW S, Delete(S)
      PROVE  /\ sessions'[s].status # "absent"
             /\ sessions'[s].created = sessions[s].created
             /\ sessions'[s].user = sessions[s].user
  BY <1>1 DEF Delete
<1>2. ASSUME NEW r \in Requests, Insert(r)
      PROVE  sessions'[s] = sessions[s]
  BY <1>2 DEF Insert, IsNext
<1>3. ASSUME NEW r \in Requests, Touch(r)
      PROVE  /\ sessions'[s].status # "absent"
             /\ sessions'[s].created = sessions[s].created
             /\ sessions'[s].user = sessions[s].user
  BY <1>3 DEF Touch
<1>4. ASSUME NEW r \in Requests, Expire(r) \/ RevokeOne(r) \/ RevokeOthers(r) \/ RevokeAll(r)
      PROVE  \E S : Delete(S)
  BY <1>4 DEF Expire, RevokeOne, RevokeOthers, RevokeAll
<1>5. ASSUME NEW t \in SessionIds, SignOut(t)  PROVE \E S : Delete(S)
  BY <1>5 DEF SignOut
<1>6. ASSUME NEW user \in Users, RevokeUserSessions(user)  PROVE \E S : Delete(S)
  BY <1>6 DEF RevokeUserSessions
<1>7. ASSUME NEW r \in Requests,
             \/ \E user \in Users : SignIn(r, user)
             \/ \E t \in SessionIds : Resolve(r, t)
             \/ Reread(r) \/ FindUser(r)
      PROVE  UNCHANGED sessions
  BY <1>7 DEF SignIn, Resolve, Reread, FindUser
<1>8. CASE Tick \/ UNCHANGED vars
  BY <1>8 DEF Tick, vars
<1> QED
  BY <1>1, <1>2, <1>3, <1>4, <1>5, <1>6, <1>7, <1>8 DEF Next

\* A handler that starts or goes on holds an existing row, and one that is about to
\* touch has compared the activity it read with the moment it read.
LEMMA HandlersStep == IInv /\ [Next]_vars => HandlersWellFormed'
<1> SUFFICES ASSUME IInv, [Next]_vars PROVE HandlersWellFormed'
  OBVIOUS
<1> USE DEF IInv
<1>1. ASSUME NEW q \in Requests, HandlerWellFormed(q), requests'[q] = requests[q]
      PROVE  HandlerWellFormed(q)'
  BY <1>1, RowsStay DEF HandlerWellFormed, IsExpired
<1>2. ASSUME UNCHANGED requests  PROVE HandlersWellFormed'
  BY <1>1, <1>2 DEF HandlersWellFormed
<1>3. ASSUME NEW r \in Requests, NEW x,
             requests' = [requests EXCEPT ![r] = x],
             x.pc \notin {"idle", "insert"} => /\ x.session \in SessionIds
                                               /\ sessions[x.session].status # "absent",
             x.pc = "touch" => /\ x.seen + TouchInterval <= x.moment
                               /\ ~IsExpired(x.session, x.seen, x.moment)
      PROVE  HandlersWellFormed'
  <2>1. requests'[r] = x
    BY <1>3 DEF TypeOK
  <2>2. HandlerWellFormed(r)'
    BY <1>3, <2>1, RowsStay DEF HandlerWellFormed, IsExpired
  <2>3. ASSUME NEW q \in Requests, q # r  PROVE requests'[q] = requests[q]
    BY <1>3, <2>3 DEF TypeOK
  <2> QED
    BY <1>1, <2>2, <2>3 DEF HandlersWellFormed
<1>4. ASSUME NEW r \in Requests, Return(r)  PROVE HandlersWellFormed'
  BY <1>3, <1>4 DEF Return, Blank
<1>5. ASSUME NEW r \in Requests, requests[r].pc \notin {"idle", "insert"},
             NEW label \in Labels \ {"touch"}, Goto(r, label)
      PROVE  HandlersWellFormed'
  <2> DEFINE x == [requests[r] EXCEPT !.pc = label]
  <2>1. requests' = [requests EXCEPT ![r] = x]
    BY <1>5 DEF Goto
  <2>2. x.pc = label /\ x.session = requests[r].session
    BY DEF TypeOK, Locals
  <2>3. x.session \in SessionIds /\ sessions[x.session].status # "absent"
    BY <1>5, <2>2 DEF HandlersWellFormed, HandlerWellFormed
  <2> HIDE DEF x
  <2> QED
    BY <1>3, <2>1, <2>2, <2>3
<1>6. ASSUME NEW r \in Requests, NEW s \in SessionIds, NEW moment, Stored(s),
             Authenticate(r, s, moment)
      PROVE  HandlersWellFormed'
  <2> DEFINE x == [Blank EXCEPT !.pc = "user", !.session = s]
  <2>1. x.pc = "user" /\ x.session = s
    BY DEF Blank
  <2>2. requests' = [requests EXCEPT ![r] = x]
    BY <1>6 DEF Authenticate
  <2>3. sessions[s].status # "absent"
    BY <1>6 DEF Stored
  <2> HIDE DEF x
  <2> QED
    BY <1>3, <2>1, <2>2, <2>3
<1>7. ASSUME NEW r \in Requests, NEW user \in Users, SignIn(r, user)
      PROVE  HandlersWellFormed'
  <2> DEFINE x == [Blank EXCEPT !.pc = "insert", !.user = user, !.moment = clock]
  <2>1. x.pc = "insert"
    BY DEF Blank
  <2>2. requests' = [requests EXCEPT ![r] = x]
    BY <1>7 DEF SignIn
  <2> HIDE DEF x
  <2> QED
    BY <1>3, <2>1, <2>2
<1>8. ASSUME NEW r \in Requests, NEW s \in SessionIds, Resolve(r, s)
      PROVE  HandlersWellFormed'
  <2> DEFINE expire == [Blank EXCEPT !.pc = "expire", !.session = s]
             touch == [Blank EXCEPT !.pc = "touch", !.session = s, !.moment = clock,
                                    !.seen = sessions[s].active]
  <2>1. expire.pc = "expire" /\ expire.session = s
    BY DEF Blank
  <2>2. /\ touch.pc = "touch" /\ touch.session = s
        /\ touch.moment = clock /\ touch.seen = sessions[s].active
    BY DEF Blank
  <2>3. Stored(s) /\ sessions[s].status # "absent"
    BY <1>8 DEF Resolve, Stored
  <2>4. \/ requests' = [requests EXCEPT ![r] = expire]
        \/ /\ ~IsExpired(s, sessions[s].active, clock)
           /\ sessions[s].active + TouchInterval <= clock
           /\ requests' = [requests EXCEPT ![r] = touch]
        \/ Authenticate(r, s, clock)
    BY <1>8 DEF Resolve
  <2> HIDE DEF expire, touch
  <2> QED
    BY <1>3, <1>6, <2>1, <2>2, <2>3, <2>4
<1>9. ASSUME NEW r \in Requests, Touch(r) \/ Reread(r)  PROVE HandlersWellFormed'
  <2>1. requests[r].pc \in {"touch", "reread"}
    BY <1>9 DEF Touch, Reread, At
  <2>2. requests[r].session \in SessionIds
    BY <2>1 DEF HandlersWellFormed, HandlerWellFormed
  <2>3. \/ Stored(requests[r].session)
             /\ Authenticate(r, requests[r].session, requests[r].moment)
        \/ Goto(r, "reread")
        \/ Return(r)
    BY <1>9 DEF Touch, Reread
  <2> QED
    BY <1>4, <1>5, <1>6, <2>1, <2>2, <2>3 DEF Labels
<1>10. ASSUME NEW r \in Requests, FindUser(r)  PROVE HandlersWellFormed'
  BY <1>4, <1>5, <1>10 DEF FindUser, At, Labels, Revocations
<1>11. ASSUME NEW r \in Requests,
              \/ Insert(r) \/ Expire(r)
              \/ RevokeOne(r) \/ RevokeOthers(r) \/ RevokeAll(r)
       PROVE  HandlersWellFormed'
  BY <1>4, <1>11 DEF Insert, Expire, RevokeOne, RevokeOthers, RevokeAll
<1>12. ASSUME \/ \E s \in SessionIds : SignOut(s)
              \/ \E user \in Users : RevokeUserSessions(user)
              \/ Tick
              \/ UNCHANGED vars
       PROVE  HandlersWellFormed'
  BY <1>2, <1>12 DEF SignOut, RevokeUserSessions, Tick, vars
<1> QED
  BY <1>7, <1>8, <1>9, <1>10, <1>11, <1>12 DEF Next

\* The invariant that the refinement rests on.
THEOREM InductiveInvariant == Spec => []IInv
<1>1. Init => IInv
  BY BlankType DEF Init, IInv, TypeOK, HandlersWellFormed, HandlerWellFormed, Blank,
                   Moments, SessionRow, NoSession, None
<1>2. IInv /\ [Next]_vars => IInv'
  BY TypeStep, HandlersStep DEF IInv
<1> QED
  BY <1>1, <1>2, PTL DEF Spec

-----------------------------------------------------------------------------
(* The promise.                                                            *)

\* Deleting rows ends their sessions.
LEMMA DeleteEnds ==
  ASSUME TypeOK, NEW S, Delete(S), UNCHANGED served
  PROVE  Promise!Next
<1> DEFINE ended == {s \in SessionIds : s \in S /\ Stored(s)}
<1>1. \A s \in ended : PhaseOf(sessions[s].status) = "alive"
  BY DEF Stored, PhaseOf
<1>2. ASSUME NEW s \in SessionIds
      PROVE  /\ PhaseOf(sessions'[s].status) = IF s \in ended THEN "ended"
                                               ELSE PhaseOf(sessions[s].status)
             /\ sessions'[s].created = sessions[s].created
             /\ sessions'[s].active = sessions[s].active
  BY DEF Delete, TypeOK, SessionRow, PhaseOf, Stored
<1>3. Promise!End(ended)
  BY <1>1, <1>2 DEF Promise!End
<1> QED
  BY <1>3 DEF Promise!Next

\* A start and a touch, at a moment of the instance, are steps of the promise.
LEMMA StartOrTouch ==
  ASSUME NEW s \in SessionIds, NEW moment \in Moments,
         Promise!Start(s, moment) \/ Promise!Touch(s, moment)
  PROVE  Promise!Next
BY DEF Promise!Next

\* A session that authenticates a request serves it.
LEMMA AuthenticateServes ==
  ASSUME TypeOK, NEW r \in Requests, NEW s \in SessionIds, NEW moment \in Moments,
         Stored(s), ~IsExpired(s, sessions[s].active, moment),
         Authenticate(r, s, moment), UNCHANGED sessions
  PROVE  Promise!Next
<1>1. moment \in Nat /\ sessions[s].created \in Nat /\ sessions[s].active \in Nat
  BY DEF TypeOK, SessionRow, Moments
<1>2. Promise!Acceptable(s, moment)
  BY <1>1 DEF Promise!Acceptable, Stored, PhaseOf, IsExpired
<1>3. Promise!Serve(s, moment)
  BY <1>2 DEF Promise!Serve, Authenticate
<1> QED
  BY <1>3 DEF Promise!Next

\* Every step of the handlers and of the clock is a step of the promise or none of it.
LEMMA PromiseStep == IInv /\ [Next]_vars => [Promise!Next]_(Promise!vars)
<1> SUFFICES ASSUME IInv, [Next]_vars PROVE [Promise!Next]_(Promise!vars)
  OBVIOUS
<1> USE DEF IInv
<1>1. ASSUME UNCHANGED <<sessions, served>>  PROVE UNCHANGED Promise!vars
  BY <1>1 DEF Promise!vars
<1>2. ASSUME NEW r \in Requests, Insert(r)  PROVE Promise!Next
  <2>1. PICK s \in SessionIds :
          /\ IsNext(s)
          /\ sessions' = [sessions EXCEPT ![s] =
                            [status |-> "stored", user |-> requests[r].user,
                             created |-> requests[r].moment, active |-> requests[r].moment]]
    BY <1>2 DEF Insert
  <2>2. UNCHANGED served
    BY <1>2 DEF Insert
  <2>3. PICK moment \in Moments : moment = requests[r].moment
    BY DEF TypeOK, Locals
  <2>4. ASSUME NEW t \in SessionIds
        PROVE  /\ sessions'[t].status = IF t = s THEN "stored" ELSE sessions[t].status
               /\ sessions'[t].created = IF t = s THEN moment ELSE sessions[t].created
               /\ sessions'[t].active = IF t = s THEN moment ELSE sessions[t].active
    BY <2>1, <2>3 DEF TypeOK
  <2>5. PhaseOf(sessions[s].status) = "new" /\ PhaseOf("stored") = "alive"
    BY <2>1 DEF IsNext, PhaseOf
  <2>6. Promise!Start(s, moment)
    BY <2>2, <2>4, <2>5 DEF Promise!Start
  <2> QED
    BY <2>6, StartOrTouch
<1>3. ASSUME NEW r \in Requests, NEW s \in SessionIds, Resolve(r, s)
      PROVE  [Promise!Next]_(Promise!vars)
  <2>1. CASE Authenticate(r, s, clock) /\ ~IsExpired(s, sessions[s].active, clock)
    BY <1>3, <2>1, AuthenticateServes DEF Resolve, TypeOK
  <2>2. CASE UNCHANGED served
    BY <1>1, <1>3, <2>2 DEF Resolve
  <2> QED
    BY <1>3, <2>1, <2>2 DEF Resolve
<1>4. ASSUME NEW r \in Requests, Touch(r)  PROVE [Promise!Next]_(Promise!vars)
  <2>1. PICK s \in SessionIds, moment \in Moments :
          s = requests[r].session /\ moment = requests[r].moment
    BY <1>4 DEF Touch, At, HandlersWellFormed, HandlerWellFormed, TypeOK, Locals
  <2>2. CASE ~(Stored(s) /\ sessions[s].active = requests[r].seen)
    BY <1>1, <1>4, <2>1, <2>2 DEF Touch
  <2>3. CASE Stored(s) /\ sessions[s].active = requests[r].seen
    <3>1. ~IsExpired(s, sessions[s].active, moment)
      BY <1>4, <2>1, <2>3 DEF Touch, At, HandlersWellFormed, HandlerWellFormed
    <3>2. sessions[s].active + TouchInterval <= moment
      BY <1>4, <2>1, <2>3 DEF Touch, At, HandlersWellFormed, HandlerWellFormed
    <3>3. sessions' = [sessions EXCEPT ![s] = [sessions[s] EXCEPT !.active = moment]]
      BY <1>4, <2>1, <2>3 DEF Touch
    <3>4. served' = [session |-> s, moment |-> moment]
      BY <1>4, <2>1, <2>3 DEF Touch, Authenticate
    <3>5. moment \in Nat /\ sessions[s].created \in Nat /\ sessions[s].active \in Nat
      BY <2>1 DEF TypeOK, SessionRow, Moments
    <3>6. Promise!Acceptable(s, moment)
      BY <2>1, <2>3, <3>1, <3>5 DEF Promise!Acceptable, Stored, PhaseOf, IsExpired
    <3>7. ASSUME NEW t \in SessionIds
          PROVE  /\ sessions'[t].status = sessions[t].status
                 /\ sessions'[t].created = sessions[t].created
                 /\ sessions'[t].active = IF t = s THEN moment ELSE sessions[t].active
      BY <2>1, <3>3 DEF TypeOK, SessionRow
    <3>8. Promise!Touch(s, moment)
      BY <2>1, <3>2, <3>4, <3>5, <3>6, <3>7 DEF Promise!Touch
    <3> QED
      BY <3>8, StartOrTouch
  <2> QED
    BY <2>2, <2>3
<1>5. ASSUME NEW r \in Requests, Reread(r)  PROVE [Promise!Next]_(Promise!vars)
  <2>1. requests[r].session \in SessionIds /\ requests[r].moment \in Moments
    BY <1>5 DEF Reread, At, HandlersWellFormed, HandlerWellFormed, TypeOK, Locals
  <2> QED
    BY <1>1, <1>5, <2>1, AuthenticateServes DEF Reread
<1>6. ASSUME NEW r \in Requests,
             Expire(r) \/ RevokeOne(r) \/ RevokeOthers(r) \/ RevokeAll(r)
      PROVE  Promise!Next
  BY <1>6, DeleteEnds DEF Expire, RevokeOne, RevokeOthers, RevokeAll
<1>7. ASSUME NEW s \in SessionIds, SignOut(s)  PROVE Promise!Next
  BY <1>7, DeleteEnds DEF SignOut
<1>8. ASSUME NEW user \in Users, RevokeUserSessions(user)  PROVE Promise!Next
  BY <1>8, DeleteEnds DEF RevokeUserSessions
<1>9. ASSUME \/ \E r \in Requests : \/ \E user \in Users : SignIn(r, user)
                                    \/ FindUser(r)
             \/ Tick
             \/ UNCHANGED vars
      PROVE  UNCHANGED <<sessions, served>>
  BY <1>9 DEF SignIn, FindUser, Tick, vars
<1> QED
  BY <1>1, <1>2, <1>3, <1>4, <1>5, <1>6, <1>7, <1>8, <1>9 DEF Next

\* Authentication, activity and revocation keep the promise of SessionPromise,
\* whatever the limits and however many devices and workers there are.
THEOREM KeepsThePromise == Spec => SessionsKeepThePromise
<1>1. Init => Promise!Init
  BY DEF Init, Promise!Init, NoSession, PhaseOf, None
<1> QED
  BY <1>1, InductiveInvariant, PromiseStep, PTL DEF Spec, SessionsKeepThePromise, Promise!Spec

\* A request ends only sessions of its own user, and revoke-other-sessions spares the
\* one it was made with.
THEOREM EndsOnlyItsOwnSessions == Spec => EndsOnlyItsOwn
<1> DEFINE Own(r, s) ==
             (requests'[r] # requests[r] /\ Stored(s) /\ sessions'[s].status = "deleted")
             => /\ sessions[s].user = Caller(r)
                /\ At(r, "revoke_others") => s # requests[r].session
<1>1. IInv /\ [Next]_vars => \A r \in Requests, s \in SessionIds : Own(r, s)
  <2> SUFFICES ASSUME IInv, [Next]_vars, NEW r \in Requests, NEW s \in SessionIds,
                      requests'[r] # requests[r], Stored(s),
                      sessions'[s].status = "deleted"
               PROVE  /\ sessions[s].user = Caller(r)
                      /\ At(r, "revoke_others") => s # requests[r].session
    OBVIOUS
  <2> USE DEF IInv
  <2>1. ASSUME NEW S, Delete(S)  PROVE s \in S
    BY <2>1 DEF Delete, Stored, TypeOK
  <2>2. ASSUME NEW q \in Requests, NEW x, requests' = [requests EXCEPT ![q] = x]
        PROVE  q = r
    BY <2>2 DEF TypeOK
  <2>3. ASSUME NEW q \in Requests, Expire(q)
        PROVE  q = r /\ s = requests[r].session /\ ~At(r, "revoke_others")
    BY <2>1, <2>2, <2>3 DEF Expire, Return, At
  <2>4. ASSUME NEW q \in Requests, RevokeOne(q) \/ RevokeAll(q)
        PROVE  q = r /\ s \in OwnedBy(Caller(r)) /\ ~At(r, "revoke_others")
    BY <2>1, <2>2, <2>4 DEF RevokeOne, RevokeAll, Return, At
  <2>5. ASSUME NEW q \in Requests, RevokeOthers(q)
        PROVE  q = r /\ s \in OwnedBy(Caller(r)) /\ s # requests[r].session
    BY <2>1, <2>2, <2>5 DEF RevokeOthers, Return, At
  <2>6. ASSUME NEW q \in Requests, Insert(q)  PROVE FALSE
    BY <2>6 DEF Insert, Stored, TypeOK
  <2>7. ASSUME NEW q \in Requests, Touch(q)  PROVE FALSE
    BY <2>7 DEF Touch, Stored, TypeOK, SessionRow
  <2>8. ASSUME NEW q \in Requests,
               \/ \E user \in Users : SignIn(q, user)
               \/ \E t \in SessionIds : Resolve(q, t)
               \/ Reread(q) \/ FindUser(q)
        PROVE  FALSE
    BY <2>8 DEF SignIn, Resolve, Reread, FindUser, Stored
  <2>9. ASSUME \/ \E t \in SessionIds : SignOut(t)
               \/ \E user \in Users : RevokeUserSessions(user)
               \/ Tick
               \/ UNCHANGED vars
        PROVE  FALSE
    BY <2>9 DEF SignOut, RevokeUserSessions, Tick, vars
  <2> QED
    BY <2>3, <2>4, <2>5, <2>6, <2>7, <2>8, <2>9 DEF Next, OwnedBy, Caller
<1>2. IInv /\ [Next]_vars =>
        [\A r \in Requests, s \in SessionIds :
            /\ requests'[r] # requests[r]
            /\ Stored(s)
            /\ sessions'[s].status = "deleted"
            => /\ sessions[s].user = Caller(r)
               /\ At(r, "revoke_others") => s # requests[r].session]_vars
  BY <1>1
<1> QED
  BY <1>2, InductiveInvariant, PTL DEF Spec, EndsOnlyItsOwn
=============================================================================
