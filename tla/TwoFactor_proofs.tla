--------------------------- MODULE TwoFactor_proofs ---------------------------
(***************************************************************************)
(* The second factor of hayate-auth accepts no step of the secret in force *)
(* twice and never rolls back, for any number of handlers, users,          *)
(* enrolments and steps.                                                   *)
(***************************************************************************)
EXTENDS TwoFactor, TLAPS

USE TwoFactorAssumption

-----------------------------------------------------------------------------
(* Handlers.                                                               *)

LEMMA BlankType == Blank \in Locals
  BY DEF Blank, Locals

\* A step of one handler leaves the others alone.
LEMMA OneHandler ==
  ASSUME TypeOK, NEW r \in Requests, NEW x \in Locals, requests' = [requests EXCEPT ![r] = x]
  PROVE  /\ requests' \in [Requests -> Locals]
         /\ requests'[r] = x
         /\ \A q \in Requests : q # r => requests'[q] = requests[q]
  BY DEF TypeOK

\* A handler that returns holds nothing.
LEMMA Returns ==
  ASSUME TypeOK, NEW r \in Requests, Return(r)
  PROVE  /\ requests' \in [Requests -> Locals]
         /\ requests'[r].pc = "idle"
         /\ \A q \in Requests : q # r => requests'[q] = requests[q]
  BY BlankType, OneHandler DEF Return, Blank

\* A row with a new secret, and one with a later step.
LEMMA RowStored ==
  ASSUME NEW row \in FactorRow, NEW s \in Secrets
  PROVE  LET x == [row EXCEPT !.secret = s, !.used = 0]
         IN  x \in FactorRow /\ x.secret = s /\ x.used = 0
<1>1. 0 \in 0..MaxStep
  OBVIOUS
<1> QED
  BY <1>1 DEF FactorRow

-----------------------------------------------------------------------------
(* The steps.                                                              *)

\* A secret is minted: it is above all that were.
LEMMA EnableStep ==
  ASSUME IInv, NEW r \in Requests, NEW u \in Users, Enable(r, u)
  PROVE  IInv'
<1> DEFINE x == [Blank EXCEPT !.pc = IF Enrolled(u) THEN "replace" ELSE "create",
                              !.user = u, !.secret = minted + 1]
<1> USE DEF IInv
<1>1. minted' = minted + 1 /\ minted + 1 \in Secrets /\ minted \in Nat
  BY DEF Enable, TypeOK, Secrets
<1>2. x \in Locals /\ x.pc \in {"create", "replace"} /\ x.user = u /\ x.secret = minted + 1
  BY <1>1, BlankType DEF Locals, Blank
<1>3. At(r, "idle") /\ requests' = [requests EXCEPT ![r] = x]
  BY DEF Enable, Start
<1> HIDE DEF x
<1>4. /\ requests' \in [Requests -> Locals]
      /\ requests'[r] = x
      /\ \A q \in Requests : q # r => requests'[q] = requests[q]
  BY <1>2, <1>3, OneHandler
<1>5. UNCHANGED <<now, factors, accepted>>
  BY DEF Enable
<1>6. TypeOK'
  BY <1>1, <1>4, <1>5 DEF TypeOK, Secrets
<1>7. HandlersWellFormed'
  BY <1>1, <1>2, <1>4 DEF HandlersWellFormed, Holding, Minting, At
<1>8. MintedAreFresh'
  <2>1. \A s \in Secrets, k \in Steps : s > minted' => accepted'[s][k] = 0
    BY <1>1, <1>5 DEF MintedAreFresh, Secrets
  <2>2. \A k \in Steps : accepted[minted + 1][k] = 0
    BY <1>1 DEF MintedAreFresh
  <2>3. \A v \in Users : Enrolled(v) => factors[v].secret # minted + 1
    BY <1>1 DEF SecretsAreOwned
  <2>4. \A q \in Requests : Holding(q) => requests[q].secret # minted + 1
    BY <1>1 DEF HandlersWellFormed
  <2> QED
    BY <1>2, <1>4, <1>5, <2>1, <2>2, <2>3, <2>4
       DEF MintedAreFresh, Minting, Holding, At, Enrolled
<1>9. SecretsAreOwned'
  BY <1>1, <1>2, <1>4, <1>5 DEF SecretsAreOwned, Enrolled, At
<1>10. AcceptedAreUsed' /\ SingleUseInForce'
  BY <1>5 DEF AcceptedAreUsed, SingleUseInForce, Enrolled
<1> QED
  BY <1>6, <1>7, <1>8, <1>9, <1>10

\* A handler that starts on a row without minting: what is in force stays.
LEMMA StartStep ==
  ASSUME IInv, NEW r \in Requests, NEW u \in Users, NEW x \in Locals,
         Enrolled(u), requests' = [requests EXCEPT ![r] = x], x.user = u,
         \/ x.pc \in {"confirm", "delete"}
         \/ /\ x.pc = "claim"
            /\ x.secret = factors[u].secret
            /\ x.seen < x.step,
         UNCHANGED <<now, minted, factors, accepted>>
  PROVE  IInv'
<1> USE DEF IInv
<1>1. /\ requests' \in [Requests -> Locals]
      /\ requests'[r] = x
      /\ \A q \in Requests : q # r => requests'[q] = requests[q]
  BY OneHandler
<1>2. TypeOK'
  BY <1>1 DEF TypeOK
<1>3. HandlersWellFormed'
  BY <1>1 DEF HandlersWellFormed, Holding, Minting, At, SecretsAreOwned
<1>4. MintedAreFresh'
  BY <1>1 DEF MintedAreFresh, Holding, Minting, At, Enrolled
<1>5. SecretsAreOwned'
  BY <1>1 DEF SecretsAreOwned, At, Enrolled
<1>6. AcceptedAreUsed' /\ SingleUseInForce'
  BY DEF AcceptedAreUsed, SingleUseInForce, Enrolled
<1> QED
  BY <1>2, <1>3, <1>4, <1>5, <1>6

LEMMA ReadStep ==
  ASSUME IInv, NEW r \in Requests, NEW u \in Users, NEW k \in Steps,
         Verify(r, u, k) \/ Disable(r, u, k) \/ SignIn(r, u, k)
  PROVE  IInv'
<1> USE DEF IInv
<1>1. ASSUME Verify(r, u, k)  PROVE IInv'
  <2> DEFINE x == [Blank EXCEPT !.pc = "confirm", !.user = u]
  <2>1. x \in Locals /\ x.pc = "confirm" /\ x.user = u
    BY BlankType DEF Locals, Blank
  <2>2. requests' = [requests EXCEPT ![r] = x]
    BY <1>1 DEF Verify, Start
  <2> HIDE DEF x
  <2> QED
    BY <1>1, <2>1, <2>2, StartStep DEF Verify
<1>2. ASSUME Disable(r, u, k)  PROVE IInv'
  <2> DEFINE x == [Blank EXCEPT !.pc = "delete", !.user = u]
  <2>1. x \in Locals /\ x.pc = "delete" /\ x.user = u
    BY BlankType DEF Locals, Blank
  <2>2. requests' = [requests EXCEPT ![r] = x]
    BY <1>2 DEF Disable, Start
  <2> HIDE DEF x
  <2> QED
    BY <1>2, <2>1, <2>2, StartStep DEF Disable, Enabled
<1>3. ASSUME SignIn(r, u, k)  PROVE IInv'
  <2> DEFINE x == [Blank EXCEPT !.pc = "claim", !.user = u, !.id = factors[u].id,
                                !.secret = factors[u].secret, !.step = k,
                                !.seen = factors[u].used]
  <2>1. Enrolled(u) /\ factors[u] \in FactorRow /\ factors[u].used < k
    BY <1>3 DEF SignIn, Enabled, Enrolled, TypeOK, FactorRow, Steps
  <2>2. /\ x \in Locals /\ x.pc = "claim" /\ x.user = u
        /\ x.secret = factors[u].secret /\ x.seen < x.step
    <3>1. /\ factors[u].id \in Secrets /\ factors[u].secret \in Secrets
          /\ factors[u].used \in 0..MaxStep /\ k \in 0..MaxStep
      BY <2>1 DEF FactorRow, Steps
    <3>2. /\ x.pc = "claim" /\ x.user = u /\ x.secret = factors[u].secret
          /\ x.seen = factors[u].used /\ x.step = k
      BY DEF Blank
    <3>3. x \in Locals
      BY <3>1, BlankType DEF Locals
    <3> QED
      BY <2>1, <3>2, <3>3
  <2>3. requests' = [requests EXCEPT ![r] = x]
    BY <1>3 DEF SignIn, Start
  <2> HIDE DEF x
  <2> QED
    BY <1>3, <2>1, <2>2, <2>3, StartStep DEF SignIn
<1> QED
  BY <1>1, <1>2, <1>3

\* A minted secret comes into force: nothing was accepted for it yet.
LEMMA StoreStep ==
  ASSUME IInv, NEW r \in Requests, Create(r) \/ Replace(r)
  PROVE  IInv'
<1> DEFINE u == requests[r].user
           s == requests[r].secret
<1> USE DEF IInv
<1>1. u \in Users /\ s \in 1..minted /\ s \in Secrets /\ Minting(r)
  BY DEF Create, Replace, At, HandlersWellFormed, Holding, Minting, TypeOK, Secrets
<1>2. UNCHANGED <<now, minted, accepted>> /\ Return(r)
  BY DEF Create, Replace
<1>3. /\ requests' \in [Requests -> Locals]
      /\ requests'[r].pc = "idle"
      /\ \A q \in Requests : q # r => requests'[q] = requests[q]
  BY <1>2, Returns
<1>4. \/ UNCHANGED factors
      \/ \E row \in FactorRow : /\ row.secret = s
                                /\ row.used = 0
                                /\ factors' = [factors EXCEPT ![u] = row]
  <2>1. CASE Create(r)
    <3> DEFINE row == [id |-> s, secret |-> s, enabled |-> FALSE, used |-> 0]
    <3>1. row \in FactorRow /\ row.secret = s /\ row.used = 0
      BY <1>1 DEF FactorRow
    <3>2. UNCHANGED factors \/ factors' = [factors EXCEPT ![u] = row]
      BY <2>1 DEF Create
    <3> HIDE DEF row
    <3> QED
      BY <3>1, <3>2
  <2>2. CASE Replace(r)
    <3> DEFINE row == [factors[u] EXCEPT !.secret = s, !.used = 0]
    <3>1. CASE Enrolled(u)
      <4>1. factors[u] \in FactorRow
        BY <1>1, <3>1 DEF TypeOK, Enrolled
      <4>2. row \in FactorRow /\ row.secret = s /\ row.used = 0
        BY <1>1, <4>1, RowStored
      <4>3. factors' = [factors EXCEPT ![u] = row]
        BY <2>2, <3>1 DEF Replace
      <4> HIDE DEF row
      <4> QED
        BY <4>2, <4>3
    <3>2. CASE ~Enrolled(u)
      BY <2>2, <3>2 DEF Replace
    <3> QED
      BY <3>1, <3>2
  <2> QED
    BY <2>1, <2>2
<1> HIDE DEF u, s
<1>5. TypeOK'
  BY <1>1, <1>2, <1>3, <1>4 DEF TypeOK
<1>6. HandlersWellFormed'
  BY <1>2, <1>3 DEF HandlersWellFormed, Holding, Minting, At
<1>7. ASSUME NEW v \in Users, Enrolled(v)'
      PROVE  \/ Enrolled(v) /\ factors'[v] = factors[v]
             \/ v = u /\ factors'[v].secret = s /\ factors'[v].used = 0
  BY <1>1, <1>4, <1>7 DEF TypeOK, Enrolled
<1>8. /\ \A k \in Steps : accepted[s][k] = 0
      /\ \A v \in Users : Enrolled(v) => factors[v].secret # s
      /\ \A q \in Requests : q # r /\ Holding(q) => requests[q].secret # s
  BY <1>1 DEF MintedAreFresh, s
<1>9. MintedAreFresh'
  <2>1. \A q \in Requests : Holding(q)' => q # r /\ Holding(q)
    BY <1>3 DEF Holding, Minting, At
  <2>2. \A q \in Requests : Minting(q)' => q # r /\ Minting(q)
    BY <1>3 DEF Minting
  <2> QED
    BY <1>2, <1>3, <1>7, <1>8, <2>1, <2>2 DEF MintedAreFresh, Holding
<1>10. SecretsAreOwned'
  BY <1>1, <1>2, <1>3, <1>7, <1>8 DEF SecretsAreOwned, At, Holding
<1>11. AcceptedAreUsed' /\ SingleUseInForce'
  BY <1>2, <1>7, <1>8 DEF AcceptedAreUsed, SingleUseInForce
<1> QED
  BY <1>5, <1>6, <1>9, <1>10, <1>11

\* Turning a row on, or deleting it, brings no secret into force.
LEMMA TurnStep ==
  ASSUME IInv, NEW r \in Requests, Confirm(r) \/ Delete(r)
  PROVE  IInv'
<1> DEFINE u == requests[r].user
<1> USE DEF IInv
<1>1. u \in Users
  BY DEF Confirm, Delete, At, HandlersWellFormed
<1>2. UNCHANGED <<now, minted, accepted>> /\ Return(r)
  BY DEF Confirm, Delete
<1>3. /\ requests' \in [Requests -> Locals]
      /\ requests'[r].pc = "idle"
      /\ \A q \in Requests : q # r => requests'[q] = requests[q]
  BY <1>2, Returns
<1>4. /\ factors' \in [Users -> FactorRow \cup {NoRow}]
      /\ \A v \in Users : Enrolled(v)' => /\ Enrolled(v)
                                          /\ factors'[v].secret = factors[v].secret
                                          /\ factors'[v].used = factors[v].used
  <2>1. CASE Delete(r)
    BY <1>1, <2>1 DEF Delete, TypeOK, Enrolled
  <2>2. CASE Confirm(r) /\ ~Enrolled(u)
    BY <1>1, <2>2 DEF Confirm, TypeOK, Enrolled
  <2>3. CASE Confirm(r) /\ Enrolled(u)
    <3> DEFINE row == [factors[u] EXCEPT !.enabled = TRUE]
    <3>1. /\ row \in FactorRow
          /\ row.secret = factors[u].secret /\ row.used = factors[u].used
      BY <1>1, <2>3 DEF TypeOK, Enrolled, FactorRow
    <3>2. factors' = [factors EXCEPT ![u] = row]
      BY <2>3 DEF Confirm
    <3> HIDE DEF row, u
    <3> QED
      BY <1>1, <2>3, <3>1, <3>2 DEF TypeOK, Enrolled
  <2> QED
    BY <2>1, <2>2, <2>3
<1> HIDE DEF u
<1>5. TypeOK'
  BY <1>2, <1>3, <1>4 DEF TypeOK
<1>6. HandlersWellFormed'
  BY <1>2, <1>3 DEF HandlersWellFormed, Holding, Minting, At
<1>7. MintedAreFresh'
  BY <1>2, <1>3, <1>4 DEF MintedAreFresh, Holding, Minting, At
<1>8. SecretsAreOwned'
  BY <1>2, <1>3, <1>4 DEF SecretsAreOwned, At
<1>9. AcceptedAreUsed' /\ SingleUseInForce'
  BY <1>2, <1>4 DEF AcceptedAreUsed, SingleUseInForce
<1> QED
  BY <1>5, <1>6, <1>7, <1>8, <1>9

\* A step is accepted only beyond the one that was read, which is still in the row: it
\* is accepted for the first time, or for a secret that is in force no more.
LEMMA ClaimStep ==
  ASSUME IInv, NEW r \in Requests, Claim(r)
  PROVE  IInv'
<1> DEFINE q == requests[r]
           u == q.user
<1> USE DEF IInv
<1>1. q \in Locals /\ u \in Users /\ q.secret \in 1..minted /\ q.seen < q.step /\ At(r, "claim")
  BY DEF Claim, At, HandlersWellFormed, Holding, TypeOK
<1>2. q.secret \in Secrets /\ q.step \in Steps
  <2>1. q.step \in 0..MaxStep /\ q.seen \in 0..MaxStep
    BY <1>1 DEF Locals
  <2>2. q.step \in Steps
    BY <1>1, <2>1 DEF Steps
  <2>3. q.secret \in Secrets
    BY <1>1 DEF TypeOK, Secrets
  <2> QED
    BY <2>2, <2>3
<1>3. UNCHANGED <<now, minted>> /\ Return(r)
  BY DEF Claim
<1>4. /\ requests' \in [Requests -> Locals]
      /\ requests'[r].pc = "idle"
      /\ \A p \in Requests : p # r => requests'[p] = requests[p]
  BY <1>3, Returns
<1>5. CASE UNCHANGED <<factors, accepted>>
  <2>1. TypeOK'
    BY <1>3, <1>4, <1>5 DEF TypeOK
  <2>2. HandlersWellFormed'
    BY <1>3, <1>4 DEF HandlersWellFormed, Holding, Minting, At
  <2>3. MintedAreFresh'
    BY <1>3, <1>4, <1>5 DEF MintedAreFresh, Holding, Minting, At, Enrolled
  <2>4. SecretsAreOwned'
    BY <1>3, <1>4, <1>5 DEF SecretsAreOwned, At, Enrolled
  <2>5. AcceptedAreUsed' /\ SingleUseInForce'
    BY <1>5 DEF AcceptedAreUsed, SingleUseInForce, Enrolled
  <2> QED
    BY <2>1, <2>2, <2>3, <2>4, <2>5
<1>6. CASE /\ Enrolled(u)
           /\ factors[u].used = q.seen
           /\ factors' = [factors EXCEPT ![u] = [factors[u] EXCEPT !.used = q.step]]
           /\ accepted' = [accepted EXCEPT ![q.secret][q.step] = @ + 1]
  <2>1. /\ factors' \in [Users -> FactorRow \cup {NoRow}]
        /\ \A v \in Users : /\ Enrolled(v)' => Enrolled(v)
                            /\ factors'[v].secret = factors[v].secret
                            /\ v # u => factors'[v] = factors[v]
        /\ factors'[u].used = q.step
    <3>1. factors[u] \in FactorRow
      BY <1>1, <1>6 DEF TypeOK, Enrolled
    <3> DEFINE row == [factors[u] EXCEPT !.used = q.step]
    <3>2. row \in FactorRow /\ row.secret = factors[u].secret /\ row.used = q.step
      BY <1>2, <3>1 DEF FactorRow, Steps
    <3>3. factors' = [factors EXCEPT ![u] = row]
      BY <1>6
    <3> HIDE DEF row, u
    <3> QED
      BY <1>1, <1>6, <3>2, <3>3 DEF TypeOK, Enrolled
  <2>2. /\ accepted' \in [Secrets -> [Steps -> Nat]]
        /\ \A s \in Secrets, k \in Steps :
             accepted'[s][k] = IF s = q.secret /\ k = q.step THEN accepted[s][k] + 1
                               ELSE accepted[s][k]
    BY <1>2, <1>6 DEF TypeOK
  <2>3. factors[u].used < q.step /\ factors[u].used \in Nat /\ q.step \in Nat
    BY <1>1, <1>2, <1>6 DEF Locals, Steps
  <2> HIDE DEF u, q
  <2>4. TypeOK'
    BY <1>3, <1>4, <2>1, <2>2 DEF TypeOK
  <2>5. HandlersWellFormed'
    BY <1>3, <1>4 DEF HandlersWellFormed, Holding, Minting, At
  <2>6. MintedAreFresh'
    <3>1. \A p \in Requests : Minting(p)' => p # r /\ Minting(p)
      BY <1>4 DEF Minting
    <3>2. \A p \in Requests : Holding(p)' => p # r /\ Holding(p)
      BY <1>4 DEF Holding, Minting, At
    <3>3. \A p \in Requests : p # r /\ Minting(p) => requests[p].secret # q.secret
      BY <1>1 DEF MintedAreFresh, Holding, q
    <3>4. \A p \in Requests : Minting(p) => requests[p].secret \in Secrets
      BY DEF HandlersWellFormed, Holding, TypeOK, Secrets
    <3>5. \A s \in Secrets, k \in Steps : s > minted => accepted'[s][k] = 0
      BY <1>1, <2>2 DEF MintedAreFresh, TypeOK
    <3>6. \A p \in Requests : Minting(p)' =>
            \A k \in Steps : accepted'[requests'[p].secret][k] = 0
      BY <1>4, <2>2, <3>1, <3>3, <3>4 DEF MintedAreFresh
    <3> QED
      BY <1>3, <1>4, <2>1, <3>1, <3>2, <3>5, <3>6 DEF MintedAreFresh
  <2>7. SecretsAreOwned'
    BY <1>3, <1>4, <2>1 DEF SecretsAreOwned, At
  <2>8. ASSUME NEW v \in Users, Enrolled(v)', NEW k \in Steps
        PROVE  /\ accepted'[factors'[v].secret][k] <= 1
               /\ accepted'[factors'[v].secret][k] > 0 => k <= factors'[v].used
    <3>1. Enrolled(v) /\ factors'[v].secret = factors[v].secret /\ factors[v].secret \in Secrets
      BY <2>1, <2>8 DEF SecretsAreOwned, TypeOK, Secrets
    <3>2. /\ accepted[factors[v].secret][k] \in Nat
          /\ accepted[factors[v].secret][k] <= 1
          /\ accepted[factors[v].secret][k] > 0 => k <= factors[v].used
      BY <3>1 DEF SingleUseInForce, AcceptedAreUsed, TypeOK
    <3>3. CASE v = u /\ factors[v].secret = q.secret /\ k = q.step
      <4>1. ~(k <= factors[v].used)
        BY <2>3, <3>3
      <4>2. accepted[factors[v].secret][k] = 0
        BY <3>2, <4>1
      <4>3. accepted'[factors'[v].secret][k] = 1 /\ factors'[v].used = k
        BY <2>1, <2>2, <3>1, <3>3, <4>2
      <4> QED
        BY <2>3, <3>3, <4>3
    <3>4. CASE v = u /\ ~(factors[v].secret = q.secret /\ k = q.step)
      <4>1. accepted'[factors'[v].secret][k] = accepted[factors[v].secret][k]
        BY <2>2, <3>1, <3>4
      <4>2. factors[v].used <= factors'[v].used
        BY <2>1, <2>3, <3>4
      <4>3. k \in Nat /\ factors[v].used \in Nat /\ factors'[v].used \in Nat
        BY <2>1, <2>3, <3>4 DEF Steps
      <4> QED
        BY <3>2, <4>1, <4>2, <4>3
    <3>5. CASE v # u
      BY <1>1, <2>1, <2>2, <3>1, <3>2, <3>5 DEF SecretsAreOwned, u, q
    <3> QED
      BY <3>3, <3>4, <3>5
  <2>9. AcceptedAreUsed' /\ SingleUseInForce'
    BY <2>8 DEF AcceptedAreUsed, SingleUseInForce
  <2> QED
    BY <2>4, <2>5, <2>6, <2>7, <2>9
<1> QED
  BY <1>5, <1>6 DEF Claim, Enabled

-----------------------------------------------------------------------------
(* The theorems.                                                           *)

LEMMA Stutter ==
  ASSUME IInv, Tick \/ UNCHANGED vars
  PROVE  IInv'
<1> USE DEF IInv
<1>1. UNCHANGED <<minted, factors, requests, accepted>> /\ now' \in Steps
  BY DEF Tick, vars, TypeOK, Steps
<1>2. TypeOK' /\ HandlersWellFormed'
  BY <1>1 DEF TypeOK, HandlersWellFormed, Holding, Minting, At
<1>3. MintedAreFresh' /\ SecretsAreOwned'
  BY <1>1 DEF MintedAreFresh, SecretsAreOwned, Holding, Minting, At, Enrolled
<1>4. AcceptedAreUsed' /\ SingleUseInForce'
  BY <1>1 DEF AcceptedAreUsed, SingleUseInForce, Enrolled
<1> QED
  BY <1>2, <1>3, <1>4

\* The invariant that the single use of steps rests on.
THEOREM InductiveInvariant == Spec => []IInv
<1>1. Init => IInv
  BY BlankType DEF Init, IInv, TypeOK, HandlersWellFormed, MintedAreFresh, SecretsAreOwned,
     AcceptedAreUsed, SingleUseInForce, Holding, Minting, At, Enrolled, Blank, Steps
<1>2. IInv /\ [Next]_vars => IInv'
  BY EnableStep, ReadStep, StoreStep, TurnStep, ClaimStep, Stutter DEF Next
<1> QED
  BY <1>1, <1>2, PTL DEF Spec

\* Every reachable state is well typed: a factor is a whole row or none.
THEOREM TypeCorrect == Spec => []TypeOK
<1>1. IInv => TypeOK
  BY DEF IInv
<1> QED
  BY <1>1, InductiveInvariant, PTL

\* No step of a secret in force is accepted twice by sign-ins, however many there are.
THEOREM StepsAreSingleUse == Spec => []SingleUseInForce
<1>1. IInv => SingleUseInForce
  BY DEF IInv
<1> QED
  BY <1>1, InductiveInvariant, PTL

\* Under one secret last_used_step never moves back: only a claim writes it without
\* replacing the secret, and a claim moves it forward.
THEOREM StepsNeverRollBack == Spec => NeverRollsBack
<1> DEFINE Forward ==
             \A u \in Users :
               factors[u].id = factors'[u].id /\ factors[u].secret = factors'[u].secret
               => factors[u].used <= factors'[u].used
<1>1. IInv /\ [Next]_vars => Forward \/ UNCHANGED vars
  <2> SUFFICES ASSUME IInv, [Next]_vars, NEW u \in Users,
                      factors[u].id = factors'[u].id, factors[u].secret = factors'[u].secret
               PROVE  factors[u].used <= factors'[u].used
    OBVIOUS
  <2> USE DEF IInv
  <2>1. factors[u].used \in Nat
    BY DEF TypeOK, FactorRow, NoRow
  <2>2. ASSUME NEW r \in Requests, Create(r)  PROVE factors[u].used <= factors'[u].used
    <3>1. requests[r].secret \in Secrets
      BY <2>2 DEF Create, At, HandlersWellFormed, Holding, Minting, TypeOK, Secrets
    <3>2. requests[r].secret # factors[u].secret
      BY <2>2, <3>1 DEF Create, At, Minting, MintedAreFresh, Enrolled, NoRow, Secrets, None
    <3> QED
      BY <2>1, <2>2, <3>2 DEF Create, TypeOK
  <2>3. ASSUME NEW r \in Requests, Replace(r)  PROVE factors[u].used <= factors'[u].used
    <3>1. CASE factors'[u] = factors[u]
      BY <2>1, <3>1
    <3>2. CASE factors'[u] # factors[u]
      <4>1. Enrolled(u) /\ factors'[u].secret = requests[r].secret
        BY <2>3, <3>2 DEF Replace, TypeOK, FactorRow, Enrolled
      <4> QED
        BY <2>3, <4>1 DEF Replace, At, Minting, MintedAreFresh
    <3> QED
      BY <3>1, <3>2
  <2>4. ASSUME NEW r \in Requests, Claim(r)  PROVE factors[u].used <= factors'[u].used
    <3>1. requests[r].step \in Nat /\ requests[r].seen \in Nat /\ requests[r].seen < requests[r].step
      BY <2>4 DEF Claim, At, HandlersWellFormed, TypeOK, Locals
    <3>2. CASE factors'[u] = factors[u]
      BY <2>1, <3>2
    <3>3. CASE factors'[u] # factors[u]
      <4>1. /\ requests[r].user = u /\ Enrolled(u)
            /\ factors[u].used = requests[r].seen
            /\ factors' = [factors EXCEPT ![u].used = requests[r].step]
        BY <2>4, <3>3 DEF Claim, Enabled, TypeOK
      <4>2. factors[u] \in FactorRow
        BY <4>1 DEF TypeOK, Enrolled
      <4>3. factors'[u].used = requests[r].step
        BY <4>1, <4>2 DEF TypeOK, FactorRow
      <4> QED
        BY <3>1, <4>1, <4>3
    <3> QED
      BY <3>2, <3>3
  <2>5. ASSUME NEW r \in Requests, Confirm(r)  PROVE factors[u].used <= factors'[u].used
    BY <2>1, <2>5 DEF Confirm, TypeOK, FactorRow, NoRow, Enrolled
  <2>6. ASSUME NEW r \in Requests, Delete(r)  PROVE factors[u].used <= factors'[u].used
    BY <2>1, <2>6 DEF Delete, TypeOK, FactorRow, NoRow, None, Secrets
  <2>7. ASSUME \/ \E r \in Requests, v \in Users : Enable(r, v)
               \/ \E r \in Requests, v \in Users, k \in Steps :
                    Verify(r, v, k) \/ Disable(r, v, k) \/ SignIn(r, v, k)
               \/ Tick \/ UNCHANGED vars
        PROVE  factors[u].used <= factors'[u].used
    <3>1. UNCHANGED factors
      BY <2>7 DEF Enable, Verify, Disable, SignIn, Tick, vars
    <3> QED
      BY <2>1, <3>1
  <2> QED
    BY <2>2, <2>3, <2>4, <2>5, <2>6, <2>7 DEF Next
<1> QED
  BY <1>1, InductiveInvariant, PTL DEF Spec, NeverRollsBack
=============================================================================
