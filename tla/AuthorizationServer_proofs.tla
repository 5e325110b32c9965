---------------------- MODULE AuthorizationServer_proofs ----------------------
(***************************************************************************)
(* Proofs about AuthorizationServer, for every set of requests, users and  *)
(* clients and every bound.                                                *)
(***************************************************************************)
EXTENDS AuthorizationServer, TLAPS

-----------------------------------------------------------------------------
(* Type correctness.                                                       *)

LEMMA BlankType == Blank \in Locals
BY DEF Blank, Locals, Labels, None

LEMMA IdTypes == /\ None \in Nat
                 /\ GrantIds \subseteq Nat
                 /\ CodeIds \subseteq Nat
                 /\ TokenIds \subseteq Nat
                 /\ None \notin GrantIds
                 /\ None \notin CodeIds
                 /\ None \notin TokenIds
BY ConstantsAssumption DEF None, GrantIds, CodeIds, TokenIds

\* A step of a handler changes its label and one more local variable, or two columns.
LEMMA UpdateTypes ==
    /\ \A q \in Locals, label \in Labels, g \in GrantIds :
         [q EXCEPT !.pc = label, !.grant = g] \in Locals
    /\ \A q \in Locals, label \in Labels, s \in SUBSET Scopes :
         [q EXCEPT !.pc = label, !.scope = s] \in Locals
    /\ \A q \in Locals, label \in Labels, t \in TokenIds :
         [q EXCEPT !.pc = label, !.new = t] \in Locals
    /\ \A row \in CodeRow, status \in CodeStatus, f \in Nat :
         [row EXCEPT !.status = status, !.family = f] \in CodeRow
    /\ \A row \in ConsentRow, g \in GrantIds :
         [row EXCEPT !.status = "revoked", !.grant = g] \in ConsentRow
<1>1. \A q \in Locals, label \in Labels, g \in GrantIds :
        [q EXCEPT !.pc = label, !.grant = g] \in Locals
  BY DEF Locals
<1>2. \A q \in Locals, label \in Labels, s \in SUBSET Scopes :
        [q EXCEPT !.pc = label, !.scope = s] \in Locals
  BY DEF Locals
<1>3. \A q \in Locals, label \in Labels, t \in TokenIds :
        [q EXCEPT !.pc = label, !.new = t] \in Locals
  BY DEF Locals
<1>4. \A row \in CodeRow, status \in CodeStatus, f \in Nat :
        [row EXCEPT !.status = status, !.family = f] \in CodeRow
  BY DEF CodeRow
<1>5. \A row \in ConsentRow, g \in GrantIds :
        [row EXCEPT !.status = "revoked", !.grant = g] \in ConsentRow
  BY DEF ConsentRow
<1> QED
  BY <1>1, <1>2, <1>3, <1>4, <1>5

LEMMA GotoType ==
    ASSUME TypeOK, NEW r \in Requests, NEW label \in Labels, Goto(r, label)
    PROVE  requests' \in [Requests -> Locals]
BY DEF TypeOK, Goto, Locals

LEMMA ReturnType ==
    ASSUME TypeOK, NEW r \in Requests, Return(r)
    PROVE  requests' \in [Requests -> Locals]
BY BlankType DEF TypeOK, Return

LEMMA SweepType ==
    ASSUME TypeOK, NEW f, NEW status \in TokenStatus, SweepFamily(f, status)
    PROVE  tokens' \in [TokenIds -> TokenRow]
<1>1. \A row \in TokenRow : [row EXCEPT !.status = status] \in TokenRow
  BY DEF TokenRow
<1>2. \A t \in TokenIds : tokens[t] \in TokenRow
  BY DEF TypeOK
<1> QED
  BY <1>1, <1>2 DEF SweepFamily

LEMMA SpendsType ==
    ASSUME TypeOK, NEW r \in Requests, requests[r].code # None \/ requests[r].token # None
    PROVE  /\ Spends(r).owner \in Owner \cup {NoOwner}
           /\ Spends(r).grant \in GrantIds \cup {None}
           /\ Spends(r).family \in Nat
BY DEF TypeOK, Spends, Locals, CodeRow, TokenRow

LEMMA AuthorizeTypes ==
    ASSUME TypeOK, NEW r \in Requests, NEW o \in Owner, NEW s \in ScopeSets,
           AuthorizeCovered(r, o, s) \/ AuthorizeAsks(r, o, s)
    PROVE  TypeOK'
<1>0. s \in SUBSET Scopes
  BY DEF Scopes
<1>1. CASE AuthorizeCovered(r, o, s)
  <2>1. [Blank EXCEPT !.pc = "mint_code", !.owner = o, !.scope = s,
                      !.grant = consents[o].grant] \in Locals
    BY <1>0, BlankType DEF TypeOK, Locals, Labels, ConsentRow
  <2> QED
    BY <1>1, <2>1 DEF AuthorizeCovered, Begin, TypeOK, tables, history
<1>2. CASE AuthorizeAsks(r, o, s)
  BY <1>0, <1>2 DEF AuthorizeAsks, TypeOK, tables, history
<1> QED
  BY <1>1, <1>2

LEMMA ConsentTypes ==
    ASSUME TypeOK, NEW r \in Requests,
           \/ \E cookie \in cookies : ConsentReads(r, cookie)
           \/ ConsentCreates(r) \/ ConsentRegrants(r) \/ ConsentMerges(r)
    PROVE  TypeOK'
<1>1. ASSUME NEW cookie \in cookies, ConsentReads(r, cookie)
      PROVE  TypeOK'
  <2>1. cookie[1] \in Owner /\ cookie[2] \in SUBSET Scopes
    BY DEF TypeOK
  <2>2. requests' \in [Requests -> Locals]
    <3> DEFINE existing == consents[cookie[1]]
    <3>1. existing.scope \in SUBSET Scopes /\ existing.grant \in GrantIds \cup {None}
      BY <2>1 DEF TypeOK, ConsentRow
    <3>2. existing.status \in {"absent", "revoked", "granted"}
      BY <2>1 DEF TypeOK, ConsentRow
    <3>3. (CASE existing.status = "absent" -> "consent_create"
             [] existing.status = "revoked" -> "consent_regrant"
             [] existing.status = "granted" -> "consent_merge") \in Labels
      BY <3>2 DEF Labels
    <3>4. requests' = [requests EXCEPT ![r] = [Blank EXCEPT
                      !.pc = CASE existing.status = "absent" -> "consent_create"
                               [] existing.status = "revoked" -> "consent_regrant"
                               [] existing.status = "granted" -> "consent_merge",
                      !.owner = cookie[1], !.scope = cookie[2],
                      !.grant = IF existing.status = "granted" THEN existing.grant ELSE None,
                      !.merged = IF existing.status = "granted"
                                 THEN existing.scope \cup cookie[2] ELSE {}]]
      BY <1>1 DEF ConsentReads, Begin
    <3> HIDE DEF existing
    <3> QED
      BY <2>1, <3>1, <3>3, <3>4, BlankType DEF TypeOK, Locals
  <2> QED
    BY <1>1, <2>2 DEF ConsentReads, TypeOK, tables, history
<1>2. ASSUME Grants(r, requests[r].owner)
      PROVE  /\ consents' \in [Owner -> ConsentRow]
             /\ lastGrant' \in 0..MaxGrants
             /\ accepted' \in [GrantIds -> SUBSET Scopes]
             /\ requests' \in [Requests -> Locals]
  <2>1. lastGrant + 1 \in GrantIds
    BY <1>2, ConstantsAssumption DEF Grants, TypeOK, GrantIds
  <2>2. requests[r].scope \in SUBSET Scopes
    BY DEF TypeOK, Locals
  <2>3. consents' \in [Owner -> ConsentRow]
    BY <1>2, <2>1, <2>2 DEF Grants, TypeOK, ConsentRow
  <2>4. requests' \in [Requests -> Locals]
    <3>1. [requests[r] EXCEPT !.pc = "mint_code", !.grant = lastGrant + 1] \in Locals
      BY <2>1, UpdateTypes DEF TypeOK, Labels
    <3> QED
      BY <1>2, <3>1 DEF Grants, TypeOK
  <2>5. lastGrant' \in 0..MaxGrants
    BY <1>2, ConstantsAssumption DEF Grants, TypeOK
  <2>6. accepted' \in [GrantIds -> SUBSET Scopes]
    BY <1>2, <2>1, <2>2 DEF Grants, TypeOK
  <2> QED
    BY <2>3, <2>4, <2>5, <2>6
<1>3. CASE ConsentCreates(r)
  <2>1. CASE Grants(r, requests[r].owner)
    BY <1>2, <1>3, <2>1 DEF ConsentCreates, TypeOK
  <2>2. CASE Return(r) /\ UNCHANGED <<consents, lastGrant, accepted>>
    BY <1>3, <2>2, ReturnType DEF ConsentCreates, TypeOK
  <2> QED
    BY <1>3, <2>1, <2>2 DEF ConsentCreates
<1>4. CASE ConsentRegrants(r)
  BY <1>2, <1>4 DEF ConsentRegrants, TypeOK
<1>5. CASE ConsentMerges(r)
  <2>1. requests' \in [Requests -> Locals]
    BY <1>5, GotoType DEF ConsentMerges, Labels
  <2>2. consents' \in [Owner -> ConsentRow]
    <3>1. requests[r].merged \in SUBSET Scopes
      BY DEF TypeOK, Locals
    <3>2. ASSUME NEW o \in Owner
          PROVE  [consents[o] EXCEPT !.scope = requests[r].merged] \in ConsentRow
      BY <3>1 DEF TypeOK, ConsentRow
    <3> QED
      BY <1>5, <3>2 DEF ConsentMerges, TypeOK
  <2>3. accepted' \in [GrantIds -> SUBSET Scopes]
    BY <1>5 DEF ConsentMerges, TypeOK, Locals
  <2> QED
    BY <1>5, <2>1, <2>2, <2>3 DEF ConsentMerges, TypeOK
<1> QED
  BY <1>1, <1>3, <1>4, <1>5

LEMMA CodeStatusType ==
    ASSUME TypeOK, NEW c, NEW status \in CodeStatus,
           codes' = [codes EXCEPT ![c].status = status]
    PROVE  codes' \in [CodeIds -> CodeRow]
<1>1. ASSUME NEW d \in CodeIds
      PROVE  [codes[d] EXCEPT !.status = status] \in CodeRow
  BY DEF TypeOK, CodeRow
<1> QED
  BY <1>1 DEF TypeOK

LEMMA TokenStatusType ==
    ASSUME TypeOK, NEW t, NEW status \in TokenStatus,
           tokens' = [tokens EXCEPT ![t].status = status]
    PROVE  tokens' \in [TokenIds -> TokenRow]
<1>1. ASSUME NEW u \in TokenIds
      PROVE  [tokens[u] EXCEPT !.status = status] \in TokenRow
  BY DEF TypeOK, TokenRow
<1> QED
  BY <1>1 DEF TypeOK

LEMMA BeginType ==
    ASSUME TypeOK, NEW r \in Requests, NEW locals \in Locals, Begin(r, locals)
    PROVE  requests' \in [Requests -> Locals]
BY DEF TypeOK, Begin

\* The locals of a request that has just read a code, a token or a consent.
LEMMA ReadLocalsType ==
    ASSUME NEW label \in Labels
    PROVE  /\ \A c \in CodeIds : [Blank EXCEPT !.pc = label, !.code = c] \in Locals
           /\ \A t \in TokenIds : [Blank EXCEPT !.pc = label, !.token = t] \in Locals
           /\ \A o \in Owner : [Blank EXCEPT !.pc = label, !.owner = o] \in Locals
           /\ \A t \in TokenIds, s \in SUBSET Scopes :
                [Blank EXCEPT !.pc = label, !.token = t, !.scope = s] \in Locals
BY BlankType DEF Locals

LEMMA CodeReadTypes ==
    ASSUME TypeOK, NEW r \in Requests, NEW c \in CodeIds,
           \/ ExchangeMissing(r, c) \/ ExchangeReplay(r, c)
           \/ ExchangeExpired(r, c) \/ ExchangeUnused(r, c)
    PROVE  TypeOK'
<1>1. CASE ExchangeMissing(r, c)
  BY <1>1 DEF ExchangeMissing, TypeOK, CodeRow, tables
<1>2. CASE ExchangeReplay(r, c)
  BY <1>2, ReadLocalsType, BeginType DEF ExchangeReplay, TypeOK, Labels, tables, history
<1>3. CASE ExchangeExpired(r, c)
  BY <1>3, ReadLocalsType, BeginType DEF ExchangeExpired, TypeOK, Labels, tables, history
<1>4. CASE ExchangeUnused(r, c)
  BY <1>4, ReadLocalsType, BeginType DEF ExchangeUnused, TypeOK, Labels, tables, history
<1> QED
  BY <1>1, <1>2, <1>3, <1>4

LEMMA CodeStepTypes ==
    ASSUME TypeOK, HandlersWellFormed, NEW r \in Requests,
           \/ MintCode(r) \/ DeleteCode(r) \/ CodeMarkClaimed(r) \/ CodeMarkFinalized(r)
           \/ CodeSweep(r) \/ CodeGrantCheck(r) \/ RejectCode(r) \/ ClaimCode(r)
    PROVE  TypeOK'
<1>1. CASE MintCode(r)
  <2>1. codes' \in [CodeIds -> CodeRow]
    BY <1>1, IdTypes DEF MintCode, TypeOK, CodeRow, CodeStatus, Locals
  <2> QED
    BY <1>1, <2>1, ReturnType DEF MintCode, TypeOK, history
<1>2. CASE DeleteCode(r)
  <2>1. codes' \in [CodeIds -> CodeRow]
    <3>1. ASSUME NEW d \in CodeIds
          PROVE  [codes[d] EXCEPT !.status = IF @ = "absent" THEN @ ELSE "deleted"] \in CodeRow
      BY DEF TypeOK, CodeRow, CodeStatus
    <3> QED
      BY <1>2, <3>1 DEF DeleteCode, TypeOK
  <2> QED
    BY <1>2, <2>1, ReturnType DEF DeleteCode, TypeOK, history
<1>3. CASE CodeMarkClaimed(r)
  <2>1. codes' \in [CodeIds -> CodeRow]
    BY <1>3, CodeStatusType DEF CodeMarkClaimed, TypeOK, CodeStatus
  <2>2. requests' \in [Requests -> Locals]
    BY <1>3, GotoType DEF CodeMarkClaimed, Labels
  <2> QED
    BY <1>3, <2>1, <2>2 DEF CodeMarkClaimed, TypeOK, history
<1>4. CASE CodeMarkFinalized(r)
  <2>1. codes' \in [CodeIds -> CodeRow]
    <3>1. ASSUME NEW d \in CodeIds
          PROVE  [codes[d] EXCEPT !.status = IF @ = "finalized" THEN "compromised" ELSE @]
                   \in CodeRow
      BY DEF TypeOK, CodeRow, CodeStatus
    <3> QED
      BY <1>4, <3>1 DEF CodeMarkFinalized, TypeOK
  <2>2. requests' \in [Requests -> Locals]
    BY <1>4, GotoType DEF CodeMarkFinalized, Labels
  <2> QED
    BY <1>4, <2>1, <2>2 DEF CodeMarkFinalized, TypeOK, history
<1>5. CASE CodeSweep(r)
  <2>1. tokens' \in [TokenIds -> TokenRow]
    BY <1>5, SweepType DEF CodeSweep, TokenStatus
  <2>2. requests[r].code \in CodeIds
    BY <1>5 DEF CodeSweep, At, HandlersWellFormed, HandlerWellFormed, CodeLabels
  <2>3. replayed' \subseteq Nat
    BY <1>5, <2>2 DEF CodeSweep, TypeOK, CodeRow
  <2> QED
    BY <1>5, <2>1, <2>3, ReturnType DEF CodeSweep, TypeOK
<1>6. CASE CodeGrantCheck(r)
  <2>1. requests' \in [Requests -> Locals]
    BY <1>6, GotoType, ReturnType DEF CodeGrantCheck, Labels
  <2> QED
    BY <1>6, <2>1 DEF CodeGrantCheck, TypeOK, tables, history
<1>7. CASE RejectCode(r)
  BY <1>7, ReturnType DEF RejectCode, TypeOK, tables, history
<1>8. CASE ClaimCode(r)
  <2> DEFINE c == requests[r].code
  <2>1. c \in CodeIds
    BY <1>8 DEF ClaimCode, At, HandlersWellFormed, HandlerWellFormed, CodeLabels
  <2>2. CASE codes[c].status = "unused"
    <3>1. [codes[c] EXCEPT !.status = "claimed", !.family = lastFamily + 1] \in CodeRow
      <4>1. codes[c] \in CodeRow /\ "claimed" \in CodeStatus /\ lastFamily + 1 \in Nat
        BY <2>1 DEF TypeOK, CodeStatus
      <4> QED
        BY <4>1, UpdateTypes
    <3>2. [requests[r] EXCEPT !.pc = "create", !.scope = codes[c].scope] \in Locals
      <4>1. codes[c].scope \in SUBSET Scopes /\ requests[r] \in Locals /\ "create" \in Labels
        BY <2>1 DEF TypeOK, CodeRow, Labels
      <4> QED
        BY <4>1, UpdateTypes
    <3>3. /\ codes' = [codes EXCEPT ![c] = [codes[c] EXCEPT !.status = "claimed",
                                                           !.family = lastFamily + 1]]
          /\ requests' = [requests EXCEPT ![r] = [requests[r] EXCEPT !.pc = "create",
                                                              !.scope = codes[c].scope]]
          /\ lastFamily' = lastFamily + 1
          /\ UNCHANGED <<consents, tokens, lastGrant, cookies, history>>
      BY <1>8, <2>1, <2>2 DEF ClaimCode, TypeOK
    <3>4. /\ codes' \in [CodeIds -> CodeRow]
          /\ requests' \in [Requests -> Locals]
          /\ lastFamily' \in Nat
      <4> HIDE DEF c
      <4>1. codes' \in [CodeIds -> CodeRow]
        BY <3>1, <3>3 DEF TypeOK
      <4>2. requests' \in [Requests -> Locals]
        BY <3>2, <3>3 DEF TypeOK
      <4> QED
        BY <4>1, <4>2, <3>3 DEF TypeOK
    <3> QED
      BY <3>3, <3>4 DEF TypeOK, history
  <2>3. CASE codes[c].status # "unused"
    BY <1>8, <2>3, ReturnType DEF ClaimCode, TypeOK, history
  <2> QED
    BY <2>2, <2>3
<1> QED
  BY <1>1, <1>2, <1>3, <1>4, <1>5, <1>6, <1>7, <1>8

LEMMA TokenReadTypes ==
    ASSUME TypeOK, NEW r \in Requests, NEW t \in TokenIds,
           RefreshReplay(r, t) \/ RefreshActive(r, t) \/ RevokeToken(r, t)
    PROVE  TypeOK'
<1>1. CASE RefreshReplay(r, t)
  BY <1>1, ReadLocalsType, BeginType DEF RefreshReplay, TypeOK, Labels, tables, history
<1>2. CASE RefreshActive(r, t)
  <2>1. PICK s \in {x \in ScopeSets : x # {} /\ x \subseteq tokens[t].scope}
                       \cup {tokens[t].scope} :
               Begin(r, [Blank EXCEPT !.pc = "token_grant", !.token = t, !.scope = s])
    BY <1>2 DEF RefreshActive
  <2>2. s \in SUBSET Scopes
    BY DEF TypeOK, TokenRow, Scopes
  <2>3. requests' \in [Requests -> Locals]
    BY <2>1, <2>2, ReadLocalsType, BeginType DEF Labels
  <2> QED
    BY <1>2, <2>3 DEF RefreshActive, TypeOK, tables, history
<1>3. CASE RevokeToken(r, t)
  BY <1>3, ReadLocalsType, BeginType DEF RevokeToken, TypeOK, Labels, tables, history
<1> QED
  BY <1>1, <1>2, <1>3

LEMMA TokenStepTypes ==
    ASSUME TypeOK, HandlersWellFormed, NEW r \in Requests,
           \/ TokenMarkRotating(r) \/ TokenMarkRotated(r) \/ TokenSweep(r)
           \/ TokenGrantCheck(r) \/ RejectRefresh(r) \/ ClaimToken(r)
           \/ RevokeRow(r) \/ RevokeFamily(r)
    PROVE  TypeOK'
<1>1. CASE TokenMarkRotating(r)
  <2>1. tokens' \in [TokenIds -> TokenRow]
    BY <1>1, TokenStatusType DEF TokenMarkRotating, TypeOK, TokenStatus
  <2>2. requests' \in [Requests -> Locals]
    BY <1>1, GotoType DEF TokenMarkRotating, Labels
  <2> QED
    BY <1>1, <2>1, <2>2 DEF TokenMarkRotating, TypeOK, history
<1>2. CASE TokenMarkRotated(r)
  <2>1. tokens' \in [TokenIds -> TokenRow]
    <3>1. ASSUME NEW u \in TokenIds
          PROVE  [tokens[u] EXCEPT !.status = IF @ = "rotated" THEN "compromised" ELSE @]
                   \in TokenRow
      BY DEF TypeOK, TokenRow, TokenStatus
    <3> QED
      BY <1>2, <3>1 DEF TokenMarkRotated, TypeOK
  <2>2. requests' \in [Requests -> Locals]
    BY <1>2, GotoType DEF TokenMarkRotated, Labels
  <2> QED
    BY <1>2, <2>1, <2>2 DEF TokenMarkRotated, TypeOK, history
<1>3. CASE TokenSweep(r)
  <2>1. tokens' \in [TokenIds -> TokenRow]
    BY <1>3, SweepType DEF TokenSweep, TokenStatus
  <2>2. requests[r].token \in TokenIds
    BY <1>3 DEF TokenSweep, At, HandlersWellFormed, HandlerWellFormed, TokenLabels
  <2>3. closed' \subseteq Nat
    BY <1>3, <2>2 DEF TokenSweep, TypeOK, TokenRow
  <2> QED
    BY <1>3, <2>1, <2>3, ReturnType DEF TokenSweep, TypeOK
<1>4. CASE TokenGrantCheck(r)
  <2>1. requests' \in [Requests -> Locals]
    BY <1>4, GotoType, ReturnType DEF TokenGrantCheck, Labels
  <2> QED
    BY <1>4, <2>1 DEF TokenGrantCheck, TypeOK, tables, history
<1>5. CASE RejectRefresh(r)
  BY <1>5, ReturnType DEF RejectRefresh, TypeOK, tables, history
<1>6. CASE ClaimToken(r)
  <2>1. tokens' \in [TokenIds -> TokenRow]
    BY <1>6, TokenStatusType DEF ClaimToken, TypeOK, TokenStatus
  <2>2. requests' \in [Requests -> Locals]
    BY <1>6, GotoType, ReturnType DEF ClaimToken, Labels
  <2> QED
    BY <1>6, <2>1, <2>2 DEF ClaimToken, TypeOK, history
<1>7. CASE RevokeRow(r)
  <2>1. tokens' \in [TokenIds -> TokenRow]
    BY <1>7, TokenStatusType DEF RevokeRow, TypeOK, TokenStatus
  <2>2. requests' \in [Requests -> Locals]
    BY <1>7, GotoType DEF RevokeRow, Labels
  <2> QED
    BY <1>7, <2>1, <2>2 DEF RevokeRow, TypeOK, history
<1>8. CASE RevokeFamily(r)
  <2>1. tokens' \in [TokenIds -> TokenRow]
    BY <1>8, SweepType DEF RevokeFamily, TokenStatus
  <2>2. requests[r].token \in TokenIds
    BY <1>8 DEF RevokeFamily, At, HandlersWellFormed, HandlerWellFormed, TokenLabels
  <2>3. closed' \subseteq Nat
    BY <1>8, <2>2 DEF RevokeFamily, TypeOK, TokenRow
  <2> QED
    BY <1>8, <2>1, <2>3, ReturnType DEF RevokeFamily, TypeOK
<1> QED
  BY <1>1, <1>2, <1>3, <1>4, <1>5, <1>6, <1>7, <1>8

LEMMA MintTypes ==
    ASSUME TypeOK, HandlersWellFormed, NEW r \in Requests,
           \/ CreateToken(r) \/ FinalizeCode(r) \/ FinalizeToken(r) \/ CheckCode(r)
           \/ CheckTokens(r) \/ Disclose(r) \/ GrantGone(r) \/ Burn(r)
    PROVE  TypeOK'
<1>1. CASE CreateToken(r)
  <2>1. PICK t \in TokenIds :
          /\ tokens' = [tokens EXCEPT ![t] =
                          [status |-> "active", owner |-> Spends(r).owner,
                           grant |-> Spends(r).grant, scope |-> requests[r].scope,
                           family |-> Spends(r).family]]
          /\ parent' = [parent EXCEPT ![t] = [code |-> requests[r].code,
                                              token |-> requests[r].token]]
          /\ requests' = [requests EXCEPT ![r] = [@ EXCEPT !.pc = "finalize", !.new = t]]
    BY <1>1 DEF CreateToken
  <2>2. requests[r].code # None \/ requests[r].token # None
    BY <1>1, IdTypes DEF CreateToken, At, HandlersWellFormed, HandlerWellFormed, MintLabels
  <2>3. [status |-> "active", owner |-> Spends(r).owner, grant |-> Spends(r).grant,
         scope |-> requests[r].scope, family |-> Spends(r).family] \in TokenRow
    BY <2>2, SpendsType DEF TypeOK, TokenRow, TokenStatus, Locals
  <2>4. [code |-> requests[r].code, token |-> requests[r].token] \in Credential
    BY DEF TypeOK, Locals, Credential
  <2>5. [requests[r] EXCEPT !.pc = "finalize", !.new = t] \in Locals
    BY UpdateTypes DEF TypeOK, Labels
  <2>6. tokens' \in [TokenIds -> TokenRow]
    BY <2>1, <2>3 DEF TypeOK
  <2>7. parent' \in [TokenIds -> Credential]
    BY <2>1, <2>4 DEF TypeOK
  <2>8. requests' \in [Requests -> Locals]
    BY <2>1, <2>5 DEF TypeOK
  <2> QED
    BY <1>1, <2>6, <2>7, <2>8 DEF CreateToken, TypeOK
<1>2. CASE FinalizeCode(r)
  <2>1. codes' \in [CodeIds -> CodeRow]
    BY <1>2, CodeStatusType DEF FinalizeCode, TypeOK, CodeStatus
  <2>2. requests' \in [Requests -> Locals]
    BY <1>2, GotoType DEF FinalizeCode, Labels
  <2> QED
    BY <1>2, <2>1, <2>2 DEF FinalizeCode, TypeOK, history
<1>3. CASE FinalizeToken(r)
  <2>1. tokens' \in [TokenIds -> TokenRow]
    BY <1>3, TokenStatusType DEF FinalizeToken, TypeOK, TokenStatus
  <2>2. requests' \in [Requests -> Locals]
    BY <1>3, GotoType DEF FinalizeToken, Labels
  <2> QED
    BY <1>3, <2>1, <2>2 DEF FinalizeToken, TypeOK, history
<1>4. CASE CheckCode(r)
  <2>1. requests' \in [Requests -> Locals]
    BY <1>4, GotoType DEF CheckCode, Labels
  <2> QED
    BY <1>4, <2>1 DEF CheckCode, TypeOK, tables, history
<1>5. CASE CheckTokens(r)
  <2>1. requests' \in [Requests -> Locals]
    BY <1>5, GotoType DEF CheckTokens, Labels
  <2> QED
    BY <1>5, <2>1 DEF CheckTokens, TypeOK, tables, history
<1>6. CASE Disclose(r)
  <2>1. requests[r].new \in TokenIds
    BY <1>6 DEF Disclose, At, HandlersWellFormed, HandlerWellFormed, MintLabels
  <2> QED
    BY <1>6, <2>1, ReturnType DEF Disclose, TypeOK, tables
<1>7. CASE GrantGone(r)
  <2>1. requests' \in [Requests -> Locals]
    BY <1>7, GotoType DEF GrantGone, Labels
  <2> QED
    BY <1>7, <2>1 DEF GrantGone, TypeOK, tables, history
<1>8. CASE Burn(r)
  <2>1. tokens' \in [TokenIds -> TokenRow]
    BY <1>8, SweepType DEF Burn, TokenStatus
  <2> QED
    BY <1>8, <2>1, ReturnType DEF Burn, TypeOK, history
<1> QED
  BY <1>1, <1>2, <1>3, <1>4, <1>5, <1>6, <1>7, <1>8

LEMMA RevokeConsentTypes ==
    ASSUME TypeOK, NEW r \in Requests,
           \/ \E o \in Owner : RevokeConsent(r, o)
           \/ RevokeGrant(r) \/ RevokeCodes(r) \/ RevokeTokens(r)
    PROVE  TypeOK'
<1>1. ASSUME NEW o \in Owner, RevokeConsent(r, o)
      PROVE  TypeOK'
  BY <1>1, ReadLocalsType, BeginType DEF RevokeConsent, TypeOK, Labels, tables, history
<1>2. CASE RevokeGrant(r)
  <2>1. lastGrant + 1 \in GrantIds /\ lastGrant' \in 0..MaxGrants
    BY <1>2, ConstantsAssumption DEF RevokeGrant, TypeOK, GrantIds
  <2>2. ASSUME NEW o \in Owner
        PROVE  [consents[o] EXCEPT !.status = "revoked", !.grant = lastGrant + 1]
                  \in ConsentRow
    BY <2>1, UpdateTypes DEF TypeOK
  <2>3. [requests[r] EXCEPT !.pc = "revoke_codes", !.grant = lastGrant + 1] \in Locals
    BY <2>1, UpdateTypes DEF TypeOK, Labels
  <2>4. consents' \in [Owner -> ConsentRow]
    BY <1>2, <2>2 DEF RevokeGrant, TypeOK
  <2>5. requests' \in [Requests -> Locals]
    BY <1>2, <2>3 DEF RevokeGrant, TypeOK
  <2> QED
    BY <1>2, <2>1, <2>4, <2>5 DEF RevokeGrant, TypeOK, history
<1>3. CASE RevokeCodes(r)
  <2>1. codes' \in [CodeIds -> CodeRow]
    <3>1. \A row \in CodeRow : [row EXCEPT !.status = "compromised"] \in CodeRow
      BY DEF CodeRow, CodeStatus
    <3>2. \A c \in CodeIds : codes[c] \in CodeRow
      BY DEF TypeOK
    <3> QED
      BY <1>3, <3>1, <3>2 DEF RevokeCodes
  <2>2. requests' \in [Requests -> Locals]
    BY <1>3, GotoType DEF RevokeCodes, Labels
  <2> QED
    BY <1>3, <2>1, <2>2 DEF RevokeCodes, TypeOK, history
<1>4. CASE RevokeTokens(r)
  <2>1. tokens' \in [TokenIds -> TokenRow]
    <3>1. ASSUME NEW u \in TokenIds
          PROVE  [tokens[u] EXCEPT !.status = "revoked"] \in TokenRow
      BY DEF TypeOK, TokenRow, TokenStatus
    <3> QED
      BY <1>4, <3>1 DEF RevokeTokens, TypeOK
  <2>2. floor' \in [Owner -> GrantIds \cup {None}]
    <3>1. requests[r].grant \in GrantIds \cup {None}
      BY DEF TypeOK, Locals
    <3> QED
      BY <1>4, <3>1 DEF RevokeTokens, TypeOK
  <2> QED
    BY <1>4, <2>1, <2>2, ReturnType DEF RevokeTokens, TypeOK
<1> QED
  BY <1>1, <1>2, <1>3, <1>4

LEMMA TypesPreserved ==
    TypeOK /\ HandlersWellFormed /\ [Next]_vars => TypeOK'
<1> SUFFICES ASSUME TypeOK, HandlersWellFormed, [Next]_vars
             PROVE  TypeOK'
  OBVIOUS
<1>1. ASSUME NEW r \in Requests, Start(r)
      PROVE  TypeOK'
  BY <1>1, AuthorizeTypes, ConsentTypes, CodeReadTypes, TokenReadTypes, RevokeConsentTypes
     DEF Start
<1>2. ASSUME NEW r \in Requests, Continue(r)
      PROVE  TypeOK'
  BY <1>2, ConsentTypes, CodeStepTypes, TokenStepTypes, MintTypes, RevokeConsentTypes
     DEF Continue
<1>3. ASSUME NEW r \in Requests, Crash(r)
      PROVE  TypeOK'
  BY <1>3, ReturnType DEF Crash, TypeOK, tables, history
<1>4. ASSUME NEW c \in CodeIds, CodeExpires(c)
      PROVE  TypeOK'
  <2>1. ASSUME NEW d \in CodeIds
        PROVE  [codes[d] EXCEPT !.expired = TRUE] \in CodeRow
    BY DEF TypeOK, CodeRow
  <2> QED
    BY <1>4, <2>1 DEF CodeExpires, TypeOK, history
<1>5. CASE UNCHANGED vars
  BY <1>5 DEF TypeOK, vars
<1> QED
  BY <1>1, <1>2, <1>3, <1>4, <1>5 DEF Next, Environment

LEMMA InitialTypes == Init => TypeOK
<1> SUFFICES ASSUME Init PROVE TypeOK
  OBVIOUS
<1>1. NoConsent \in ConsentRow
  BY DEF NoConsent, ConsentRow
<1>2. NoCode \in CodeRow
  BY DEF NoCode, CodeRow, CodeStatus, None
<1>3. NoToken \in TokenRow
  BY DEF NoToken, TokenRow, TokenStatus, None
<1>4. NoParent \in Credential
  BY DEF NoParent, Credential
<1> QED
  BY <1>1, <1>2, <1>3, <1>4, BlankType, ConstantsAssumption DEF Init, TypeOK

-----------------------------------------------------------------------------
(* Rows only advance: ids and families stay, a token never becomes active  *)
(* again, a marker never goes away, and `revoked` is final.                *)

CodesAdvance ==
    \A c \in CodeIds :
       /\ codes[c].status # "absent" => codes'[c].status # "absent"
       /\ codes[c].family # None => codes'[c].family = codes[c].family

TokensAdvance ==
    \A t \in TokenIds : tokens[t].status # "absent" =>
       /\ tokens'[t].status # "absent"
       /\ tokens'[t].family = tokens[t].family
       /\ tokens[t].status # "active" => tokens'[t].status # "active"
       /\ \A final \in {{"compromised", "rotated", "revoked"}, {"compromised", "revoked"},
                         {"revoked"}} :
            tokens[t].status \in final => tokens'[t].status \in final

LEMMA TokensUnchangedAdvance == ASSUME UNCHANGED tokens PROVE TokensAdvance
BY DEF TokensAdvance

LEMMA CodesUnchangedAdvance == ASSUME UNCHANGED codes PROVE CodesAdvance
BY DEF CodesAdvance

LEMMA SweepAdvances ==
    ASSUME TypeOK, NEW f, NEW status \in {"rotating", "revoked"}, SweepFamily(f, status)
    PROVE  TokensAdvance
BY DEF TypeOK, TokenRow, SweepFamily, TokensAdvance

LEMMA CodeStepsAdvance ==
    ASSUME TypeOK, HandlersWellFormed, FamiliesWellFormed, NEW r \in Requests,
           \/ MintCode(r) \/ DeleteCode(r) \/ CodeMarkClaimed(r) \/ CodeMarkFinalized(r)
           \/ ClaimCode(r) \/ FinalizeCode(r) \/ RevokeCodes(r)
    PROVE  CodesAdvance
<1>1. CASE MintCode(r)
  <2>1. PICK c \in CodeIds :
          /\ IsNextCode(c)
          /\ codes' = [codes EXCEPT ![c] =
                         [status |-> "unused", owner |-> requests[r].owner,
                          grant |-> requests[r].grant, scope |-> requests[r].scope,
                          family |-> None, expired |-> FALSE]]
    BY <1>1 DEF MintCode
  <2>2. codes[c].status = "absent" /\ codes[c].family = None
    BY <2>1 DEF IsNextCode, FamiliesWellFormed
  <2> QED
    BY <2>1, <2>2 DEF CodesAdvance, TypeOK
<1>2. CASE DeleteCode(r)
  BY <1>2 DEF DeleteCode, CodesAdvance, TypeOK, CodeRow
<1>3. CASE CodeMarkClaimed(r)
  BY <1>3 DEF CodeMarkClaimed, CodesAdvance, TypeOK, CodeRow
<1>4. CASE CodeMarkFinalized(r)
  BY <1>4 DEF CodeMarkFinalized, CodesAdvance, TypeOK, CodeRow
<1>5. CASE ClaimCode(r)
  <2>1. CASE UNCHANGED codes
    BY <2>1 DEF CodesAdvance
  <2>2. ASSUME NEW c \in CodeIds, codes[c].status = "unused", NEW row,
               row = [codes[c] EXCEPT !.status = "claimed", !.family = lastFamily + 1],
               codes' = [codes EXCEPT ![c] = row]
        PROVE  CodesAdvance
    <3>1. codes[c].family = None
      BY <2>2 DEF FamiliesWellFormed
    <3>2. row.status = "claimed"
      BY <2>2 DEF TypeOK, CodeRow
    <3>3. \A d \in CodeIds : codes'[d] = IF d = c THEN row ELSE codes[d]
      BY <2>2 DEF TypeOK
    <3> QED
      BY <3>1, <3>2, <3>3 DEF CodesAdvance
  <2>3. requests[r].code \in CodeIds
    BY <1>5 DEF ClaimCode, At, HandlersWellFormed, HandlerWellFormed, CodeLabels
  <2> QED
    BY <1>5, <2>1, <2>2, <2>3 DEF ClaimCode
<1>6. CASE FinalizeCode(r)
  BY <1>6 DEF FinalizeCode, CodesAdvance, TypeOK, CodeRow
<1>7. CASE RevokeCodes(r)
  BY <1>7 DEF RevokeCodes, CodesAdvance, TypeOK, CodeRow
<1> QED
  BY <1>1, <1>2, <1>3, <1>4, <1>5, <1>6, <1>7

LEMMA TokenStepsAdvance ==
    ASSUME TypeOK, HandlersWellFormed, NEW r \in Requests,
           \/ CodeSweep(r) \/ TokenMarkRotating(r) \/ TokenMarkRotated(r) \/ TokenSweep(r)
           \/ ClaimToken(r) \/ CreateToken(r) \/ FinalizeToken(r) \/ Burn(r)
           \/ RevokeRow(r) \/ RevokeFamily(r) \/ RevokeTokens(r)
    PROVE  TokensAdvance
<1>1. CASE CodeSweep(r)
  BY <1>1, SweepAdvances DEF CodeSweep
<1>2. CASE TokenMarkRotating(r)
  BY <1>2 DEF TokenMarkRotating, TokensAdvance, TypeOK, TokenRow
<1>3. CASE TokenMarkRotated(r)
  BY <1>3 DEF TokenMarkRotated, TokensAdvance, TypeOK, TokenRow
<1>4. CASE TokenSweep(r)
  BY <1>4, SweepAdvances DEF TokenSweep
<1>5. CASE ClaimToken(r)
  BY <1>5 DEF ClaimToken, TokensAdvance, TypeOK, TokenRow
<1>6. CASE CreateToken(r)
  BY <1>6 DEF CreateToken, IsNextToken, TokensAdvance, TypeOK, TokenRow
<1>7. CASE FinalizeToken(r)
  BY <1>7 DEF FinalizeToken, TokensAdvance, TypeOK, TokenRow
<1>8. CASE Burn(r)
  BY <1>8, SweepAdvances DEF Burn
<1>9. CASE RevokeRow(r)
  BY <1>9 DEF RevokeRow, TokensAdvance, TypeOK, TokenRow
<1>10. CASE RevokeFamily(r)
  BY <1>10, SweepAdvances DEF RevokeFamily
<1>11. CASE RevokeTokens(r)
  BY <1>11 DEF RevokeTokens, TokensAdvance, TypeOK, TokenRow
<1> QED
  BY <1>1, <1>2, <1>3, <1>4, <1>5, <1>6, <1>7, <1>8, <1>9, <1>10, <1>11

\* The actions that write no row of oauth_code, and those that write none of oauth_token.
LEMMA CodesUntouched ==
    ASSUME NEW r \in Requests,
           \/ Start(r) \/ Crash(r)
           \/ ConsentCreates(r) \/ ConsentRegrants(r) \/ ConsentMerges(r)
           \/ CodeSweep(r) \/ CodeGrantCheck(r) \/ RejectCode(r)
           \/ TokenMarkRotating(r) \/ TokenMarkRotated(r) \/ TokenSweep(r)
           \/ TokenGrantCheck(r) \/ RejectRefresh(r) \/ ClaimToken(r)
           \/ CreateToken(r) \/ FinalizeToken(r) \/ CheckCode(r) \/ CheckTokens(r)
           \/ Disclose(r) \/ GrantGone(r) \/ Burn(r) \/ RevokeRow(r) \/ RevokeFamily(r)
           \/ RevokeGrant(r) \/ RevokeTokens(r)
    PROVE  UNCHANGED codes
BY DEF Start, AuthorizeCovered, AuthorizeAsks, RevokeConsent, ConsentReads,
       ExchangeMissing, ExchangeReplay, ExchangeExpired, ExchangeUnused,
       RefreshReplay, RefreshActive, RevokeToken, Crash,
       ConsentCreates, ConsentRegrants, ConsentMerges, CodeSweep, CodeGrantCheck,
       RejectCode, TokenMarkRotating, TokenMarkRotated, TokenSweep, TokenGrantCheck,
       RejectRefresh, ClaimToken, CreateToken, FinalizeToken, CheckCode, CheckTokens,
       Disclose, GrantGone, Burn, RevokeRow, RevokeFamily, RevokeGrant, RevokeTokens,
       tables

LEMMA TokensUntouched ==
    ASSUME NEW r \in Requests,
           \/ Start(r) \/ Crash(r)
           \/ ConsentCreates(r) \/ ConsentRegrants(r) \/ ConsentMerges(r) \/ MintCode(r)
           \/ DeleteCode(r) \/ CodeMarkClaimed(r) \/ CodeMarkFinalized(r)
           \/ CodeGrantCheck(r) \/ RejectCode(r) \/ ClaimCode(r)
           \/ TokenGrantCheck(r) \/ RejectRefresh(r)
           \/ FinalizeCode(r) \/ CheckCode(r) \/ CheckTokens(r)
           \/ Disclose(r) \/ GrantGone(r) \/ RevokeGrant(r) \/ RevokeCodes(r)
    PROVE  UNCHANGED tokens
BY DEF Start, AuthorizeCovered, AuthorizeAsks, RevokeConsent, ConsentReads,
       ExchangeMissing, ExchangeReplay, ExchangeExpired, ExchangeUnused,
       RefreshReplay, RefreshActive, RevokeToken, Crash,
       ConsentCreates, ConsentRegrants, ConsentMerges, MintCode, DeleteCode,
       CodeMarkClaimed, CodeMarkFinalized, CodeGrantCheck, RejectCode, ClaimCode,
       TokenGrantCheck, RejectRefresh, FinalizeCode, CheckCode, CheckTokens,
       Disclose, GrantGone, RevokeGrant, RevokeCodes, tables

LEMMA RowsAdvance ==
    ASSUME TypeOK, HandlersWellFormed, FamiliesWellFormed, [Next]_vars
    PROVE  CodesAdvance /\ TokensAdvance
<1>1. ASSUME NEW r \in Requests, Start(r) \/ Crash(r)
      PROVE  CodesAdvance /\ TokensAdvance
  BY <1>1, CodesUntouched, TokensUntouched, CodesUnchangedAdvance, TokensUnchangedAdvance
<1>2. ASSUME NEW r \in Requests, Continue(r)
      PROVE  CodesAdvance /\ TokensAdvance
  BY <1>2, CodesUntouched, TokensUntouched, CodesUnchangedAdvance, TokensUnchangedAdvance,
     CodeStepsAdvance, TokenStepsAdvance DEF Continue
<1>3. ASSUME NEW c \in CodeIds, CodeExpires(c)
      PROVE  CodesAdvance /\ TokensAdvance
  <2>1. CodesAdvance
    BY <1>3 DEF CodeExpires, CodesAdvance, TypeOK, CodeRow
  <2> QED
    BY <1>3, <2>1, TokensUnchangedAdvance DEF CodeExpires
<1>4. CASE UNCHANGED vars
  BY <1>4, CodesUnchangedAdvance, TokensUnchangedAdvance DEF vars
<1> QED
  BY <1>1, <1>2, <1>3, <1>4 DEF Next, Environment

-----------------------------------------------------------------------------
(* A step moves one handler at most; the others' facts survive it.         *)

LEMMA OneHandlerMoves ==
    ASSUME TypeOK, NEW r \in Requests, Start(r) \/ Continue(r) \/ Crash(r),
           NEW q \in Requests, q # r
    PROVE  requests'[q] = requests[q]
<1>1. ASSUME UNCHANGED requests \/ \E locals : Begin(r, locals)
      PROVE  requests'[q] = requests[q]
  BY <1>1 DEF Begin, TypeOK
<1>2. ASSUME (\E label : Goto(r, label)) \/ Return(r)
      PROVE  requests'[q] = requests[q]
  BY <1>2 DEF Goto, Return, TypeOK
<1>3. CASE Start(r)
  <2>1. UNCHANGED requests \/ \E locals : Begin(r, locals)
    BY <1>3, Zenon DEF Start, AuthorizeCovered, AuthorizeAsks, RevokeConsent, ConsentReads,
       ExchangeMissing, ExchangeReplay, ExchangeExpired, ExchangeUnused,
       RefreshReplay, RefreshActive, RevokeToken, tables
  <2> QED
    BY <1>1, <2>1
<1>4. CASE Continue(r)
  <2>1. CASE \/ ConsentCreates(r) \/ ConsentRegrants(r) \/ ConsentMerges(r) \/ MintCode(r)
             \/ RevokeGrant(r) \/ RevokeCodes(r) \/ RevokeTokens(r)
    BY <1>2, <2>1 DEF ConsentCreates, ConsentRegrants, Grants, ConsentMerges, MintCode,
       RevokeGrant, RevokeCodes, RevokeTokens, TypeOK
  <2>2. CASE \/ DeleteCode(r) \/ CodeMarkClaimed(r) \/ CodeMarkFinalized(r) \/ CodeSweep(r)
             \/ CodeGrantCheck(r) \/ RejectCode(r) \/ ClaimCode(r)
    BY <1>2, <2>2 DEF DeleteCode, CodeMarkClaimed, CodeMarkFinalized, CodeSweep,
       CodeGrantCheck, RejectCode, ClaimCode, TypeOK
  <2>3. CASE \/ TokenMarkRotating(r) \/ TokenMarkRotated(r) \/ TokenSweep(r)
             \/ TokenGrantCheck(r) \/ RejectRefresh(r) \/ ClaimToken(r)
             \/ RevokeRow(r) \/ RevokeFamily(r)
    BY <1>2, <2>3 DEF TokenMarkRotating, TokenMarkRotated, TokenSweep, TokenGrantCheck,
       RejectRefresh, ClaimToken, RevokeRow, RevokeFamily
  <2>4. CASE \/ CreateToken(r) \/ FinalizeCode(r) \/ FinalizeToken(r) \/ CheckCode(r)
             \/ CheckTokens(r) \/ Disclose(r) \/ GrantGone(r) \/ Burn(r)
    BY <1>2, <2>4 DEF CreateToken, FinalizeCode, FinalizeToken, CheckCode, CheckTokens,
       Disclose, GrantGone, Burn, TypeOK
  <2> QED
    BY <1>4, <2>1, <2>2, <2>3, <2>4 DEF Continue
<1>5. CASE Crash(r)
  BY <1>2, <1>5 DEF Crash
<1> QED
  BY <1>3, <1>4, <1>5

LEMMA StaysWellFormed ==
    ASSUME TypeOK, CodesAdvance, TokensAdvance, NEW q \in Requests,
           HandlerWellFormed(q), MarkerInProgress(q), requests'[q] = requests[q]
    PROVE  HandlerWellFormed(q)' /\ MarkerInProgress(q)'
<1>1. HandlerWellFormed(q)'
  <2>1. ASSUME requests[q].pc \in CodeLabels
        PROVE  codes'[requests[q].code].status # "absent"
    BY <2>1 DEF HandlerWellFormed, CodesAdvance
  <2>2. ASSUME requests[q].pc \in TokenLabels
        PROVE  tokens'[requests[q].token].status # "absent"
    BY <2>2 DEF HandlerWellFormed, TokensAdvance
  <2>3. ASSUME requests[q].pc \in MintLabels, requests[q].code # None
        PROVE  /\ requests[q].code \in CodeIds /\ requests[q].token = None
               /\ codes'[requests[q].code].family # None
               /\ Spends(q)'.family = Spends(q).family
    BY <2>3, IdTypes DEF HandlerWellFormed, CodesAdvance, Spends
  <2>4. ASSUME requests[q].pc \in MintLabels, requests[q].code = None
        PROVE  /\ requests[q].token \in TokenIds
               /\ tokens'[requests[q].token].status \notin {"absent", "active"}
               /\ Spends(q)'.family = Spends(q).family
    BY <2>4, IdTypes DEF HandlerWellFormed, TokensAdvance, Spends
  <2>5. ASSUME requests[q].pc \in MintLabels \ {"create"}
        PROVE  /\ requests[q].new \in TokenIds
               /\ tokens'[requests[q].new].status # "absent"
               /\ tokens'[requests[q].new].family = Spends(q)'.family
    BY <2>3, <2>4, <2>5 DEF HandlerWellFormed, TokensAdvance
  <2> QED
    BY <2>1, <2>2, <2>3, <2>4, <2>5 DEF HandlerWellFormed
<1>2. MarkerInProgress(q)'
  BY DEF MarkerInProgress, HandlerWellFormed, TokensAdvance, At, TokenLabels
<1> QED
  BY <1>1, <1>2

LEMMA IdleWellFormed ==
    ASSUME NEW r \in Requests,
           requests'[r].pc \in {"idle", "consent_create", "consent_regrant", "consent_merge",
                                "mint_code", "revoke_grant", "revoke_codes", "revoke_tokens"}
    PROVE  HandlerWellFormed(r)' /\ MarkerInProgress(r)'
BY DEF HandlerWellFormed, MarkerInProgress, At, CodeLabels, TokenLabels, MintLabels

LEMMA ReturnedWellFormed ==
    ASSUME TypeOK, NEW r \in Requests, Return(r)
    PROVE  HandlerWellFormed(r)' /\ MarkerInProgress(r)'
BY IdleWellFormed DEF Return, TypeOK, Blank

LEMMA StartedWellFormed ==
    ASSUME TypeOK, HandlersWellFormed, MarkersInProgress, DisclosedExist,
           NEW r \in Requests, Start(r)
    PROVE  HandlerWellFormed(r)' /\ MarkerInProgress(r)'
<1>1. ASSUME UNCHANGED <<tables, requests>>
      PROVE  HandlerWellFormed(r)' /\ MarkerInProgress(r)'
  BY <1>1 DEF tables, HandlersWellFormed, HandlerWellFormed, MarkersInProgress,
     MarkerInProgress, At, Spends
<1>2. ASSUME NEW o \in Owner, NEW s \in ScopeSets, AuthorizeCovered(r, o, s)
      PROVE  HandlerWellFormed(r)' /\ MarkerInProgress(r)'
  BY <1>2, IdleWellFormed DEF AuthorizeCovered, Begin, TypeOK, Blank
<1>3. ASSUME NEW o \in Owner, NEW s \in ScopeSets, AuthorizeAsks(r, o, s)
      PROVE  HandlerWellFormed(r)' /\ MarkerInProgress(r)'
  BY <1>1, <1>3 DEF AuthorizeAsks
<1>4. ASSUME NEW o \in Owner, RevokeConsent(r, o)
      PROVE  HandlerWellFormed(r)' /\ MarkerInProgress(r)'
  BY <1>4, IdleWellFormed DEF RevokeConsent, Begin, TypeOK, Blank
<1>5. ASSUME NEW cookie \in cookies, ConsentReads(r, cookie)
      PROVE  HandlerWellFormed(r)' /\ MarkerInProgress(r)'
  <2> DEFINE existing == consents[cookie[1]]
  <2>1. existing.status \in {"absent", "revoked", "granted"}
    BY DEF TypeOK, ConsentRow
  <2>2. requests'[r].pc = (CASE existing.status = "absent" -> "consent_create"
                             [] existing.status = "revoked" -> "consent_regrant"
                             [] existing.status = "granted" -> "consent_merge")
    BY <1>5 DEF ConsentReads, Begin, TypeOK, Blank
  <2> HIDE DEF existing
  <2> QED
    BY <2>1, <2>2, IdleWellFormed
<1>6. ASSUME NEW c \in CodeIds,
             \/ ExchangeMissing(r, c) \/ ExchangeReplay(r, c)
             \/ ExchangeExpired(r, c) \/ ExchangeUnused(r, c)
      PROVE  HandlerWellFormed(r)' /\ MarkerInProgress(r)'
  <2>1. CASE ExchangeMissing(r, c)
    BY <1>1, <2>1 DEF ExchangeMissing
  <2>2. CASE ExchangeReplay(r, c) \/ ExchangeExpired(r, c) \/ ExchangeUnused(r, c)
    <3>1. /\ requests'[r].pc \in {"code_mark_claimed", "delete_code", "code_grant"}
          /\ requests'[r].code = c /\ requests'[r].token = None
          /\ codes'[c].status # "absent"
      <4>1. CASE ExchangeReplay(r, c)
        BY <4>1 DEF ExchangeReplay, Begin, TypeOK, Blank, tables
      <4>2. CASE ExchangeExpired(r, c)
        BY <4>2 DEF ExchangeExpired, Begin, TypeOK, Blank, tables
      <4>3. CASE ExchangeUnused(r, c)
        BY <4>3 DEF ExchangeUnused, Begin, TypeOK, Blank, tables
      <4> QED
        BY <2>2, <4>1, <4>2, <4>3
    <3> QED
      BY <3>1 DEF HandlerWellFormed, MarkerInProgress, At, CodeLabels, TokenLabels, MintLabels
  <2> QED
    BY <1>6, <2>1, <2>2
<1>7. ASSUME NEW t \in TokenIds, RefreshReplay(r, t) \/ RefreshActive(r, t) \/ RevokeToken(r, t)
      PROVE  HandlerWellFormed(r)' /\ MarkerInProgress(r)'
  <2>1. /\ \/ requests'[r].pc = "token_mark_rotating" /\ tokens'[t].status # "active"
           \/ requests'[r].pc \in {"token_grant", "revoke_row"}
        /\ requests'[r].code = None /\ requests'[r].token = t
        /\ tokens'[t].status # "absent"
    <3>1. CASE RefreshReplay(r, t)
      BY <3>1 DEF RefreshReplay, Refreshable, Begin, TypeOK, Blank, tables, DisclosedExist
    <3>2. CASE RefreshActive(r, t)
      BY <3>2 DEF RefreshActive, Refreshable, Begin, TypeOK, Blank, tables, DisclosedExist
    <3>3. CASE RevokeToken(r, t)
      BY <3>3 DEF RevokeToken, Begin, TypeOK, Blank, tables, DisclosedExist
    <3> QED
      BY <1>7, <3>1, <3>2, <3>3
  <2> QED
    BY <2>1 DEF HandlerWellFormed, MarkerInProgress, At, CodeLabels, TokenLabels, MintLabels
<1> QED
  BY <1>2, <1>3, <1>4, <1>5, <1>6, <1>7 DEF Start

\* A handler that goes on working on the same code or token.
LEMMA WorkingWellFormed ==
    ASSUME TypeOK, CodesAdvance, TokensAdvance, NEW r \in Requests, HandlerWellFormed(r),
           NEW label \in CodeLabels \cup TokenLabels, Goto(r, label),
           \/ label \in CodeLabels /\ requests[r].pc \in CodeLabels
           \/ label \in TokenLabels /\ requests[r].pc \in TokenLabels
    PROVE  HandlerWellFormed(r)'
<1>1. /\ requests'[r].pc = label
      /\ requests'[r].code = requests[r].code
      /\ requests'[r].token = requests[r].token
  BY DEF Goto, TypeOK, Locals
<1>2. CASE label \in CodeLabels /\ requests[r].pc \in CodeLabels
  BY <1>1, <1>2 DEF HandlerWellFormed, CodesAdvance, CodeLabels, TokenLabels, MintLabels
<1>3. CASE label \in TokenLabels /\ requests[r].pc \in TokenLabels
  BY <1>1, <1>3 DEF HandlerWellFormed, TokensAdvance, CodeLabels, TokenLabels, MintLabels
<1> QED
  BY <1>2, <1>3

LEMMA CodeHandlersWellFormed ==
    ASSUME TypeOK, HandlersWellFormed, FamiliesWellFormed, CodesAdvance, TokensAdvance,
           NEW r \in Requests,
           \/ DeleteCode(r) \/ CodeMarkClaimed(r) \/ CodeMarkFinalized(r) \/ CodeSweep(r)
           \/ CodeGrantCheck(r) \/ RejectCode(r) \/ ClaimCode(r)
    PROVE  HandlerWellFormed(r)' /\ MarkerInProgress(r)'
<1>0. HandlerWellFormed(r)
  BY DEF HandlersWellFormed
<1>1. ASSUME NEW label \in CodeLabels, Goto(r, label), requests[r].pc \in CodeLabels
      PROVE  HandlerWellFormed(r)' /\ MarkerInProgress(r)'
  <2>1. requests'[r].pc = label
    BY <1>1 DEF Goto, TypeOK, Locals
  <2> QED
    BY <1>0, <1>1, <2>1, WorkingWellFormed DEF MarkerInProgress, At, CodeLabels
<1>2. CASE DeleteCode(r) \/ CodeSweep(r) \/ RejectCode(r)
  BY <1>2, ReturnedWellFormed DEF DeleteCode, CodeSweep, RejectCode
<1>3. CASE CodeMarkClaimed(r)
  BY <1>1, <1>3 DEF CodeMarkClaimed, At, CodeLabels
<1>4. CASE CodeMarkFinalized(r)
  BY <1>1, <1>4 DEF CodeMarkFinalized, At, CodeLabels
<1>5. CASE CodeGrantCheck(r)
  BY <1>1, <1>5, ReturnedWellFormed DEF CodeGrantCheck, At, CodeLabels
<1>6. CASE ClaimCode(r)
  <2> DEFINE c == requests[r].code
  <2>1. c \in CodeIds /\ requests[r].token = None
    BY <1>0, <1>6 DEF ClaimCode, At, HandlerWellFormed, CodeLabels
  <2>2. CASE codes[c].status = "unused"
    <3>0. /\ requests' = [requests EXCEPT ![r] = [requests[r] EXCEPT
                                        !.pc = "create", !.scope = codes[c].scope]]
          /\ codes' = [codes EXCEPT ![c] = [codes[c] EXCEPT !.status = "claimed",
                                                           !.family = lastFamily + 1]]
      BY <1>6, <2>2 DEF ClaimCode
    <3>1. /\ requests'[r].pc = "create"
          /\ requests'[r].code = c /\ requests'[r].token = None
      <4>1. requests'[r] = [requests[r] EXCEPT !.pc = "create", !.scope = codes[c].scope]
        BY <3>0 DEF TypeOK
      <4> QED
        BY <2>1, <4>1 DEF TypeOK, Locals
    <3>2. codes'[c].family # None
      <4>1. codes'[c] = [codes[c] EXCEPT !.status = "claimed", !.family = lastFamily + 1]
        BY <2>1, <3>0 DEF TypeOK
      <4>2. codes'[c].family = lastFamily + 1
        BY <2>1, <4>1 DEF TypeOK, CodeRow
      <4> QED
        BY <4>2 DEF TypeOK, None
    <3> HIDE DEF c
    <3> QED
      BY <2>1, <3>1, <3>2
         DEF HandlerWellFormed, MarkerInProgress, At, CodeLabels, TokenLabels, MintLabels
  <2>3. CASE codes[c].status # "unused"
    BY <1>6, <2>3, ReturnedWellFormed DEF ClaimCode
  <2> QED
    BY <2>2, <2>3
<1> QED
  BY <1>2, <1>3, <1>4, <1>5, <1>6

LEMMA TokenHandlersWellFormed ==
    ASSUME TypeOK, HandlersWellFormed, MarkersInProgress, CodesAdvance, TokensAdvance,
           NEW r \in Requests,
           \/ TokenMarkRotating(r) \/ TokenMarkRotated(r) \/ TokenSweep(r)
           \/ TokenGrantCheck(r) \/ RejectRefresh(r) \/ ClaimToken(r)
           \/ RevokeRow(r) \/ RevokeFamily(r)
    PROVE  HandlerWellFormed(r)' /\ MarkerInProgress(r)'
<1> DEFINE t == requests[r].token
<1>0. HandlerWellFormed(r) /\ MarkerInProgress(r)
  BY DEF HandlersWellFormed, MarkersInProgress
<1>1. /\ requests[r].pc \in TokenLabels /\ t \in TokenIds /\ requests[r].code = None
      /\ tokens[t].status # "absent"
  BY <1>0 DEF TokenMarkRotating, TokenMarkRotated, TokenSweep, TokenGrantCheck,
     RejectRefresh, ClaimToken, RevokeRow, RevokeFamily, At, HandlerWellFormed, TokenLabels
<1>2. ASSUME NEW label \in TokenLabels, Goto(r, label)
      PROVE  /\ HandlerWellFormed(r)'
             /\ requests'[r].pc = label /\ requests'[r].token = t
  <2>1. requests'[r].pc = label /\ requests'[r].token = t
    BY <1>2 DEF Goto, TypeOK, Locals
  <2> QED
    BY <1>0, <1>1, <1>2, <2>1, WorkingWellFormed
<1>3. CASE TokenSweep(r) \/ RejectRefresh(r) \/ RevokeFamily(r)
  BY <1>3, ReturnedWellFormed DEF TokenSweep, RejectRefresh, RevokeFamily
<1>4. CASE TokenMarkRotating(r)
  <2>1. CASE tokens[t].status = "rotating"
    <3>1. Goto(r, "token_sweep") /\ tokens'[t].status = "compromised"
      BY <1>1, <1>4, <2>1 DEF TokenMarkRotating, TypeOK, TokenRow
    <3>2. HandlerWellFormed(r)' /\ requests'[r].pc = "token_sweep" /\ requests'[r].token = t
      BY <1>2, <3>1 DEF TokenLabels
    <3> QED
      BY <3>1, <3>2 DEF MarkerInProgress, At
  <2>2. CASE tokens[t].status # "rotating"
    <3>1. Goto(r, "token_mark_rotated") /\ UNCHANGED tokens
      BY <1>4, <2>2 DEF TokenMarkRotating
    <3>2. tokens[t].status \in {"compromised", "rotated", "revoked"}
      BY <1>0, <1>1, <1>4, <2>2 DEF TokenMarkRotating, MarkerInProgress, At, TypeOK,
         TokenRow, TokenStatus
    <3>3. /\ HandlerWellFormed(r)'
          /\ requests'[r].pc = "token_mark_rotated" /\ requests'[r].token = t
      BY <1>2, <3>1 DEF TokenLabels
    <3> QED
      BY <3>1, <3>2, <3>3 DEF MarkerInProgress, At
  <2> QED
    BY <2>1, <2>2
<1>5. CASE TokenMarkRotated(r)
  <2>1. Goto(r, "token_sweep")
    BY <1>5 DEF TokenMarkRotated
  <2>2. tokens'[t].status \in {"compromised", "revoked"}
    BY <1>0, <1>1, <1>5 DEF TokenMarkRotated, MarkerInProgress, At, TypeOK, TokenRow
  <2>3. HandlerWellFormed(r)' /\ requests'[r].pc = "token_sweep" /\ requests'[r].token = t
    BY <1>2, <2>1 DEF TokenLabels
  <2> QED
    BY <2>2, <2>3 DEF MarkerInProgress, At
<1>6. CASE TokenGrantCheck(r)
  <2>1. CASE Goto(r, "token_claim")
    BY <1>2, <2>1 DEF TokenLabels, MarkerInProgress, At
  <2> QED
    BY <1>6, <2>1, ReturnedWellFormed DEF TokenGrantCheck
<1>7. CASE ClaimToken(r)
  <2>1. CASE tokens[t].status = "active"
    <3>1. /\ requests'[r].pc = "create"
          /\ requests'[r].code = None /\ requests'[r].token = t
          /\ tokens'[t].status = "rotating"
      BY <1>1, <1>7, <2>1 DEF ClaimToken, Goto, TypeOK, Locals, TokenRow
    <3> HIDE DEF t
    <3> QED
      BY <1>1, <3>1
         DEF HandlerWellFormed, MarkerInProgress, At, CodeLabels, TokenLabels, MintLabels
  <2>2. CASE tokens[t].status # "active"
    BY <1>7, <2>2, ReturnedWellFormed DEF ClaimToken
  <2> QED
    BY <2>1, <2>2
<1>8. CASE RevokeRow(r)
  <2>1. Goto(r, "revoke_family") /\ tokens'[t].status = "revoked"
    BY <1>1, <1>8 DEF RevokeRow, TypeOK, TokenRow
  <2>2. HandlerWellFormed(r)' /\ requests'[r].pc = "revoke_family" /\ requests'[r].token = t
    BY <1>2, <2>1 DEF TokenLabels
  <2> QED
    BY <2>1, <2>2 DEF MarkerInProgress, At
<1> QED
  BY <1>3, <1>4, <1>5, <1>6, <1>7, <1>8

\* A handler that goes on minting from the same credential.
LEMMA MintingWellFormed ==
    ASSUME TypeOK, CodesAdvance, TokensAdvance, NEW r \in Requests, HandlerWellFormed(r),
           requests[r].pc \in MintLabels \ {"create"},
           NEW label \in MintLabels \ {"create"}, Goto(r, label)
    PROVE  HandlerWellFormed(r)' /\ MarkerInProgress(r)'
<1>1. /\ requests'[r].pc = label
      /\ requests'[r].code = requests[r].code
      /\ requests'[r].token = requests[r].token
      /\ requests'[r].new = requests[r].new
  BY DEF Goto, TypeOK, Locals
<1>2. \/ /\ requests[r].code \in CodeIds /\ requests[r].token = None
         /\ codes'[requests[r].code].family # None
      \/ /\ requests[r].code = None /\ requests[r].token \in TokenIds
         /\ tokens'[requests[r].token].status \notin {"absent", "active"}
  BY IdTypes DEF HandlerWellFormed, CodesAdvance, TokensAdvance
<1>3. Spends(r)'.family = Spends(r).family
  BY <1>1, IdTypes DEF HandlerWellFormed, CodesAdvance, TokensAdvance, Spends
<1>4. /\ requests[r].new \in TokenIds
      /\ tokens'[requests[r].new].status # "absent"
      /\ tokens'[requests[r].new].family = Spends(r)'.family
  BY <1>3 DEF HandlerWellFormed, TokensAdvance
<1> QED
  BY <1>1, <1>2, <1>4
     DEF HandlerWellFormed, MarkerInProgress, At, CodeLabels, TokenLabels, MintLabels

LEMMA MintHandlersWellFormed ==
    ASSUME TypeOK, HandlersWellFormed, CodesAdvance, TokensAdvance, NEW r \in Requests,
           \/ CreateToken(r) \/ FinalizeCode(r) \/ FinalizeToken(r) \/ CheckCode(r)
           \/ CheckTokens(r) \/ Disclose(r) \/ GrantGone(r) \/ Burn(r)
    PROVE  HandlerWellFormed(r)' /\ MarkerInProgress(r)'
<1>0. HandlerWellFormed(r)
  BY DEF HandlersWellFormed
<1>1. CASE CreateToken(r)
  <2>1. PICK t \in TokenIds :
          /\ IsNextToken(t)
          /\ tokens' = [tokens EXCEPT ![t] =
                          [status |-> "active", owner |-> Spends(r).owner,
                           grant |-> Spends(r).grant, scope |-> requests[r].scope,
                           family |-> Spends(r).family]]
          /\ requests' = [requests EXCEPT ![r] = [@ EXCEPT !.pc = "finalize", !.new = t]]
    BY <1>1 DEF CreateToken
  <2>2. requests'[r] = [requests[r] EXCEPT !.pc = "finalize", !.new = t]
    BY <2>1 DEF TypeOK
  <2>3. /\ requests'[r].pc = "finalize" /\ requests'[r].new = t
        /\ requests'[r].code = requests[r].code /\ requests'[r].token = requests[r].token
    BY <2>2 DEF TypeOK, Locals
  <2>4. tokens'[t].status = "active" /\ tokens'[t].family = Spends(r).family
    BY <2>1 DEF TypeOK
  <2>5. UNCHANGED codes
    BY <1>1 DEF CreateToken
  <2>6. \/ /\ requests[r].code \in CodeIds /\ requests[r].token = None
           /\ codes'[requests[r].code].family # None
        \/ /\ requests[r].code = None /\ requests[r].token \in TokenIds
           /\ tokens'[requests[r].token].status \notin {"absent", "active"}
    BY <1>0, <1>1, IdTypes DEF CreateToken, At, HandlerWellFormed, MintLabels, CodesAdvance,
       TokensAdvance
  <2>7. Spends(r)'.family = Spends(r).family
    <3>1. CASE requests[r].code # None
      BY <2>3, <2>5, <3>1 DEF Spends
    <3>2. CASE requests[r].code = None
      <4>1. requests[r].token \in TokenIds /\ tokens[requests[r].token].status # "absent"
        BY <1>0, <1>1, <3>2, IdTypes DEF CreateToken, At, HandlerWellFormed, MintLabels
      <4> QED
        BY <2>3, <3>2, <4>1 DEF Spends, TokensAdvance
    <3> QED
      BY <3>1, <3>2
  <2> QED
    BY <2>3, <2>4, <2>6, <2>7
       DEF HandlerWellFormed, MarkerInProgress, At, CodeLabels, TokenLabels, MintLabels
<1>2. CASE \/ FinalizeCode(r) \/ FinalizeToken(r) \/ CheckCode(r)
           \/ CheckTokens(r) \/ GrantGone(r)
  <2>1. \E label \in MintLabels \ {"create"} : Goto(r, label)
    BY <1>2 DEF FinalizeCode, FinalizeToken, CheckCode, CheckTokens, GrantGone, MintLabels
  <2>2. requests[r].pc \in MintLabels \ {"create"}
    BY <1>2 DEF FinalizeCode, FinalizeToken, CheckCode, CheckTokens, GrantGone, At, MintLabels
  <2> QED
    BY <1>0, <2>1, <2>2, MintingWellFormed
<1>3. CASE Disclose(r) \/ Burn(r)
  BY <1>3, ReturnedWellFormed DEF Disclose, Burn
<1> QED
  BY <1>1, <1>2, <1>3

LEMMA GrantHandlersWellFormed ==
    ASSUME TypeOK, NEW r \in Requests,
           \/ ConsentCreates(r) \/ ConsentRegrants(r) \/ ConsentMerges(r) \/ MintCode(r)
           \/ RevokeGrant(r) \/ RevokeCodes(r) \/ RevokeTokens(r)
    PROVE  HandlerWellFormed(r)' /\ MarkerInProgress(r)'
<1>1. ASSUME Return(r)
      PROVE  HandlerWellFormed(r)' /\ MarkerInProgress(r)'
  BY <1>1, ReturnedWellFormed
<1>2. ASSUME Goto(r, "mint_code") \/ Goto(r, "revoke_tokens")
      PROVE  HandlerWellFormed(r)' /\ MarkerInProgress(r)'
  BY <1>2, IdleWellFormed DEF Goto, TypeOK, Locals
<1>3. ASSUME NEW label \in {"mint_code", "revoke_codes"}, NEW g,
             requests' = [requests EXCEPT ![r] = [@ EXCEPT !.pc = label, !.grant = g]]
      PROVE  HandlerWellFormed(r)' /\ MarkerInProgress(r)'
  <2>1. requests'[r] = [requests[r] EXCEPT !.pc = label, !.grant = g]
    BY <1>3 DEF TypeOK
  <2>2. requests'[r].pc = label
    BY <2>1 DEF TypeOK, Locals
  <2> QED
    BY <2>2, IdleWellFormed
<1> QED
  BY <1>1, <1>2, <1>3 DEF ConsentCreates, ConsentRegrants, Grants, ConsentMerges, MintCode,
     RevokeGrant, RevokeCodes, RevokeTokens

LEMMA HandlersStayWellFormed ==
    ASSUME IInv, [Next]_vars
    PROVE  HandlersWellFormed' /\ MarkersInProgress'
<1>0. CodesAdvance /\ TokensAdvance
  BY RowsAdvance DEF IInv
<1>1. ASSUME NEW r \in Requests, Start(r) \/ Continue(r) \/ Crash(r)
      PROVE  HandlersWellFormed' /\ MarkersInProgress'
  <2>1. HandlerWellFormed(r)' /\ MarkerInProgress(r)'
    <3>1. CASE Start(r)
      BY <3>1, StartedWellFormed DEF IInv
    <3>2. CASE Continue(r)
      BY <1>0, <3>2, CodeHandlersWellFormed, TokenHandlersWellFormed, MintHandlersWellFormed,
         GrantHandlersWellFormed DEF IInv, Continue
    <3>3. CASE Crash(r)
      BY <3>3, ReturnedWellFormed DEF IInv, Crash
    <3> QED
      BY <1>1, <3>1, <3>2, <3>3
  <2>2. ASSUME NEW q \in Requests, q # r
        PROVE  HandlerWellFormed(q)' /\ MarkerInProgress(q)'
    BY <1>0, <1>1, <2>2, OneHandlerMoves, StaysWellFormed
       DEF IInv, HandlersWellFormed, MarkersInProgress
  <2> QED
    BY <2>1, <2>2 DEF HandlersWellFormed, MarkersInProgress
<1>2. ASSUME UNCHANGED requests
      PROVE  HandlersWellFormed' /\ MarkersInProgress'
  BY <1>0, <1>2, StaysWellFormed DEF IInv, HandlersWellFormed, MarkersInProgress
<1> QED
  BY <1>1, <1>2 DEF Next, Environment, CodeExpires, vars
=============================================================================
