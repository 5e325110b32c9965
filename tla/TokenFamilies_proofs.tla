------------------------- MODULE TokenFamilies_proofs -------------------------
(***************************************************************************)
(* The families of AuthorizationServer: the proof that IInv is inductive,  *)
(* and the theorems it gives.                                              *)
(***************************************************************************)
EXTENDS AuthorizationServer_proofs

-----------------------------------------------------------------------------
(* Family ids.                                                             *)

\* What every action but ClaimCode does to the families of the codes, and every
\* action but CreateToken to those of the tokens and to the active ones.
CodesKeepFamilies ==
    \A c \in CodeIds :
       /\ codes'[c].family = codes[c].family
       /\ codes'[c].status \in {"absent", "unused"} => codes[c].status \in {"absent", "unused"}
TokensKeepFamilies ==
    \A t \in TokenIds :
       /\ tokens'[t].family = tokens[t].family
       /\ tokens'[t].status = "active" => tokens[t].status = "active"

LEMMA CodeStepsKeepFamilies ==
    ASSUME TypeOK, FamiliesWellFormed, NEW r \in Requests,
           \/ MintCode(r) \/ DeleteCode(r) \/ CodeMarkClaimed(r) \/ CodeMarkFinalized(r)
           \/ FinalizeCode(r) \/ RevokeCodes(r)
    PROVE  CodesKeepFamilies
<1>1. CASE MintCode(r)
  BY <1>1 DEF MintCode, IsNextCode, FamiliesWellFormed, CodesKeepFamilies, TypeOK
<1>2. CASE DeleteCode(r)
  BY <1>2 DEF DeleteCode, CodesKeepFamilies, TypeOK, CodeRow
<1>3. CASE CodeMarkClaimed(r)
  BY <1>3 DEF CodeMarkClaimed, CodesKeepFamilies, TypeOK, CodeRow
<1>4. CASE CodeMarkFinalized(r)
  BY <1>4 DEF CodeMarkFinalized, CodesKeepFamilies, TypeOK, CodeRow
<1>5. CASE FinalizeCode(r)
  BY <1>5 DEF FinalizeCode, CodesKeepFamilies, TypeOK, CodeRow
<1>6. CASE RevokeCodes(r)
  BY <1>6 DEF RevokeCodes, CodesKeepFamilies, TypeOK, CodeRow
<1> QED
  BY <1>1, <1>2, <1>3, <1>4, <1>5, <1>6

LEMMA SweepKeepsFamilies ==
    ASSUME TypeOK, NEW f, NEW status \in {"rotating", "revoked"}, SweepFamily(f, status)
    PROVE  TokensKeepFamilies
BY DEF TypeOK, TokenRow, SweepFamily, TokensKeepFamilies

LEMMA TokenStepsKeepFamilies ==
    ASSUME TypeOK, NEW r \in Requests,
           \/ CodeSweep(r) \/ TokenMarkRotating(r) \/ TokenMarkRotated(r) \/ TokenSweep(r)
           \/ ClaimToken(r) \/ FinalizeToken(r) \/ Burn(r)
           \/ RevokeRow(r) \/ RevokeFamily(r) \/ RevokeTokens(r)
    PROVE  TokensKeepFamilies
<1>1. CASE CodeSweep(r) \/ TokenSweep(r) \/ Burn(r) \/ RevokeFamily(r)
  BY <1>1, SweepKeepsFamilies DEF CodeSweep, TokenSweep, Burn, RevokeFamily
<1>2. CASE TokenMarkRotating(r)
  BY <1>2 DEF TokenMarkRotating, TokensKeepFamilies, TypeOK, TokenRow
<1>3. CASE TokenMarkRotated(r)
  BY <1>3 DEF TokenMarkRotated, TokensKeepFamilies, TypeOK, TokenRow
<1>4. CASE ClaimToken(r)
  BY <1>4 DEF ClaimToken, TokensKeepFamilies, TypeOK, TokenRow
<1>5. CASE FinalizeToken(r)
  BY <1>5 DEF FinalizeToken, TokensKeepFamilies, TypeOK, TokenRow
<1>6. CASE RevokeRow(r)
  BY <1>6 DEF RevokeRow, TokensKeepFamilies, TypeOK, TokenRow
<1>7. CASE RevokeTokens(r)
  BY <1>7 DEF RevokeTokens, TokensKeepFamilies, TypeOK, TokenRow
<1> QED
  BY <1>1, <1>2, <1>3, <1>4, <1>5, <1>6, <1>7

LEMMA FamilyCounterUntouched ==
    ASSUME NEW r \in Requests, Start(r) \/ Crash(r) \/ (Continue(r) /\ ~ClaimCode(r))
    PROVE  UNCHANGED lastFamily
BY DEF Start, AuthorizeCovered, AuthorizeAsks, RevokeConsent, ConsentReads,
       ExchangeMissing, ExchangeReplay, ExchangeExpired, ExchangeUnused,
       RefreshReplay, RefreshActive, RevokeToken, Crash, Continue,
       ConsentCreates, ConsentRegrants, ConsentMerges, MintCode, DeleteCode,
       CodeMarkClaimed, CodeMarkFinalized, CodeSweep, CodeGrantCheck, RejectCode,
       TokenMarkRotating, TokenMarkRotated, TokenSweep, TokenGrantCheck, RejectRefresh,
       ClaimToken, CreateToken, FinalizeCode, FinalizeToken, CheckCode, CheckTokens,
       Disclose, GrantGone, Burn, RevokeRow, RevokeFamily, RevokeGrant, RevokeCodes,
       RevokeTokens, tables

LEMMA KeptFamiliesWellFormed ==
    ASSUME TypeOK, FamiliesWellFormed, CodesKeepFamilies, UNCHANGED lastFamily,
           \A t \in TokenIds : tokens'[t].family <= lastFamily
    PROVE  FamiliesWellFormed'
BY DEF FamiliesWellFormed, CodesKeepFamilies

LEMMA FamiliesStayWellFormed ==
    ASSUME IInv, [Next]_vars
    PROVE  FamiliesWellFormed'
<1> USE DEF IInv
<1>0. \A t \in TokenIds : tokens[t].family <= lastFamily
  BY DEF FamiliesWellFormed
<1>1. ASSUME UNCHANGED lastFamily, CodesKeepFamilies, TokensKeepFamilies
      PROVE  FamiliesWellFormed'
  BY <1>0, <1>1, KeptFamiliesWellFormed DEF TokensKeepFamilies
<1>2. ASSUME UNCHANGED codes
      PROVE  CodesKeepFamilies
  BY <1>2 DEF CodesKeepFamilies
<1>3. ASSUME UNCHANGED tokens
      PROVE  TokensKeepFamilies
  BY <1>3 DEF TokensKeepFamilies
<1>4. ASSUME NEW r \in Requests, Start(r) \/ Crash(r)
      PROVE  FamiliesWellFormed'
  BY <1>1, <1>2, <1>3, <1>4, FamilyCounterUntouched, CodesUntouched, TokensUntouched
<1>5. ASSUME NEW r \in Requests, Continue(r), ~ClaimCode(r), ~CreateToken(r)
      PROVE  FamiliesWellFormed'
  <2>1. UNCHANGED lastFamily
    BY <1>5, FamilyCounterUntouched
  <2>2. CodesKeepFamilies
    BY <1>2, <1>5, CodesUntouched, CodeStepsKeepFamilies DEF Continue
  <2>3. TokensKeepFamilies
    BY <1>3, <1>5, TokensUntouched, TokenStepsKeepFamilies DEF Continue
  <2> QED
    BY <1>1, <2>1, <2>2, <2>3
<1>6. ASSUME NEW r \in Requests, CreateToken(r)
      PROVE  FamiliesWellFormed'
  <2>1. UNCHANGED <<codes, lastFamily>>
    BY <1>6 DEF CreateToken
  <2>2. PICK t \in TokenIds :
          tokens' = [tokens EXCEPT ![t] =
                       [status |-> "active", owner |-> Spends(r).owner,
                        grant |-> Spends(r).grant, scope |-> requests[r].scope,
                        family |-> Spends(r).family]]
    BY <1>6 DEF CreateToken
  <2>3. Spends(r).family <= lastFamily
    <3>1. \/ requests[r].code \in CodeIds
          \/ requests[r].code = None /\ requests[r].token \in TokenIds
      BY <1>6 DEF CreateToken, At, HandlersWellFormed, HandlerWellFormed, MintLabels
    <3> QED
      BY <3>1, IdTypes DEF Spends, FamiliesWellFormed
  <2>4. \A u \in TokenIds : tokens'[u].family <= lastFamily
    BY <1>0, <2>2, <2>3 DEF TypeOK
  <2> QED
    BY <1>2, <2>1, <2>4, KeptFamiliesWellFormed
<1>7. ASSUME NEW r \in Requests, ClaimCode(r)
      PROVE  FamiliesWellFormed'
  <2>1. CASE UNCHANGED <<codes, lastFamily>>
    BY <1>1, <1>2, <1>3, <1>7, <2>1 DEF ClaimCode
  <2>2. CASE /\ lastFamily' = lastFamily + 1
             /\ codes' = [codes EXCEPT ![requests[r].code] =
                            [@ EXCEPT !.status = "claimed", !.family = lastFamily + 1]]
    <3> DEFINE claimed == requests[r].code
    <3>1. claimed \in CodeIds
      BY <1>7 DEF ClaimCode, At, HandlersWellFormed, HandlerWellFormed, CodeLabels
    <3>2. codes'[claimed] = [codes[claimed] EXCEPT !.status = "claimed",
                                                   !.family = lastFamily + 1]
      BY <2>2, <3>1 DEF TypeOK
    <3>3. codes'[claimed].status = "claimed" /\ codes'[claimed].family = lastFamily + 1
      BY <3>1, <3>2 DEF TypeOK, CodeRow
    <3>4. \A c \in CodeIds : c # claimed => codes'[c] = codes[c]
      BY <2>2, <3>1 DEF TypeOK
    <3>5. lastFamily \in Nat /\ \A c \in CodeIds : codes[c].family \in Nat
      BY DEF TypeOK, CodeRow
    <3>6. \A t \in TokenIds : tokens'[t].family <= lastFamily'
      <4>1. \A t \in TokenIds : tokens[t].family \in Nat /\ tokens'[t] = tokens[t]
        BY <1>7 DEF ClaimCode, TypeOK, TokenRow
      <4> QED
        BY <1>0, <2>2, <3>5, <4>1
    <3> HIDE DEF claimed
    <3>7. ASSUME NEW c \in CodeIds
          PROVE  /\ codes'[c].status \in {"absent", "unused"} => codes'[c].family = None
                 /\ codes'[c].family <= lastFamily'
                 /\ \A d \in CodeIds : codes'[c].family = codes'[d].family
                                       /\ codes'[c].family # None => c = d
      <4>1. \A d \in CodeIds \ {claimed} : codes'[d].family <= lastFamily
        BY <3>4 DEF FamiliesWellFormed
      <4>2. CASE c = claimed
        BY <2>2, <3>3, <3>4, <3>5, <4>1, <4>2
      <4>3. CASE c # claimed
        <5>1. codes'[c].status \in {"absent", "unused"} => codes'[c].family = None
          BY <3>4, <4>3 DEF FamiliesWellFormed
        <5>2. codes'[c].family <= lastFamily'
          BY <2>2, <3>4, <3>5, <4>1, <4>3
        <5>3. codes'[c].family # codes'[claimed].family
          BY <2>2, <3>3, <3>4, <3>5, <4>1, <4>3
        <5>4. \A d \in CodeIds \ {claimed} :
                codes'[c].family = codes'[d].family /\ codes'[c].family # None => c = d
          BY <3>4, <4>3 DEF FamiliesWellFormed
        <5> QED
          BY <5>1, <5>2, <5>3, <5>4
      <4> QED
        BY <4>2, <4>3
    <3> QED
      BY <3>6, <3>7 DEF FamiliesWellFormed
  <2> QED
    BY <1>7, <2>1, <2>2 DEF ClaimCode
<1>8. ASSUME NEW c \in CodeIds, CodeExpires(c)
      PROVE  FamiliesWellFormed'
  <2>1. CodesKeepFamilies
    BY <1>8 DEF CodeExpires, CodesKeepFamilies, TypeOK, CodeRow
  <2> QED
    BY <1>1, <1>3, <1>8, <2>1 DEF CodeExpires
<1>9. CASE UNCHANGED vars
  BY <1>1, <1>2, <1>3, <1>9 DEF vars
<1> QED
  BY <1>4, <1>5, <1>6, <1>7, <1>8, <1>9 DEF Next, Environment

-----------------------------------------------------------------------------
(* One active row in a family.                                             *)

\* The right to insert a row comes from a claim, the right to disclose one from the
\* last look at the family.
LEMMA NextLabel ==
    ASSUME TypeOK, NEW r \in Requests
    PROVE  /\ Start(r) \/ Crash(r) => requests'[r].pc \notin {"create", "check_grant"}
           /\ Continue(r) /\ ~ClaimCode(r) /\ ~ClaimToken(r) => requests'[r].pc # "create"
           /\ Continue(r) /\ ~CheckTokens(r) => requests'[r].pc # "check_grant"
<1>1. ASSUME Return(r)
      PROVE  requests'[r].pc = "idle"
  BY <1>1 DEF Return, TypeOK, Blank
<1>2. ASSUME NEW label, Goto(r, label)
      PROVE  requests'[r].pc = label
  BY <1>2 DEF Goto, TypeOK, Locals
<1>3. ASSUME Start(r) \/ Crash(r)
      PROVE  requests'[r].pc \notin {"create", "check_grant"}
  <2>1. CASE Crash(r)
    BY <1>1, <2>1 DEF Crash
  <2>2. ASSUME NEW o \in Owner, NEW s \in ScopeSets,
               AuthorizeCovered(r, o, s) \/ AuthorizeAsks(r, o, s)
        PROVE  requests'[r].pc \notin {"create", "check_grant"}
    BY <2>2 DEF AuthorizeCovered, AuthorizeAsks, Arrives, At, Begin, TypeOK, Blank
  <2>3. ASSUME NEW o \in Owner, RevokeConsent(r, o)
        PROVE  requests'[r].pc \notin {"create", "check_grant"}
    BY <2>3 DEF RevokeConsent, Begin, TypeOK, Blank
  <2>4. ASSUME NEW cookie \in cookies, ConsentReads(r, cookie)
        PROVE  requests'[r].pc \notin {"create", "check_grant"}
    <3> DEFINE existing == consents[cookie[1]]
    <3>1. existing.status \in {"absent", "revoked", "granted"}
      BY DEF TypeOK, ConsentRow
    <3>2. requests'[r].pc = (CASE existing.status = "absent" -> "consent_create"
                               [] existing.status = "revoked" -> "consent_regrant"
                               [] existing.status = "granted" -> "consent_merge")
      BY <2>4 DEF ConsentReads, Begin, TypeOK, Blank
    <3> HIDE DEF existing
    <3> QED
      BY <3>1, <3>2
  <2>5. ASSUME NEW c \in CodeIds,
               \/ ExchangeMissing(r, c) \/ ExchangeReplay(r, c)
               \/ ExchangeExpired(r, c) \/ ExchangeUnused(r, c)
        PROVE  requests'[r].pc \notin {"create", "check_grant"}
    <3>1. CASE ExchangeMissing(r, c)
      BY <3>1 DEF ExchangeMissing, Arrives, At
    <3>2. CASE ExchangeReplay(r, c)
      BY <3>2 DEF ExchangeReplay, Begin, TypeOK, Blank
    <3>3. CASE ExchangeExpired(r, c)
      BY <3>3 DEF ExchangeExpired, Begin, TypeOK, Blank
    <3>4. CASE ExchangeUnused(r, c)
      BY <3>4 DEF ExchangeUnused, Begin, TypeOK, Blank
    <3> QED
      BY <2>5, <3>1, <3>2, <3>3, <3>4
  <2>6. ASSUME NEW t \in TokenIds,
               RefreshReplay(r, t) \/ RefreshActive(r, t) \/ RevokeToken(r, t)
        PROVE  requests'[r].pc \notin {"create", "check_grant"}
    <3>1. CASE RefreshActive(r, t)
      BY <3>1 DEF RefreshActive, Begin, TypeOK, Blank
    <3>2. CASE RefreshReplay(r, t)
      BY <3>2 DEF RefreshReplay, Begin, TypeOK, Blank
    <3>3. CASE RevokeToken(r, t)
      BY <3>3 DEF RevokeToken, Begin, TypeOK, Blank
    <3> QED
      BY <2>6, <3>1, <3>2, <3>3
  <2> QED
    BY <1>3, <2>1, <2>2, <2>3, <2>4, <2>5, <2>6 DEF Start
<1>4. ASSUME \/ ConsentCreates(r) \/ ConsentRegrants(r) \/ ConsentMerges(r)
             \/ MintCode(r) \/ RevokeGrant(r) \/ RevokeCodes(r) \/ RevokeTokens(r)
      PROVE  requests'[r].pc \notin {"create", "check_grant"}
  <2>1. ASSUME NEW label \in {"mint_code", "revoke_codes"}, NEW g,
               requests' = [requests EXCEPT ![r] = [@ EXCEPT !.pc = label, !.grant = g]]
        PROVE  requests'[r].pc = label
    <3>1. requests'[r] = [requests[r] EXCEPT !.pc = label, !.grant = g]
      BY <2>1 DEF TypeOK
    <3> QED
      BY <3>1 DEF TypeOK, Locals
  <2>2. ASSUME Grants(r, requests[r].owner)
        PROVE  requests'[r].pc = "mint_code"
    BY <2>1, <2>2 DEF Grants
  <2> QED
    BY <1>1, <1>2, <1>4, <2>1, <2>2 DEF ConsentCreates, ConsentRegrants, ConsentMerges,
       MintCode, RevokeGrant, RevokeCodes, RevokeTokens
<1>5. ASSUME \/ DeleteCode(r) \/ CodeMarkClaimed(r) \/ CodeMarkFinalized(r) \/ CodeSweep(r)
             \/ CodeGrantCheck(r) \/ RejectCode(r)
             \/ TokenMarkRotating(r) \/ TokenMarkRotated(r) \/ TokenSweep(r)
             \/ TokenGrantCheck(r) \/ RejectRefresh(r)
             \/ FinalizeCode(r) \/ FinalizeToken(r) \/ CheckCode(r)
             \/ Disclose(r) \/ GrantGone(r) \/ Burn(r) \/ RevokeRow(r) \/ RevokeFamily(r)
      PROVE  requests'[r].pc \notin {"create", "check_grant"}
  BY <1>1, <1>2, <1>5 DEF DeleteCode, CodeMarkClaimed, CodeMarkFinalized, CodeSweep,
     CodeGrantCheck, RejectCode, TokenMarkRotating, TokenMarkRotated, TokenSweep,
     TokenGrantCheck, RejectRefresh, FinalizeCode, FinalizeToken, CheckCode,
     Disclose, GrantGone, Burn, RevokeRow, RevokeFamily
<1>6. ASSUME ClaimCode(r) \/ ClaimToken(r)
      PROVE  requests'[r].pc \in {"create", "idle"}
  <2>1. ASSUME NEW s, requests' = [requests EXCEPT ![r] = [@ EXCEPT !.pc = "create",
                                                                    !.scope = s]]
        PROVE  requests'[r].pc = "create"
    <3>1. requests'[r] = [requests[r] EXCEPT !.pc = "create", !.scope = s]
      BY <2>1 DEF TypeOK
    <3> QED
      BY <3>1 DEF TypeOK, Locals
  <2> QED
    BY <1>1, <1>2, <1>6, <2>1 DEF ClaimCode, ClaimToken
<1>7. ASSUME CreateToken(r)
      PROVE  requests'[r].pc = "finalize"
  <2>1. PICK t \in TokenIds :
          requests' = [requests EXCEPT ![r] = [@ EXCEPT !.pc = "finalize", !.new = t]]
    BY <1>7 DEF CreateToken
  <2>2. requests'[r] = [requests[r] EXCEPT !.pc = "finalize", !.new = t]
    BY <2>1 DEF TypeOK
  <2> QED
    BY <2>2 DEF TypeOK, Locals
<1>8. ASSUME CheckTokens(r)
      PROVE  requests'[r].pc \in {"burn", "check_grant"}
  BY <1>2, <1>8 DEF CheckTokens
<1> QED
  BY <1>3, <1>4, <1>5, <1>6, <1>7, <1>8 DEF Continue

\* A credential being minted from keeps its family.
LEMMA SpendsStays ==
    ASSUME CodesAdvance, TokensAdvance, NEW q \in Requests, HandlerWellFormed(q),
           requests[q].pc \in MintLabels, requests'[q] = requests[q]
    PROVE  Spends(q)'.family = Spends(q).family
BY IdTypes DEF HandlerWellFormed, CodesAdvance, TokensAdvance, Spends

LEMMA SpentFamily ==
    ASSUME TypeOK, FamiliesWellFormed, NEW q \in Requests, HandlerWellFormed(q),
           requests[q].pc \in MintLabels
    PROVE  Spends(q).family \in Nat /\ Spends(q).family <= lastFamily
BY IdTypes DEF HandlerWellFormed, FamiliesWellFormed, Spends, TypeOK, CodeRow, TokenRow

NoNewActive ==
    \A t \in TokenIds : tokens'[t].status = "active" =>
       /\ tokens[t].status = "active"
       /\ tokens'[t].family = tokens[t].family
NoNewCreator ==
    \A q \in Requests : requests'[q].pc = "create" =>
       /\ requests[q].pc = "create"
       /\ Spends(q)'.family = Spends(q).family

LEMMA NoRivals ==
    ASSUME OneActivePerFamily, CreatorsHoldTheFamily, NoNewActive, NoNewCreator
    PROVE  OneActivePerFamily' /\ CreatorsHoldTheFamily'
<1>1. OneActivePerFamily'
  BY DEF OneActivePerFamily, NoNewActive
<1>2. CreatorsHoldTheFamily'
  BY DEF CreatorsHoldTheFamily, NoNewActive, NoNewCreator, At
<1> QED
  BY <1>1, <1>2

LEMMA OneActiveStays ==
    ASSUME IInv, [Next]_vars
    PROVE  OneActivePerFamily' /\ CreatorsHoldTheFamily'
<1> USE DEF IInv
<1>0. CodesAdvance /\ TokensAdvance
  BY RowsAdvance
<1>1. ASSUME NEW q \in Requests, requests'[q] = requests[q], requests'[q].pc = "create"
      PROVE  requests[q].pc = "create" /\ Spends(q)'.family = Spends(q).family
  BY <1>0, <1>1, SpendsStays DEF HandlersWellFormed, MintLabels
<1>2. ASSUME NEW r \in Requests, Start(r) \/ Continue(r) \/ Crash(r), requests'[r].pc # "create"
      PROVE  NoNewCreator
  BY <1>1, <1>2, OneHandlerMoves DEF NoNewCreator
<1>3. ASSUME TokensKeepFamilies
      PROVE  NoNewActive
  BY <1>3 DEF TokensKeepFamilies, NoNewActive
<1>4. ASSUME UNCHANGED tokens
      PROVE  NoNewActive
  BY <1>4 DEF NoNewActive
<1>5. ASSUME NEW r \in Requests, Start(r) \/ Crash(r)
      PROVE  OneActivePerFamily' /\ CreatorsHoldTheFamily'
  BY <1>2, <1>4, <1>5, NextLabel, TokensUntouched, NoRivals
<1>6. ASSUME NEW r \in Requests, Continue(r), ~ClaimCode(r), ~ClaimToken(r), ~CreateToken(r)
      PROVE  OneActivePerFamily' /\ CreatorsHoldTheFamily'
  <2>1. NoNewActive
    BY <1>3, <1>4, <1>6, TokensUntouched, TokenStepsKeepFamilies DEF Continue
  <2> QED
    BY <1>2, <1>6, <2>1, NextLabel, NoRivals
<1>7. ASSUME NEW r \in Requests, ClaimCode(r)
      PROVE  OneActivePerFamily' /\ CreatorsHoldTheFamily'
  <2>1. NoNewActive
    BY <1>4, <1>7 DEF ClaimCode
  <2>2. CASE Return(r)
    BY <1>2, <1>7, <2>1, <2>2, NoRivals DEF Continue, Return, TypeOK, Blank
  <2>3. CASE /\ lastFamily' = lastFamily + 1
             /\ codes' = [codes EXCEPT ![requests[r].code] =
                            [@ EXCEPT !.status = "claimed", !.family = lastFamily + 1]]
             /\ requests' = [requests EXCEPT ![r] =
                               [@ EXCEPT !.pc = "create", !.scope = codes[requests[r].code].scope]]
    <3>1. requests[r].code \in CodeIds
      BY <1>7 DEF ClaimCode, At, HandlersWellFormed, HandlerWellFormed, CodeLabels
    <3>2. requests'[r].code = requests[r].code
      <4>1. requests'[r] = [requests[r] EXCEPT !.pc = "create",
                                               !.scope = codes[requests[r].code].scope]
        BY <2>3 DEF TypeOK
      <4> QED
        BY <4>1 DEF TypeOK, Locals
    <3>3. codes'[requests[r].code].family = lastFamily + 1
      <4>1. codes'[requests[r].code] = [codes[requests[r].code] EXCEPT
                                          !.status = "claimed", !.family = lastFamily + 1]
        BY <2>3, <3>1 DEF TypeOK
      <4> QED
        BY <3>1, <4>1 DEF TypeOK, CodeRow
    <3>4. Spends(r)'.family = lastFamily + 1
      BY <3>1, <3>2, <3>3, IdTypes DEF Spends
    <3>5. ASSUME NEW t \in TokenIds, tokens'[t].status = "active"
          PROVE  tokens'[t].family # Spends(r)'.family
      BY <1>7, <3>4 DEF ClaimCode, FamiliesWellFormed, TypeOK, TokenRow
    <3>6. ASSUME NEW q \in Requests, q # r, requests'[q].pc = "create"
          PROVE  /\ requests[q].pc = "create" /\ Spends(q)'.family = Spends(q).family
                 /\ Spends(q)'.family # Spends(r)'.family
      <4>1. requests[q].pc = "create" /\ Spends(q)'.family = Spends(q).family
        BY <1>1, <1>7, <3>6, OneHandlerMoves DEF Continue
      <4>2. Spends(q).family \in Nat /\ Spends(q).family <= lastFamily
        BY <4>1, SpentFamily DEF HandlersWellFormed, MintLabels
      <4> QED
        BY <3>4, <4>1, <4>2 DEF TypeOK
    <3>7. OneActivePerFamily'
      BY <2>1 DEF OneActivePerFamily, NoNewActive
    <3>8. ASSUME NEW q \in Requests, requests'[q].pc = "create"
          PROVE  /\ \A t \in TokenIds : tokens'[t].status = "active"
                                          => tokens'[t].family # Spends(q)'.family
                 /\ \A p \in Requests : requests'[p].pc = "create"
                                         /\ Spends(p)'.family = Spends(q)'.family => p = q
      <4>1. CASE q = r
        BY <3>5, <3>6, <4>1
      <4>2. CASE q # r
        BY <2>1, <3>6, <3>8, <4>2 DEF CreatorsHoldTheFamily, NoNewActive, At
      <4> QED
        BY <4>1, <4>2
    <3> QED
      BY <3>7, <3>8 DEF CreatorsHoldTheFamily, At
  <2> QED
    BY <1>7, <2>2, <2>3 DEF ClaimCode
<1>8. ASSUME NEW r \in Requests, ClaimToken(r)
      PROVE  OneActivePerFamily' /\ CreatorsHoldTheFamily'
  <2>1. NoNewActive
    BY <1>3, <1>8, TokenStepsKeepFamilies
  <2>2. CASE Return(r)
    BY <1>2, <1>8, <2>1, <2>2, NoRivals DEF Continue, Return, TypeOK, Blank
  <2>3. CASE Goto(r, "create") /\ tokens[requests[r].token].status = "active"
    <3> DEFINE claimed == requests[r].token
    <3>1. claimed \in TokenIds /\ requests[r].code = None
      BY <1>8 DEF ClaimToken, At, HandlersWellFormed, HandlerWellFormed, TokenLabels
    <3>2. requests'[r].code = None /\ requests'[r].token = claimed
      BY <2>3, <3>1 DEF Goto, TypeOK, Locals
    <3>3. tokens'[claimed].status # "active" /\ tokens'[claimed].family = tokens[claimed].family
      BY <1>8, <2>3, <3>1 DEF ClaimToken, TypeOK, TokenRow
    <3>4. Spends(r)'.family = tokens[claimed].family
      BY <3>2, <3>3 DEF Spends
    <3>5. ASSUME NEW t \in TokenIds, tokens'[t].status = "active"
          PROVE  tokens'[t].family # Spends(r)'.family
      BY <2>1, <2>3, <3>1, <3>3, <3>4, <3>5 DEF NoNewActive, OneActivePerFamily
    <3>6. ASSUME NEW q \in Requests, q # r, requests'[q].pc = "create"
          PROVE  /\ requests[q].pc = "create" /\ Spends(q)'.family = Spends(q).family
                 /\ Spends(q)'.family # Spends(r)'.family
      <4>1. requests[q].pc = "create" /\ Spends(q)'.family = Spends(q).family
        BY <1>1, <1>8, <3>6, OneHandlerMoves DEF Continue
      <4> QED
        BY <2>3, <3>1, <3>4, <4>1 DEF CreatorsHoldTheFamily, At
    <3>7. OneActivePerFamily'
      BY <2>1 DEF OneActivePerFamily, NoNewActive
    <3>8. ASSUME NEW q \in Requests, requests'[q].pc = "create"
          PROVE  /\ \A t \in TokenIds : tokens'[t].status = "active"
                                          => tokens'[t].family # Spends(q)'.family
                 /\ \A p \in Requests : requests'[p].pc = "create"
                                         /\ Spends(p)'.family = Spends(q)'.family => p = q
      <4>1. CASE q = r
        BY <3>5, <3>6, <4>1
      <4>2. CASE q # r
        BY <2>1, <3>6, <3>8, <4>2 DEF CreatorsHoldTheFamily, NoNewActive, At
      <4> QED
        BY <4>1, <4>2
    <3> QED
      BY <3>7, <3>8 DEF CreatorsHoldTheFamily, At
  <2> QED
    BY <1>8, <2>2, <2>3 DEF ClaimToken
<1>9. ASSUME NEW r \in Requests, CreateToken(r)
      PROVE  OneActivePerFamily' /\ CreatorsHoldTheFamily'
  <2>0. requests[r].pc = "create"
    BY <1>9 DEF CreateToken, At
  <2>1. PICK t \in TokenIds :
          /\ IsNextToken(t)
          /\ tokens' = [tokens EXCEPT ![t] =
                          [status |-> "active", owner |-> Spends(r).owner,
                           grant |-> Spends(r).grant, scope |-> requests[r].scope,
                           family |-> Spends(r).family]]
    BY <1>9 DEF CreateToken
  <2>2. tokens'[t].family = Spends(r).family /\ \A u \in TokenIds : u # t => tokens'[u] = tokens[u]
    BY <2>1 DEF TypeOK
  <2>3. NoNewCreator
    BY <1>2, <1>9, NextLabel DEF Continue, ClaimCode, ClaimToken, At, CreateToken
  <2>4. OneActivePerFamily'
    BY <2>0, <2>2 DEF OneActivePerFamily, CreatorsHoldTheFamily, At
  <2>5. ASSUME NEW q \in Requests, requests'[q].pc = "create"
        PROVE  /\ q # r /\ requests[q].pc = "create"
               /\ Spends(q)'.family = Spends(q).family
               /\ Spends(q).family # Spends(r).family
    BY <1>9, <2>0, <2>3, <2>5, NextLabel
       DEF NoNewCreator, CreatorsHoldTheFamily, At, Continue, ClaimCode, ClaimToken
  <2>6. CreatorsHoldTheFamily'
    BY <2>2, <2>5 DEF CreatorsHoldTheFamily, At
  <2> QED
    BY <2>4, <2>6
<1>10. ASSUME UNCHANGED <<requests, tokens>>
       PROVE  OneActivePerFamily' /\ CreatorsHoldTheFamily'
  BY <1>1, <1>4, <1>10, NoRivals DEF NoNewCreator
<1> QED
  BY <1>5, <1>6, <1>7, <1>8, <1>9, <1>10 DEF Next, Environment, CodeExpires, vars

-----------------------------------------------------------------------------
(* What was disclosed, and what was closed.                                *)

LEMMA ClosedUntouched ==
    ASSUME NEW r \in Requests,
           Start(r) \/ Crash(r) \/ (Continue(r) /\ ~TokenSweep(r) /\ ~RevokeFamily(r))
    PROVE  UNCHANGED closed
BY DEF Start, AuthorizeCovered, AuthorizeAsks, RevokeConsent, ConsentReads,
       ExchangeMissing, ExchangeReplay, ExchangeExpired, ExchangeUnused,
       RefreshReplay, RefreshActive, RevokeToken, Crash, Continue,
       ConsentCreates, ConsentRegrants, ConsentMerges, MintCode, DeleteCode,
       CodeMarkClaimed, CodeMarkFinalized, CodeSweep, CodeGrantCheck, RejectCode, ClaimCode,
       TokenMarkRotating, TokenMarkRotated, TokenGrantCheck, RejectRefresh,
       ClaimToken, CreateToken, FinalizeCode, FinalizeToken, CheckCode, CheckTokens,
       Disclose, GrantGone, Burn, RevokeRow, RevokeGrant, RevokeCodes,
       RevokeTokens, history

LEMMA DisclosedUntouched ==
    ASSUME NEW r \in Requests,
           Start(r) \/ Crash(r) \/ (Continue(r) /\ ~Disclose(r))
    PROVE  UNCHANGED disclosed
BY DEF Start, AuthorizeCovered, AuthorizeAsks, RevokeConsent, ConsentReads,
       ExchangeMissing, ExchangeReplay, ExchangeExpired, ExchangeUnused,
       RefreshReplay, RefreshActive, RevokeToken, Crash, Continue,
       ConsentCreates, ConsentRegrants, ConsentMerges, MintCode, DeleteCode,
       CodeMarkClaimed, CodeMarkFinalized, CodeSweep, CodeGrantCheck, RejectCode, ClaimCode,
       TokenMarkRotating, TokenMarkRotated, TokenSweep, TokenGrantCheck, RejectRefresh,
       ClaimToken, CreateToken, FinalizeCode, FinalizeToken, CheckCode, CheckTokens,
       GrantGone, Burn, RevokeRow, RevokeFamily, RevokeGrant, RevokeCodes,
       RevokeTokens, history

\* A step discloses at most the row that its handler inserted and has checked.
LEMMA DisclosedGrows ==
    ASSUME [Next]_vars, NEW t \in disclosed', t \notin disclosed
    PROVE  \E r \in Requests : At(r, "check_grant") /\ requests[r].new = t /\ Disclose(r)
<1>1. ASSUME NEW r \in Requests, Start(r) \/ Continue(r) \/ Crash(r)
      PROVE  At(r, "check_grant") /\ requests[r].new = t /\ Disclose(r)
  BY <1>1, DisclosedUntouched DEF Disclose
<1> QED
  BY <1>1 DEF Next, Environment, CodeExpires, history, vars

LEMMA DisclosedStayExisting ==
    ASSUME IInv, [Next]_vars
    PROVE  DisclosedExist'
<1>0. TokensAdvance
  BY RowsAdvance DEF IInv
<1>1. ASSUME NEW t \in disclosed'
      PROVE  tokens'[t].status # "absent"
  <2>1. CASE t \in disclosed
    BY <1>0, <2>1 DEF IInv, TypeOK, DisclosedExist, TokensAdvance
  <2>2. CASE t \notin disclosed
    BY <1>0, <2>2, DisclosedGrows
       DEF IInv, HandlersWellFormed, HandlerWellFormed, MintLabels, At, TokensAdvance
  <2> QED
    BY <2>1, <2>2
<1> QED
  BY <1>1 DEF DisclosedExist

LEMMA MarkersStay ==
    ASSUME TokensAdvance, NEW f, TokenInvalidated(f)
    PROVE  TokenInvalidated(f)'
BY DEF TokenInvalidated, TokensAdvance

\* The handlers about to disclose t, after a step.
LEMMA NewCandidate ==
    ASSUME IInv, [Next]_vars, NEW q \in Requests, requests'[q].pc = "check_grant"
    PROVE  /\ requests'[q].new = requests[q].new
           /\ requests[q].pc \in {"check_tokens", "check_grant"}
           /\ requests[q].pc = "check_tokens" => ~TokenInvalidated(Spends(q).family)
<1> USE DEF IInv
<1>1. CASE requests'[q] = requests[q]
  BY <1>1
<1>2. CASE requests'[q] # requests[q]
  <2>1. PICK r \in Requests : Start(r) \/ Continue(r) \/ Crash(r)
    BY <1>2 DEF Next, Environment, CodeExpires, vars
  <2>2. q = r
    BY <1>2, <2>1, OneHandlerMoves
  <2>3. CheckTokens(q)
    BY <2>1, <2>2, NextLabel
  <2>4. PICK label : /\ label = IF TokenInvalidated(Spends(q).family) THEN "burn" ELSE "check_grant"
                     /\ Goto(q, label)
    BY <2>3 DEF CheckTokens
  <2>5. requests'[q].new = requests[q].new /\ requests'[q].pc = label
    BY <2>4 DEF Goto, TypeOK, Locals
  <2> QED
    BY <2>3, <2>4, <2>5 DEF CheckTokens, At
<1> QED
  BY <1>1, <1>2

LEMMA ClosedStaysMarkedInvariant ==
    ASSUME IInv, [Next]_vars
    PROVE  ClosedStaysMarked'
<1> USE DEF IInv
<1>0. TokensAdvance
  BY RowsAdvance
\* A row of a closed family that was active, and still is.
<1>1. ASSUME NEW t \in TokenIds, tokens[t].status = "active", tokens[t].family \in closed
      PROVE  /\ t \notin disclosed'
             /\ \A q \in Requests : requests'[q].pc = "check_grant" => requests'[q].new # t
  <2>1. /\ t \notin disclosed
        /\ \A q \in Requests : requests[q].pc = "check_grant" => requests[q].new # t
    BY <1>1 DEF ClosedStaysMarked, At
  <2>2. t \notin disclosed'
    BY <2>1, DisclosedGrows DEF At
  <2>3. ASSUME NEW q \in Requests, requests'[q].pc = "check_grant", requests'[q].new = t
        PROVE  FALSE
    <3>1. requests[q].new = t /\ requests[q].pc = "check_tokens"
      BY <2>1, <2>3, NewCandidate
    <3>2. tokens[t].family = Spends(q).family
      BY <3>1 DEF HandlersWellFormed, HandlerWellFormed, MintLabels
    <3>3. TokenInvalidated(tokens[t].family)
      BY <1>1 DEF ClosedStaysMarked
    <3> QED
      BY <2>3, <3>1, <3>2, <3>3, NewCandidate
  <2> QED
    BY <2>2, <2>3
<1>2. ASSUME NoNewActive, UNCHANGED closed
      PROVE  ClosedStaysMarked'
  <2>1. \A f \in closed' : TokenInvalidated(f)'
    BY <1>0, <1>2, MarkersStay DEF ClosedStaysMarked
  <2>2. ASSUME NEW t \in TokenIds, tokens'[t].family \in closed', tokens'[t].status = "active"
        PROVE  /\ t \notin disclosed'
               /\ \A q \in Requests : requests'[q].pc = "check_grant" => requests'[q].new # t
    BY <1>1, <1>2, <2>2 DEF NoNewActive
  <2> QED
    BY <2>1, <2>2 DEF ClosedStaysMarked, At
<1>3. ASSUME NEW r \in Requests, NEW status \in {"rotating", "revoked"},
             SweepFamily(tokens[requests[r].token].family, status),
             closed' = closed \cup {tokens[requests[r].token].family},
             requests[r].token \in TokenIds,
             tokens[requests[r].token].status \in {"compromised", "revoked"}
      PROVE  ClosedStaysMarked'
  <2> DEFINE f == tokens[requests[r].token].family
  <2>1. \A t \in TokenIds :
          tokens'[t].status = "active" =>
            tokens[t].status = "active" /\ tokens'[t].family = tokens[t].family
              /\ tokens[t].family # f
    BY <1>3 DEF SweepFamily, TypeOK, TokenRow
  <2>2. TokenInvalidated(f)
    BY <1>3 DEF TokenInvalidated
  <2>3. closed' = closed \cup {f}
    BY <1>3
  <2> HIDE DEF f
  <2>4. \A g \in closed' : TokenInvalidated(g)'
    BY <1>0, <2>2, <2>3, MarkersStay DEF ClosedStaysMarked
  <2>5. ASSUME NEW t \in TokenIds, tokens'[t].family \in closed', tokens'[t].status = "active"
        PROVE  /\ t \notin disclosed'
               /\ \A q \in Requests : requests'[q].pc = "check_grant" => requests'[q].new # t
    <3>1. tokens[t].status = "active" /\ tokens[t].family \in closed
      BY <2>1, <2>3, <2>5
    <3> QED
      BY <1>1, <3>1
  <2> QED
    BY <2>4, <2>5 DEF ClosedStaysMarked, At
<1>4. ASSUME NEW r \in Requests, Start(r) \/ Crash(r)
      PROVE  ClosedStaysMarked'
  BY <1>2, <1>4, ClosedUntouched, TokensUntouched DEF NoNewActive
<1>5. ASSUME NEW r \in Requests, Continue(r), ~CreateToken(r), ~TokenSweep(r), ~RevokeFamily(r)
      PROVE  ClosedStaysMarked'
  <2>1. NoNewActive
    BY <1>5, TokensUntouched, TokenStepsKeepFamilies
       DEF Continue, NoNewActive, TokensKeepFamilies
  <2> QED
    BY <1>2, <1>5, <2>1, ClosedUntouched
<1>6. ASSUME NEW r \in Requests, TokenSweep(r)
      PROVE  ClosedStaysMarked'
  BY <1>3, <1>6 DEF TokenSweep, At, HandlersWellFormed, HandlerWellFormed, TokenLabels,
     MarkersInProgress, MarkerInProgress
<1>7. ASSUME NEW r \in Requests, RevokeFamily(r)
      PROVE  ClosedStaysMarked'
  BY <1>3, <1>7 DEF RevokeFamily, At, HandlersWellFormed, HandlerWellFormed, TokenLabels,
     MarkersInProgress, MarkerInProgress
<1>8. ASSUME NEW r \in Requests, CreateToken(r)
      PROVE  ClosedStaysMarked'
  <2>1. PICK new \in TokenIds :
          /\ IsNextToken(new)
          /\ tokens' = [tokens EXCEPT ![new] =
                          [status |-> "active", owner |-> Spends(r).owner,
                           grant |-> Spends(r).grant, scope |-> requests[r].scope,
                           family |-> Spends(r).family]]
    BY <1>8 DEF CreateToken
  <2>2. UNCHANGED <<disclosed, closed>>
    BY <1>8 DEF CreateToken
  <2>3. tokens[new].status = "absent" /\ \A u \in TokenIds : u # new => tokens'[u] = tokens[u]
    BY <2>1 DEF IsNextToken, TypeOK
  <2>4. \A f \in closed' : TokenInvalidated(f)'
    BY <1>0, <2>2, MarkersStay DEF ClosedStaysMarked
  <2>5. /\ new \notin disclosed'
        /\ \A q \in Requests : requests'[q].pc = "check_grant" => requests'[q].new # new
    <3>1. new \notin disclosed'
      BY <2>2, <2>3 DEF DisclosedExist
    <3>2. ASSUME NEW q \in Requests, requests'[q].pc = "check_grant", requests'[q].new = new
          PROVE  FALSE
      <4>1. requests[q].new = new /\ requests[q].pc \in {"check_tokens", "check_grant"}
        BY <3>2, NewCandidate
      <4> QED
        BY <2>3, <4>1 DEF HandlersWellFormed, HandlerWellFormed, MintLabels
    <3> QED
      BY <3>1, <3>2
  <2>6. ASSUME NEW t \in TokenIds, tokens'[t].family \in closed', tokens'[t].status = "active"
        PROVE  /\ t \notin disclosed'
               /\ \A q \in Requests : requests'[q].pc = "check_grant" => requests'[q].new # t
    BY <1>1, <2>2, <2>3, <2>5, <2>6
  <2> QED
    BY <2>4, <2>6 DEF ClosedStaysMarked, At
<1>9. ASSUME UNCHANGED <<tokens, closed>>
      PROVE  ClosedStaysMarked'
  BY <1>2, <1>9 DEF NoNewActive
<1> QED
  BY <1>4, <1>5, <1>6, <1>7, <1>8, <1>9 DEF Next, Environment, CodeExpires, history, vars

-----------------------------------------------------------------------------
(* The theorems.                                                           *)

LEMMA InitialInvariant == Init => IInv
<1> SUFFICES ASSUME Init PROVE IInv
  OBVIOUS
<1>1. TypeOK
  BY InitialTypes
<1>2. HandlersWellFormed /\ MarkersInProgress /\ CreatorsHoldTheFamily
  BY DEF Init, Blank, HandlersWellFormed, HandlerWellFormed, MarkersInProgress,
     MarkerInProgress, CreatorsHoldTheFamily, At, CodeLabels, TokenLabels, MintLabels
<1>3. FamiliesWellFormed
  BY DEF Init, NoCode, NoToken, None, FamiliesWellFormed
<1>4. OneActivePerFamily /\ DisclosedExist /\ ClosedStaysMarked
  BY DEF Init, NoToken, OneActivePerFamily, DisclosedExist, ClosedStaysMarked
<1> QED
  BY <1>1, <1>2, <1>3, <1>4 DEF IInv

LEMMA InvariantStays == IInv /\ [Next]_vars => IInv'
<1> SUFFICES ASSUME IInv, [Next]_vars
             PROVE  IInv'
  OBVIOUS
<1>1. TypeOK'
  BY TypesPreserved DEF IInv
<1> QED
  BY <1>1, HandlersStayWellFormed, FamiliesStayWellFormed, OneActiveStays,
     DisclosedStayExisting, ClosedStaysMarkedInvariant DEF IInv

\* IInv is an invariant of the handlers of authorization_server.py, for any number of
\* requests, users, clients, codes and tokens.
THEOREM InductiveInvariant == Spec => []IInv
<1>1. Init => IInv
  BY InitialInvariant
<1>2. IInv /\ [Next]_vars => IInv'
  BY InvariantStays
<1> QED
  BY <1>1, <1>2, PTL DEF Spec

\* The rows, the handlers' local variables and the history stay within their types.
THEOREM TypeCorrect == Spec => []TypeOK
<1>1. IInv => TypeOK
  BY DEF IInv
<1> QED
  BY <1>1, InductiveInvariant, PTL

\* Rotation never forks a family: at most one row of a token family is active, whatever
\* the exchanges, refreshes, replays, revocations and crashes that interleave.
THEOREM NeverForked == Spec => []OneActivePerFamily
<1>1. IInv => OneActivePerFamily
  BY DEF IInv
<1> QED
  BY <1>1, InductiveInvariant, PTL

\* Once the revocation of a token, or the refusal of a replayed refresh token, is
\* answered, no credential of the family is accepted any more, the one a concurrent
\* rotation was inserting included.
THEOREM ClosedForGood == Spec => []ClosedFamilyIsDead
<1>1. IInv => ClosedFamilyIsDead
  BY DEF IInv, ClosedStaysMarked, ClosedFamilyIsDead, Live
<1> QED
  BY <1>1, InductiveInvariant, PTL
=============================================================================
