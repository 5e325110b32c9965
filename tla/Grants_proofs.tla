----------------------------- MODULE Grants_proofs -----------------------------
(***************************************************************************)
(* The credentials of AuthorizationServer and the grants they belong to:   *)
(* the proof that a credential is exchanged once, that what is disclosed   *)
(* was paid for, that replays and withdrawn consents leave nothing alive,  *)
(* and that the handlers implement TokenFamily.  IInv is known to be       *)
(* inductive (TokenFamilies_proofs); GrantsInvariant adds what it lacks.   *)
(***************************************************************************)
EXTENDS TokenFamilies_proofs, FiniteSetTheorems

-----------------------------------------------------------------------------
(* Rows, once more: who a row belongs to never changes, and a code that was *)
(* finalized, compromised or deleted stays so.                              *)

SpentCode == {"finalized", "compromised", "deleted"}
SpentToken == {"rotated", "compromised", "revoked"}

CodesKept ==
    \A c \in CodeIds : codes[c].status # "absent" =>
       /\ codes'[c].owner = codes[c].owner
       /\ codes'[c].grant = codes[c].grant
       /\ codes[c].status \in SpentCode => codes'[c].status \in SpentCode
       /\ codes[c].status \in {"compromised", "deleted"} =>
            codes'[c].status \in {"compromised", "deleted"}
       /\ codes[c].status = "deleted" => codes'[c].status = "deleted"

TokensKept ==
    \A t \in TokenIds : tokens[t].status # "absent" =>
       /\ tokens'[t].owner = tokens[t].owner
       /\ tokens'[t].grant = tokens[t].grant
       /\ parent'[t] = parent[t]

LEMMA CodeStepsKeep ==
    ASSUME TypeOK, NEW r \in Requests,
           \/ MintCode(r) \/ DeleteCode(r) \/ CodeMarkClaimed(r) \/ CodeMarkFinalized(r)
           \/ ClaimCode(r) \/ FinalizeCode(r) \/ RevokeCodes(r)
    PROVE  CodesKept
<1> USE DEF CodesKept, SpentCode, TypeOK, CodeRow
<1>1. CASE MintCode(r)
  BY <1>1 DEF MintCode, IsNextCode
<1>2. CASE DeleteCode(r)
  BY <1>2 DEF DeleteCode
<1>3. CASE CodeMarkClaimed(r)
  BY <1>3 DEF CodeMarkClaimed
<1>4. CASE CodeMarkFinalized(r)
  BY <1>4 DEF CodeMarkFinalized
<1>5. CASE ClaimCode(r)
  <2>1. CASE codes[requests[r].code].status = "unused"
    <3>1. ASSUME NEW c \in CodeIds
          PROVE  \/ codes'[c] = codes[c]
                 \/ /\ codes[c].status = "unused"
                    /\ codes'[c] = [codes[c] EXCEPT !.status = "claimed",
                                                   !.family = lastFamily + 1]
      BY <1>5, <2>1 DEF ClaimCode
    <3>2. \A row \in CodeRow : LET claimed == [row EXCEPT !.status = "claimed",
                                                         !.family = lastFamily + 1]
                              IN claimed.owner = row.owner /\ claimed.grant = row.grant
      OBVIOUS
    <3> QED
      BY <3>1, <3>2
  <2>2. CASE codes[requests[r].code].status # "unused"
    BY <1>5, <2>2 DEF ClaimCode
  <2> QED
    BY <2>1, <2>2
<1>6. CASE FinalizeCode(r)
  BY <1>6 DEF FinalizeCode
<1>7. CASE RevokeCodes(r)
  BY <1>7 DEF RevokeCodes
<1> QED
  BY <1>1, <1>2, <1>3, <1>4, <1>5, <1>6, <1>7

LEMMA ParentsUntouched ==
    ASSUME NEW r \in Requests,
           Start(r) \/ Crash(r) \/ (Continue(r) /\ ~CreateToken(r))
    PROVE  UNCHANGED parent
BY DEF Start, AuthorizeCovered, AuthorizeAsks, RevokeConsent, ConsentReads,
       ExchangeMissing, ExchangeReplay, ExchangeExpired, ExchangeUnused,
       RefreshReplay, RefreshActive, RevokeToken, Crash, Continue,
       ConsentCreates, ConsentRegrants, ConsentMerges, MintCode, DeleteCode,
       CodeMarkClaimed, CodeMarkFinalized, CodeSweep, CodeGrantCheck, RejectCode, ClaimCode,
       TokenMarkRotating, TokenMarkRotated, TokenSweep, TokenGrantCheck, RejectRefresh,
       ClaimToken, FinalizeCode, FinalizeToken, CheckCode, CheckTokens,
       Disclose, GrantGone, Burn, RevokeRow, RevokeFamily, RevokeGrant, RevokeCodes,
       RevokeTokens, history

LEMMA TokenStepsKeep ==
    ASSUME TypeOK, NEW r \in Requests,
           \/ CodeSweep(r) \/ TokenMarkRotating(r) \/ TokenMarkRotated(r) \/ TokenSweep(r)
           \/ ClaimToken(r) \/ CreateToken(r) \/ FinalizeToken(r) \/ Burn(r)
           \/ RevokeRow(r) \/ RevokeFamily(r) \/ RevokeTokens(r)
    PROVE  TokensKept
<1>1. ASSUME UNCHANGED parent, NEW f, NEW status, SweepFamily(f, status)
      PROVE  TokensKept
  BY <1>1 DEF SweepFamily, TokensKept, TypeOK, TokenRow
<1>2. CASE CodeSweep(r)
  BY <1>1, <1>2 DEF CodeSweep
<1>3. CASE TokenSweep(r)
  BY <1>1, <1>3 DEF TokenSweep
<1>4. CASE Burn(r)
  BY <1>1, <1>4 DEF Burn, history
<1>5. CASE RevokeFamily(r)
  BY <1>1, <1>5 DEF RevokeFamily
<1>6. CASE TokenMarkRotating(r)
  BY <1>6 DEF TokenMarkRotating, history, TokensKept, TypeOK, TokenRow
<1>7. CASE TokenMarkRotated(r)
  BY <1>7 DEF TokenMarkRotated, history, TokensKept, TypeOK, TokenRow
<1>8. CASE ClaimToken(r)
  BY <1>8 DEF ClaimToken, history, TokensKept, TypeOK, TokenRow
<1>9. CASE CreateToken(r)
  BY <1>9 DEF CreateToken, IsNextToken, TokensKept, TypeOK, TokenRow
<1>10. CASE FinalizeToken(r)
  BY <1>10 DEF FinalizeToken, history, TokensKept, TypeOK, TokenRow
<1>11. CASE RevokeRow(r)
  BY <1>11 DEF RevokeRow, history, TokensKept, TypeOK, TokenRow
<1>12. CASE RevokeTokens(r)
  BY <1>12 DEF RevokeTokens, TokensKept, TypeOK, TokenRow
<1> QED
  BY <1>2, <1>3, <1>4, <1>5, <1>6, <1>7, <1>8, <1>9, <1>10, <1>11, <1>12

LEMMA RowsKept ==
    ASSUME TypeOK, [Next]_vars
    PROVE  CodesKept /\ TokensKept
<1>1. ASSUME UNCHANGED codes
      PROVE  CodesKept
  BY <1>1 DEF CodesKept
<1>2. ASSUME UNCHANGED <<tokens, parent>>
      PROVE  TokensKept
  BY <1>2 DEF TokensKept
<1>3. ASSUME NEW r \in Requests, Start(r) \/ Crash(r)
      PROVE  CodesKept /\ TokensKept
  BY <1>1, <1>2, <1>3, CodesUntouched, TokensUntouched, ParentsUntouched
<1>4. ASSUME NEW r \in Requests, Continue(r)
      PROVE  CodesKept /\ TokensKept
  <2>1. CodesKept
    BY <1>1, <1>4, CodesUntouched, CodeStepsKeep DEF Continue
  <2>2. TokensKept
    BY <1>2, <1>4, TokensUntouched, ParentsUntouched, TokenStepsKeep DEF Continue
  <2> QED
    BY <2>1, <2>2
<1>5. ASSUME NEW c \in CodeIds, CodeExpires(c)
      PROVE  CodesKept /\ TokensKept
  <2>1. CodesKept
    BY <1>5 DEF CodeExpires, CodesKept, TypeOK, CodeRow
  <2> QED
    BY <1>2, <1>5, <2>1 DEF CodeExpires, history
<1>6. CASE UNCHANGED vars
  BY <1>1, <1>2, <1>6 DEF vars
<1> QED
  BY <1>3, <1>4, <1>5, <1>6 DEF Next, Environment

-----------------------------------------------------------------------------
(* Where a step takes a handler.                                           *)

StartLabels == {"idle", "consent_create", "consent_regrant", "consent_merge", "mint_code",
                "revoke_grant", "code_mark_claimed", "delete_code", "code_grant",
                "token_mark_rotating", "token_grant", "revoke_row"}

LEMMA StartLands ==
    ASSUME TypeOK, NEW r \in Requests, Start(r)
    PROVE  requests'[r].pc \in StartLabels
<1> USE DEF StartLabels
<1>1. ASSUME NEW o \in Owner, NEW s \in ScopeSets,
             AuthorizeCovered(r, o, s) \/ AuthorizeAsks(r, o, s)
      PROVE  requests'[r].pc \in StartLabels
  <2>1. CASE AuthorizeCovered(r, o, s)
    BY <2>1 DEF AuthorizeCovered, Begin, TypeOK, Blank
  <2>2. CASE AuthorizeAsks(r, o, s)
    BY <2>2 DEF AuthorizeAsks, Arrives, At
  <2> QED
    BY <1>1, <2>1, <2>2
<1>2. ASSUME NEW o \in Owner, RevokeConsent(r, o)
      PROVE  requests'[r].pc \in StartLabels
  BY <1>2 DEF RevokeConsent, Begin, TypeOK, Blank
<1>3. ASSUME NEW cookie \in cookies, ConsentReads(r, cookie)
      PROVE  requests'[r].pc \in StartLabels
  <2> DEFINE existing == consents[cookie[1]]
  <2>1. existing.status \in {"absent", "revoked", "granted"}
    BY DEF TypeOK, ConsentRow
  <2>2. requests'[r].pc = (CASE existing.status = "absent" -> "consent_create"
                             [] existing.status = "revoked" -> "consent_regrant"
                             [] existing.status = "granted" -> "consent_merge")
    BY <1>3 DEF ConsentReads, Begin, TypeOK, Blank
  <2> HIDE DEF existing
  <2> QED
    BY <2>1, <2>2
<1>4. ASSUME NEW c \in CodeIds,
             \/ ExchangeMissing(r, c) \/ ExchangeReplay(r, c)
             \/ ExchangeExpired(r, c) \/ ExchangeUnused(r, c)
      PROVE  requests'[r].pc \in StartLabels
  <2>1. CASE ExchangeMissing(r, c)
    BY <2>1 DEF ExchangeMissing, Arrives, At
  <2>2. CASE ExchangeReplay(r, c)
    BY <2>2 DEF ExchangeReplay, Begin, TypeOK, Blank
  <2>3. CASE ExchangeExpired(r, c)
    BY <2>3 DEF ExchangeExpired, Begin, TypeOK, Blank
  <2>4. CASE ExchangeUnused(r, c)
    BY <2>4 DEF ExchangeUnused, Begin, TypeOK, Blank
  <2> QED
    BY <1>4, <2>1, <2>2, <2>3, <2>4
<1>5. ASSUME NEW t \in TokenIds,
             RefreshReplay(r, t) \/ RefreshActive(r, t) \/ RevokeToken(r, t)
      PROVE  requests'[r].pc \in StartLabels
  <2>1. CASE RefreshActive(r, t)
    BY <2>1 DEF RefreshActive, Begin, TypeOK, Blank
  <2>2. CASE RefreshReplay(r, t)
    BY <2>2 DEF RefreshReplay, Begin, TypeOK, Blank
  <2>3. CASE RevokeToken(r, t)
    BY <2>3 DEF RevokeToken, Begin, TypeOK, Blank
  <2> QED
    BY <1>5, <2>1, <2>2, <2>3
<1> QED
  BY <1>1, <1>2, <1>3, <1>4, <1>5, Zenon DEF Start

LEMMA GotoLands ==
    ASSUME TypeOK, NEW r \in Requests, NEW label, Goto(r, label)
    PROVE  /\ requests'[r].pc = label
           /\ requests'[r].code = requests[r].code
           /\ requests'[r].token = requests[r].token
           /\ requests'[r].new = requests[r].new
           /\ requests'[r].owner = requests[r].owner
           /\ requests'[r].grant = requests[r].grant
BY DEF Goto, TypeOK, Locals

LEMMA ReturnLands ==
    ASSUME TypeOK, NEW r \in Requests, Return(r)
    PROVE  requests'[r].pc = "idle"
BY DEF Return, TypeOK, Blank

LEMMA GrantsLands ==
    ASSUME TypeOK, NEW r \in Requests, NEW o, Grants(r, o)
    PROVE  /\ requests'[r].pc = "mint_code"
           /\ requests'[r].owner = requests[r].owner
           /\ requests'[r].grant = lastGrant + 1
<1>1. requests'[r] = [requests[r] EXCEPT !.pc = "mint_code", !.grant = lastGrant + 1]
  BY DEF Grants, TypeOK
<1> QED
  BY <1>1 DEF TypeOK, Locals

LEMMA RevokeGrantLands ==
    ASSUME TypeOK, NEW r \in Requests, RevokeGrant(r)
    PROVE  /\ requests'[r].pc = "revoke_codes"
           /\ requests'[r].owner = requests[r].owner
           /\ requests'[r].grant = lastGrant + 1
<1>1. requests'[r] = [requests[r] EXCEPT !.pc = "revoke_codes", !.grant = lastGrant + 1]
  BY DEF RevokeGrant, TypeOK
<1> QED
  BY <1>1 DEF TypeOK, Locals

LEMMA ClaimCodeLands ==
    ASSUME TypeOK, NEW r \in Requests, ClaimCode(r)
    PROVE  \/ requests'[r].pc = "idle"
           \/ /\ codes[requests[r].code].status = "unused"
              /\ requests'[r].pc = "create"
              /\ requests'[r].code = requests[r].code
              /\ requests'[r].token = requests[r].token
<1>1. CASE Return(r)
  BY <1>1, ReturnLands
<1>2. CASE ~Return(r)
  <2>1. requests'[r] = [requests[r] EXCEPT !.pc = "create",
                                           !.scope = codes[requests[r].code].scope]
    BY <1>2 DEF ClaimCode, TypeOK
  <2>2. codes[requests[r].code].status = "unused"
    BY <1>2 DEF ClaimCode
  <2> QED
    BY <2>1, <2>2 DEF TypeOK, Locals
<1> QED
  BY <1>1, <1>2

LEMMA CreateTokenLands ==
    ASSUME TypeOK, NEW r \in Requests, CreateToken(r)
    PROVE  /\ requests'[r].pc = "finalize"
           /\ requests'[r].code = requests[r].code
           /\ requests'[r].token = requests[r].token
           /\ LET t == requests'[r].new IN
              /\ t \in TokenIds
              /\ tokens[t].status = "absent"
              /\ tokens' = [tokens EXCEPT ![t] =
                              [status |-> "active", owner |-> Spends(r).owner,
                               grant |-> Spends(r).grant, scope |-> requests[r].scope,
                               family |-> Spends(r).family]]
              /\ parent' = [parent EXCEPT ![t] = [code |-> requests[r].code,
                                                  token |-> requests[r].token]]
<1>1. PICK t \in TokenIds :
        /\ tokens[t].status = "absent"
        /\ tokens' = [tokens EXCEPT ![t] =
                        [status |-> "active", owner |-> Spends(r).owner,
                         grant |-> Spends(r).grant, scope |-> requests[r].scope,
                         family |-> Spends(r).family]]
        /\ parent' = [parent EXCEPT ![t] = [code |-> requests[r].code,
                                            token |-> requests[r].token]]
        /\ requests' = [requests EXCEPT ![r] = [@ EXCEPT !.pc = "finalize", !.new = t]]
  BY DEF CreateToken, IsNextToken
<1>2. requests'[r] = [requests[r] EXCEPT !.pc = "finalize", !.new = t]
  BY <1>1 DEF TypeOK
<1>3. /\ requests'[r].pc = "finalize" /\ requests'[r].new = t
      /\ requests'[r].code = requests[r].code /\ requests'[r].token = requests[r].token
  BY <1>2 DEF TypeOK, Locals
<1> QED
  BY <1>1, <1>3

LEMMA CreatedRow ==
    ASSUME TypeOK, NEW r \in Requests, CreateToken(r)
    PROVE  LET row == tokens'[requests'[r].new] IN
           /\ row.status = "active"
           /\ row.owner = Spends(r).owner
           /\ row.grant = Spends(r).grant
           /\ row.family = Spends(r).family
<1>1. tokens'[requests'[r].new] =
        [status |-> "active", owner |-> Spends(r).owner, grant |-> Spends(r).grant,
         scope |-> requests[r].scope, family |-> Spends(r).family]
  BY CreateTokenLands DEF TypeOK
<1> QED
  BY <1>1

\* The label each step of a handler can leave it at.
LEMMA ContinueLands ==
    ASSUME TypeOK, NEW r \in Requests
    PROVE  /\ ConsentCreates(r) => requests'[r].pc \in {"mint_code", "idle"}
           /\ ConsentRegrants(r) \/ ConsentMerges(r) => requests'[r].pc = "mint_code"
           /\ \/ MintCode(r) \/ DeleteCode(r) \/ CodeSweep(r) \/ RejectCode(r)
              \/ TokenSweep(r) \/ RejectRefresh(r) \/ Disclose(r) \/ Burn(r)
              \/ RevokeFamily(r) \/ RevokeTokens(r) \/ Crash(r)
              => requests'[r].pc = "idle"
           /\ CodeMarkClaimed(r) => requests'[r].pc \in {"code_sweep", "code_mark_finalized"}
           /\ CodeMarkFinalized(r) => requests'[r].pc = "code_sweep"
           /\ CodeGrantCheck(r) => requests'[r].pc \in {"code_claim", "idle"}
           /\ ClaimCode(r) \/ ClaimToken(r) => requests'[r].pc \in {"create", "idle"}
           /\ TokenMarkRotating(r) => requests'[r].pc \in {"token_sweep", "token_mark_rotated"}
           /\ TokenMarkRotated(r) => requests'[r].pc = "token_sweep"
           /\ TokenGrantCheck(r) => requests'[r].pc \in {"token_claim", "idle"}
           /\ CreateToken(r) => requests'[r].pc = "finalize"
           /\ FinalizeCode(r) \/ FinalizeToken(r) => requests'[r].pc \in {"check_code", "burn"}
           /\ CheckCode(r) => requests'[r].pc \in {"check_tokens", "burn"}
           /\ CheckTokens(r) => requests'[r].pc \in {"check_grant", "burn"}
           /\ GrantGone(r) => requests'[r].pc = "burn"
           /\ RevokeRow(r) => requests'[r].pc = "revoke_family"
           /\ RevokeGrant(r) => requests'[r].pc = "revoke_codes"
           /\ RevokeCodes(r) => requests'[r].pc = "revoke_tokens"
<1>1. ASSUME NEW label, Goto(r, label)
      PROVE  requests'[r].pc = label
  BY <1>1, GotoLands
<1>2. ASSUME Return(r)
      PROVE  requests'[r].pc = "idle"
  BY <1>2, ReturnLands
<1>3. /\ ConsentCreates(r) => requests'[r].pc \in {"mint_code", "idle"}
      /\ ConsentRegrants(r) \/ ConsentMerges(r) => requests'[r].pc = "mint_code"
  BY <1>1, <1>2, GrantsLands DEF ConsentCreates, ConsentRegrants, ConsentMerges
<1>4. \/ MintCode(r) \/ DeleteCode(r) \/ CodeSweep(r) \/ RejectCode(r)
      \/ TokenSweep(r) \/ RejectRefresh(r) \/ Disclose(r) \/ Burn(r)
      \/ RevokeFamily(r) \/ RevokeTokens(r) \/ Crash(r)
      => requests'[r].pc = "idle"
  BY <1>2 DEF MintCode, DeleteCode, CodeSweep, RejectCode, TokenSweep, RejectRefresh,
     Disclose, Burn, RevokeFamily, RevokeTokens, Crash
<1>5. /\ CodeMarkClaimed(r) => requests'[r].pc \in {"code_sweep", "code_mark_finalized"}
      /\ CodeMarkFinalized(r) => requests'[r].pc = "code_sweep"
      /\ CodeGrantCheck(r) => requests'[r].pc \in {"code_claim", "idle"}
  BY <1>1, <1>2 DEF CodeMarkClaimed, CodeMarkFinalized, CodeGrantCheck
<1>6. /\ TokenMarkRotating(r) => requests'[r].pc \in {"token_sweep", "token_mark_rotated"}
      /\ TokenMarkRotated(r) => requests'[r].pc = "token_sweep"
      /\ TokenGrantCheck(r) => requests'[r].pc \in {"token_claim", "idle"}
      /\ RevokeRow(r) => requests'[r].pc = "revoke_family"
  BY <1>1, <1>2 DEF TokenMarkRotating, TokenMarkRotated, TokenGrantCheck, RevokeRow
<1>7. ClaimCode(r) \/ ClaimToken(r) => requests'[r].pc \in {"create", "idle"}
  BY <1>1, <1>2, ClaimCodeLands DEF ClaimToken
<1>8. /\ FinalizeCode(r) \/ FinalizeToken(r) => requests'[r].pc \in {"check_code", "burn"}
      /\ GrantGone(r) => requests'[r].pc = "burn"
      /\ RevokeCodes(r) => requests'[r].pc = "revoke_tokens"
  BY <1>1 DEF FinalizeCode, FinalizeToken, GrantGone, RevokeCodes
<1>9. /\ CheckCode(r) => requests'[r].pc \in {"check_tokens", "burn"}
      /\ CheckTokens(r) => requests'[r].pc \in {"check_grant", "burn"}
  BY <1>1 DEF CheckCode, CheckTokens
<1> QED
  BY <1>3, <1>4, <1>5, <1>6, <1>7, <1>8, <1>9, CreateTokenLands, RevokeGrantLands

\* So the label tells the step that has led to it.
LEMMA CameFrom ==
    ASSUME TypeOK, NEW r \in Requests, Start(r) \/ Continue(r) \/ Crash(r)
    PROVE  LET label == requests'[r].pc IN
           /\ label = "create" => ClaimCode(r) \/ ClaimToken(r)
           /\ label = "finalize" => CreateToken(r)
           /\ label = "check_code" => FinalizeCode(r) \/ FinalizeToken(r)
           /\ label = "check_tokens" => CheckCode(r)
           /\ label = "check_grant" => CheckTokens(r)
           /\ label = "burn" => \/ FinalizeCode(r) \/ FinalizeToken(r) \/ CheckCode(r)
                                \/ CheckTokens(r) \/ GrantGone(r)
           /\ label = "code_mark_claimed" => Start(r)
           /\ label = "code_mark_finalized" => CodeMarkClaimed(r)
           /\ label = "code_sweep" => CodeMarkClaimed(r) \/ CodeMarkFinalized(r)
           /\ label \in {"consent_create", "consent_regrant", "consent_merge", "revoke_grant"}
                => Start(r)
           /\ label = "mint_code" =>
                \/ Start(r) \/ ConsentCreates(r) \/ ConsentRegrants(r) \/ ConsentMerges(r)
           /\ label = "revoke_codes" => RevokeGrant(r)
           /\ label = "revoke_tokens" => RevokeCodes(r)
BY ContinueLands, StartLands DEF Continue, StartLabels

\* A handler that a step has changed is the one that took it.
LEMMA MovedHandlerStepped ==
    ASSUME TypeOK, [Next]_vars, NEW q \in Requests, requests'[q] # requests[q]
    PROVE  Start(q) \/ Continue(q) \/ Crash(q)
<1>1. PICK r \in Requests : Start(r) \/ Continue(r) \/ Crash(r)
  BY DEF Next, Environment, CodeExpires, vars
<1>2. q = r
  BY <1>1, OneHandlerMoves
<1> QED
  BY <1>1, <1>2

-----------------------------------------------------------------------------
(* What a token row was exchanged for.                                     *)

CheckLabels == {"check_code", "check_tokens", "check_grant"}

\* The credential that a handler has claimed, or is about to.
Presented(r) == [code |-> requests[r].code, token |-> requests[r].token]

Claimed(p) ==
    \/ /\ p.code \in CodeIds
       /\ p.token = None
       /\ codes[p.code].family # None
    \/ /\ p.code = None
       /\ p.token \in TokenIds
       /\ tokens[p.token].status \notin {"absent", "active"}

Spent(p) ==
    \/ /\ p.code \in CodeIds
       /\ p.token = None
       /\ codes[p.code].status \in SpentCode
    \/ /\ p.code = None
       /\ p.token \in TokenIds
       /\ tokens[p.token].status \in SpentToken

\* No row was exchanged for a credential that can still be claimed, nor for one that a
\* handler has claimed and not used yet.
ParentsAreClaimed ==
    /\ \A t \in TokenIds : tokens[t].status # "absent" => Claimed(parent[t])
    /\ \A r \in Requests, t \in TokenIds :
         At(r, "create") /\ tokens[t].status # "absent" => parent[t] # Presented(r)

\* A handler has inserted its row for the credential it claimed, and goes on to the
\* last checks only after it has finalized that credential.
ParentIsKnown(r) ==
    /\ requests[r].pc \in MintLabels \ {"create"} => parent[requests[r].new] = Presented(r)
    /\ requests[r].pc \in CheckLabels => Spent(Presented(r))
ParentsAreKnown == \A r \in Requests : ParentIsKnown(r)

DisclosedAreSpent == \A t \in disclosed : Spent(parent[t])

ParentsInv ==
    /\ ExchangedOnce
    /\ ParentsAreClaimed
    /\ ParentsAreKnown
    /\ DisclosedAreSpent

\* Only _mint_tokens inserts a row.
LEMMA AbsentStays ==
    ASSUME TypeOK, HandlersWellFormed, NEW r \in Requests,
           \/ CodeSweep(r) \/ TokenMarkRotating(r) \/ TokenMarkRotated(r) \/ TokenSweep(r)
           \/ ClaimToken(r) \/ FinalizeToken(r) \/ Burn(r)
           \/ RevokeRow(r) \/ RevokeFamily(r) \/ RevokeTokens(r),
           NEW t \in TokenIds, tokens[t].status = "absent"
    PROVE  tokens'[t].status = "absent"
<1>1. CASE CodeSweep(r) \/ TokenSweep(r) \/ Burn(r) \/ RevokeFamily(r)
  BY <1>1 DEF CodeSweep, TokenSweep, Burn, RevokeFamily, SweepFamily
<1>2. CASE TokenMarkRotating(r)
  BY <1>2 DEF TokenMarkRotating, TypeOK, TokenRow
<1>3. CASE TokenMarkRotated(r)
  BY <1>3 DEF TokenMarkRotated, TypeOK, TokenRow
<1>4. CASE ClaimToken(r)
  BY <1>4 DEF ClaimToken, TypeOK, TokenRow
<1>5. CASE FinalizeToken(r)
  BY <1>5 DEF FinalizeToken, TypeOK, TokenRow
<1>6. CASE RevokeRow(r)
  BY <1>6 DEF RevokeRow, TypeOK, TokenRow, At, HandlersWellFormed, HandlerWellFormed,
     TokenLabels
<1>7. CASE RevokeTokens(r)
  BY <1>7 DEF RevokeTokens
<1> QED
  BY <1>1, <1>2, <1>3, <1>4, <1>5, <1>6, <1>7

LEMMA NewRowIsCreated ==
    ASSUME TypeOK, HandlersWellFormed, [Next]_vars, NEW t \in TokenIds,
           tokens[t].status = "absent", tokens'[t].status # "absent"
    PROVE  \E r \in Requests : CreateToken(r) /\ requests'[r].new = t
<1>1. ~UNCHANGED tokens
  OBVIOUS
<1>2. PICK r \in Requests : Continue(r)
  BY <1>1, TokensUntouched DEF Next, Environment, CodeExpires, vars
<1>3. CreateToken(r)
  BY <1>1, <1>2, TokensUntouched, AbsentStays DEF Continue
<1>4. tokens'[t] # tokens[t]
  OBVIOUS
<1>5. requests'[r].new = t
  BY <1>3, <1>4, CreateTokenLands DEF TypeOK
<1> QED
  BY <1>3, <1>5

LEMMA SpentStays ==
    ASSUME TypeOK, CodesKept, TokensAdvance, NEW p, Spent(p)
    PROVE  \/ /\ p.code \in CodeIds
              /\ p.token = None
              /\ codes'[p.code].status \in SpentCode
           \/ /\ p.code = None
              /\ p.token \in TokenIds
              /\ tokens'[p.token].status \in SpentToken
<1>1. CASE p.code \in CodeIds
  BY <1>1, IdTypes DEF Spent, SpentCode, CodesKept
<1>2. CASE p.code = None
  BY <1>2, IdTypes DEF Spent, SpentToken, TokensAdvance
<1> QED
  BY <1>1, <1>2 DEF Spent

\* The local variables of a handler that is minting, after a step.
LEMMA MintingLocals ==
    ASSUME TypeOK, [Next]_vars, NEW q \in Requests, requests'[q].pc \in MintLabels
    PROVE  /\ requests'[q].code = requests[q].code
           /\ requests'[q].token = requests[q].token
           /\ \/ requests'[q] = requests[q]
              \/ requests'[q].pc = "create" /\ (ClaimCode(q) \/ ClaimToken(q))
              \/ requests'[q].pc = "finalize" /\ CreateToken(q)
              \/ /\ requests'[q].pc \notin {"create", "finalize"}
                 /\ requests'[q].new = requests[q].new
                 /\ requests[q].pc \in MintLabels \ {"create"}
                 /\ \/ FinalizeCode(q) \/ FinalizeToken(q) \/ CheckCode(q)
                    \/ CheckTokens(q) \/ GrantGone(q)
<1>1. CASE requests'[q] = requests[q]
  BY <1>1
<1>2. CASE requests'[q] # requests[q]
  <2>1. Start(q) \/ Continue(q) \/ Crash(q)
    BY <1>2, MovedHandlerStepped
  <2>2. CASE requests'[q].pc = "create"
    <3>1. CASE ClaimCode(q)
      BY <2>2, <3>1, ClaimCodeLands
    <3>2. CASE ClaimToken(q)
      BY <2>2, <3>2, GotoLands, ReturnLands DEF ClaimToken
    <3> QED
      BY <2>1, <2>2, <3>1, <3>2, CameFrom
  <2>3. CASE requests'[q].pc = "finalize"
    BY <2>1, <2>3, CameFrom, CreateTokenLands
  <2>4. CASE requests'[q].pc \in MintLabels \ {"create", "finalize"}
    <3>1. \/ FinalizeCode(q) \/ FinalizeToken(q) \/ CheckCode(q)
          \/ CheckTokens(q) \/ GrantGone(q)
      BY <2>1, <2>4, CameFrom DEF MintLabels
    <3>2. requests[q].pc \in MintLabels \ {"create"}
      BY <3>1 DEF FinalizeCode, FinalizeToken, CheckCode, CheckTokens, GrantGone, At,
         MintLabels
    <3>3. \E label : Goto(q, label)
      BY <3>1 DEF FinalizeCode, FinalizeToken, CheckCode, CheckTokens, GrantGone
    <3> QED
      BY <2>4, <3>1, <3>2, <3>3, GotoLands
  <2> QED
    BY <2>2, <2>3, <2>4
<1> QED
  BY <1>1, <1>2

\* A credential that is being minted from has been claimed.
LEMMA PresentedIsClaimed ==
    ASSUME TypeOK, HandlersWellFormed, NEW r \in Requests, requests[r].pc \in MintLabels
    PROVE  Claimed(Presented(r))
BY DEF HandlersWellFormed, HandlerWellFormed, Claimed, Presented

LEMMA ClaimedStays ==
    ASSUME TypeOK, FamiliesWellFormed, CodesAdvance, TokensAdvance, NEW p, Claimed(p)
    PROVE  \/ /\ p.code \in CodeIds
              /\ p.token = None
              /\ codes'[p.code].family # None
           \/ /\ p.code = None
              /\ p.token \in TokenIds
              /\ tokens'[p.token].status \notin {"absent", "active"}
BY IdTypes DEF Claimed, CodesAdvance, TokensAdvance

\* Two handlers never hold the same claim.
LEMMA CreatorsDiffer ==
    ASSUME CreatorsHoldTheFamily, NEW r \in Requests, NEW q \in Requests,
           requests[r].pc = "create", requests[q].pc = "create",
           requests[r].code = requests[q].code, requests[r].token = requests[q].token
    PROVE  q = r
BY DEF CreatorsHoldTheFamily, At, Spends

LEMMA ParentsStayClaimed ==
    ASSUME IInv, ParentsInv, [Next]_vars
    PROVE  ParentsAreClaimed'
<1> USE DEF IInv, ParentsInv
<1>0. CodesAdvance /\ TokensAdvance /\ TokensKept
  BY RowsAdvance, RowsKept
<1>1. ASSUME NEW t \in TokenIds, tokens'[t].status # "absent"
      PROVE  Claimed(parent[t])'
  <2>1. CASE tokens[t].status # "absent"
    <3>1. Claimed(parent[t]) /\ parent'[t] = parent[t]
      BY <1>0, <2>1 DEF ParentsAreClaimed, TokensKept
    <3> QED
      BY <1>0, <3>1, ClaimedStays DEF Claimed
  <2>2. CASE tokens[t].status = "absent"
    <3>1. PICK r \in Requests : CreateToken(r) /\ requests'[r].new = t
      BY <1>1, <2>2, NewRowIsCreated
    <3>2. parent'[t] = Presented(r)
      BY <3>1, CreateTokenLands DEF TypeOK, Presented
    <3>3. Claimed(Presented(r))
      BY <3>1, PresentedIsClaimed DEF CreateToken, At, MintLabels
    <3> QED
      BY <1>0, <3>2, <3>3, ClaimedStays DEF Claimed
  <2> QED
    BY <2>1, <2>2
<1>2. ASSUME NEW r \in Requests, NEW t \in TokenIds,
             requests'[r].pc = "create", tokens'[t].status # "absent",
             parent'[t] = Presented(r)'
      PROVE  FALSE
  <2>0. /\ requests'[r].code = requests[r].code
        /\ requests'[r].token = requests[r].token
        /\ requests'[r] = requests[r] \/ ClaimCode(r) \/ ClaimToken(r)
    BY <1>2, MintingLocals DEF MintLabels
  <2>1. Presented(r)' = Presented(r)
    BY <2>0 DEF Presented
  <2>2. CASE requests'[r] = requests[r]
    <3>1. CASE tokens[t].status # "absent"
      BY <1>0, <1>2, <2>1, <2>2, <3>1 DEF ParentsAreClaimed, TokensKept, At
    <3>2. CASE tokens[t].status = "absent"
      <4>1. PICK q \in Requests : CreateToken(q) /\ requests'[q].new = t
        BY <1>2, <3>2, NewRowIsCreated
      <4>2. Presented(q) = Presented(r)
        BY <1>2, <2>1, <4>1, CreateTokenLands DEF TypeOK, Presented
      <4>3. q = r
        BY <1>2, <2>2, <4>1, <4>2, CreatorsDiffer DEF CreateToken, At, Presented
      <4> QED
        BY <1>2, <4>1, <4>3, CreateTokenLands
    <3> QED
      BY <3>1, <3>2
  <2>3. CASE ClaimCode(r) \/ ClaimToken(r)
    <3>1. tokens[t].status # "absent"
      BY <1>2, <2>3, NewRowIsCreated, TokensUntouched, AbsentStays
    <3>2. parent[t] = Presented(r) /\ Claimed(parent[t])
      BY <1>0, <1>2, <2>1, <3>1 DEF ParentsAreClaimed, TokensKept
    <3>3. ASSUME ClaimCode(r)
          PROVE  FALSE
      <4>1. /\ codes[requests[r].code].status = "unused"
            /\ requests[r].code \in CodeIds
        BY <1>2, <3>3, ClaimCodeLands DEF ClaimCode, At, HandlersWellFormed,
           HandlerWellFormed, CodeLabels
      <4> QED
        BY <3>2, <4>1, IdTypes DEF Claimed, Presented, FamiliesWellFormed
    <3>4. ASSUME ClaimToken(r)
          PROVE  FALSE
      <4>1. /\ tokens[requests[r].token].status = "active"
            /\ requests[r].token \in TokenIds
        BY <1>2, <3>4, ReturnLands DEF ClaimToken, At, HandlersWellFormed,
           HandlerWellFormed, TokenLabels
      <4> QED
        BY <3>2, <4>1, IdTypes DEF Claimed, Presented
    <3> QED
      BY <2>3, <3>3, <3>4
  <2> QED
    BY <2>0, <2>2, <2>3
<1> QED
  BY <1>1, <1>2 DEF ParentsAreClaimed, At

LEMMA ParentsStayKnown ==
    ASSUME IInv, ParentsInv, [Next]_vars
    PROVE  ParentsAreKnown'
<1> USE DEF IInv, ParentsInv
<1>0. CodesKept /\ TokensAdvance /\ TokensKept
  BY RowsAdvance, RowsKept
<1>1. ASSUME NEW r \in Requests, requests'[r].pc \in MintLabels \ {"create"}
      PROVE  parent'[requests'[r].new] = Presented(r)'
  <2>1. CASE CreateToken(r)
    <3>1. parent'[requests'[r].new] = Presented(r)
      BY <2>1, CreateTokenLands DEF TypeOK, Presented
    <3>2. Presented(r)' = Presented(r)
      BY <2>1, CreateTokenLands DEF Presented
    <3> QED
      BY <3>1, <3>2
  <2>2. CASE ~CreateToken(r)
    <3>1. /\ requests'[r].new = requests[r].new
          /\ requests[r].pc \in MintLabels \ {"create"}
          /\ Presented(r)' = Presented(r)
      BY <1>1, <2>2, MintingLocals DEF Presented
    <3>2. requests[r].new \in TokenIds /\ tokens[requests[r].new].status # "absent"
      BY <3>1 DEF HandlersWellFormed, HandlerWellFormed
    <3> QED
      BY <1>0, <3>1, <3>2 DEF ParentsAreKnown, ParentIsKnown, TokensKept
  <2> QED
    BY <2>1, <2>2
<1>2. ASSUME NEW r \in Requests, requests'[r].pc \in CheckLabels
      PROVE  Spent(Presented(r))'
  <2>1. Presented(r)' = Presented(r)
    BY <1>2, MintingLocals DEF CheckLabels, MintLabels, Presented
  <2>2. CASE requests[r].pc \in CheckLabels
    BY <1>0, <2>1, <2>2, SpentStays DEF ParentsAreKnown, ParentIsKnown, Spent
  <2>3. CASE requests[r].pc \notin CheckLabels
    <3>1. FinalizeCode(r) \/ FinalizeToken(r)
      BY <1>2, <2>3, MintingLocals
         DEF CheckLabels, MintLabels, CheckCode, CheckTokens, GrantGone, At
    <3>2. requests'[r].pc # "burn"
      BY <1>2 DEF CheckLabels
    <3>3. CASE FinalizeCode(r)
      <4>1. /\ codes[requests[r].code].status = "claimed"
            /\ codes' = [codes EXCEPT ![requests[r].code].status = "finalized"]
        BY <3>2, <3>3, GotoLands DEF FinalizeCode
      <4>2. requests[r].code \in CodeIds /\ requests[r].token = None
        BY <3>3 DEF FinalizeCode, At, HandlersWellFormed, HandlerWellFormed, MintLabels
      <4>3. codes'[requests[r].code].status = "finalized"
        BY <4>1, <4>2 DEF TypeOK, CodeRow
      <4> QED
        BY <2>1, <4>2, <4>3 DEF Spent, SpentCode, Presented
    <3>4. CASE FinalizeToken(r)
      <4>1. tokens' = [tokens EXCEPT ![requests[r].token].status = "rotated"]
        BY <3>2, <3>4, GotoLands DEF FinalizeToken
      <4>2. requests[r].code = None /\ requests[r].token \in TokenIds
        BY <3>4, IdTypes
           DEF FinalizeToken, At, HandlersWellFormed, HandlerWellFormed, MintLabels
      <4>3. tokens'[requests[r].token].status = "rotated"
        BY <4>1, <4>2 DEF TypeOK, TokenRow
      <4> QED
        BY <2>1, <4>2, <4>3 DEF Spent, SpentToken, Presented
    <3> QED
      BY <3>1, <3>3, <3>4
  <2> QED
    BY <2>2, <2>3
<1> QED
  BY <1>1, <1>2 DEF ParentsAreKnown, ParentIsKnown

LEMMA DisclosedStaySpent ==
    ASSUME IInv, ParentsInv, [Next]_vars
    PROVE  DisclosedAreSpent'
<1> USE DEF IInv, ParentsInv
<1>0. CodesKept /\ TokensAdvance /\ TokensKept
  BY RowsAdvance, RowsKept
<1>1. ASSUME NEW t \in disclosed'
      PROVE  Spent(parent[t])'
  <2>1. Spent(parent[t]) /\ parent'[t] = parent[t]
    <3>1. CASE t \in disclosed
      BY <1>0, <3>1 DEF TypeOK, DisclosedExist, DisclosedAreSpent, TokensKept
    <3>2. CASE t \notin disclosed
      <4>1. PICK r \in Requests : requests[r].pc = "check_grant" /\ requests[r].new = t
        BY <3>2, DisclosedGrows DEF At
      <4>2. t \in TokenIds /\ tokens[t].status # "absent"
        BY <4>1 DEF HandlersWellFormed, HandlerWellFormed, MintLabels
      <4> QED
        BY <1>0, <4>1, <4>2
           DEF ParentsAreKnown, ParentIsKnown, MintLabels, CheckLabels, TokensKept
    <3> QED
      BY <3>1, <3>2
  <2> QED
    BY <1>0, <2>1, SpentStays DEF Spent
<1> QED
  BY <1>1 DEF DisclosedAreSpent

LEMMA StaysExchangedOnce ==
    ASSUME IInv, ParentsInv, [Next]_vars
    PROVE  ExchangedOnce'
<1> USE DEF IInv, ParentsInv
<1>0. TokensKept
  BY RowsKept
\* The parent of a row that is inserted was no row's parent.
<1>1. ASSUME NEW t \in TokenIds, NEW u \in TokenIds,
             tokens[t].status = "absent", tokens'[t].status # "absent",
             tokens[u].status # "absent"
      PROVE  parent'[t] # parent'[u]
  <2>1. PICK r \in Requests : CreateToken(r) /\ requests'[r].new = t
    BY <1>1, NewRowIsCreated
  <2>2. parent'[t] = Presented(r)
    BY <2>1, CreateTokenLands DEF TypeOK, Presented
  <2> QED
    BY <1>0, <1>1, <2>1, <2>2 DEF ParentsAreClaimed, TokensKept, CreateToken
<1>2. ASSUME NEW t \in TokenIds, NEW u \in TokenIds,
             tokens[t].status = "absent", tokens'[t].status # "absent",
             tokens[u].status = "absent", tokens'[u].status # "absent"
      PROVE  t = u
  <2>1. PICK r \in Requests : CreateToken(r) /\ requests'[r].new = t
    BY <1>2, NewRowIsCreated
  <2> QED
    BY <1>2, <2>1, CreateTokenLands DEF TypeOK
<1> QED
  BY <1>0, <1>1, <1>2 DEF ExchangedOnce, TokensKept

-----------------------------------------------------------------------------
(* Replayed codes.                                                         *)

\* What the refusal of a replayed code finds when it takes its next step.
ReplayInProgress(r) ==
    LET row == codes[requests[r].code] IN
    /\ requests[r].pc \in {"code_mark_claimed", "code_mark_finalized", "code_sweep"} =>
         row.family # None
    /\ At(r, "code_mark_finalized") => row.status \in SpentCode
    /\ At(r, "code_sweep") => row.status \in {"compromised", "deleted"}
ReplaysInProgress == \A r \in Requests : ReplayInProgress(r)

ReplayedAreMarked ==
    \A f \in replayed : \E c \in CodeIds :
       /\ codes[c].family = f
       /\ f # None
       /\ codes[c].status \in {"compromised", "deleted"}

\* An active row of a replayed and marked family is on its way to be burnt.
ReplayedAreSealed ==
    \A t \in TokenIds :
       LET f == tokens[t].family IN
       f \in replayed /\ CodeCompromised(f) /\ tokens[t].status = "active" =>
         /\ t \notin disclosed
         /\ \A r \in Requests :
              requests[r].pc \in {"check_tokens", "check_grant"} => requests[r].new # t

ReplayInv ==
    /\ ReplaysInProgress
    /\ ReplayedAreMarked
    /\ ReplayedAreSealed

LEMMA ReplayStarts ==
    ASSUME TypeOK, NEW r \in Requests, Start(r), requests'[r].pc = "code_mark_claimed"
    PROVE  /\ requests'[r].code \in CodeIds
           /\ codes[requests'[r].code].family # None
           /\ UNCHANGED codes
<1>1. PICK c \in CodeIds : ExchangeReplay(r, c)
  <2>1. ASSUME NEW o \in Owner, NEW s \in ScopeSets,
               AuthorizeCovered(r, o, s) \/ AuthorizeAsks(r, o, s)
        PROVE  FALSE
    BY <2>1 DEF AuthorizeCovered, AuthorizeAsks, Arrives, At, Begin, TypeOK, Blank
  <2>2. ASSUME NEW o \in Owner, RevokeConsent(r, o)
        PROVE  FALSE
    BY <2>2 DEF RevokeConsent, Begin, TypeOK, Blank
  <2>3. ASSUME NEW cookie \in cookies, ConsentReads(r, cookie)
        PROVE  FALSE
    <3> DEFINE existing == consents[cookie[1]]
    <3>1. existing.status \in {"absent", "revoked", "granted"}
      BY DEF TypeOK, ConsentRow
    <3>2. requests'[r].pc = (CASE existing.status = "absent" -> "consent_create"
                               [] existing.status = "revoked" -> "consent_regrant"
                               [] existing.status = "granted" -> "consent_merge")
      BY <2>3 DEF ConsentReads, Begin, TypeOK, Blank
    <3> HIDE DEF existing
    <3> QED
      BY <3>1, <3>2
  <2>4. ASSUME NEW c \in CodeIds, ExchangeMissing(r, c)
        PROVE  FALSE
    BY <2>4 DEF ExchangeMissing, Arrives, At
  <2>5. ASSUME NEW c \in CodeIds, ExchangeExpired(r, c) \/ ExchangeUnused(r, c)
        PROVE  FALSE
    <3>1. CASE ExchangeExpired(r, c)
      BY <3>1 DEF ExchangeExpired, Begin, TypeOK, Blank
    <3>2. CASE ExchangeUnused(r, c)
      BY <3>2 DEF ExchangeUnused, Begin, TypeOK, Blank
    <3> QED
      BY <2>5, <3>1, <3>2
  <2>6. ASSUME NEW t \in TokenIds,
               RefreshReplay(r, t) \/ RefreshActive(r, t) \/ RevokeToken(r, t)
        PROVE  FALSE
    <3>1. CASE RefreshActive(r, t)
      BY <3>1 DEF RefreshActive, Begin, TypeOK, Blank
    <3>2. CASE RefreshReplay(r, t)
      BY <3>2 DEF RefreshReplay, Begin, TypeOK, Blank
    <3>3. CASE RevokeToken(r, t)
      BY <3>3 DEF RevokeToken, Begin, TypeOK, Blank
    <3> QED
      BY <2>6, <3>1, <3>2, <3>3
  <2> QED
    BY <2>1, <2>2, <2>3, <2>4, <2>5, <2>6, Zenon DEF Start
<1>2. requests'[r].code = c
  BY <1>1 DEF ExchangeReplay, Begin, TypeOK, Blank
<1> QED
  BY <1>1, <1>2 DEF ExchangeReplay, tables

LEMMA ReplayedUntouched ==
    ASSUME NEW r \in Requests,
           \/ Crash(r)
           \/ Start(r) /\ ~\E c \in CodeIds : ExchangeMissing(r, c)
           \/ Continue(r) /\ ~CodeSweep(r)
    PROVE  UNCHANGED replayed
BY DEF Start, AuthorizeCovered, AuthorizeAsks, RevokeConsent, ConsentReads,
       ExchangeReplay, ExchangeExpired, ExchangeUnused,
       RefreshReplay, RefreshActive, RevokeToken, Crash, Continue,
       ConsentCreates, ConsentRegrants, ConsentMerges, MintCode, DeleteCode,
       CodeMarkClaimed, CodeMarkFinalized, CodeGrantCheck, RejectCode, ClaimCode,
       TokenMarkRotating, TokenMarkRotated, TokenSweep, TokenGrantCheck, RejectRefresh,
       ClaimToken, CreateToken, FinalizeCode, FinalizeToken, CheckCode, CheckTokens,
       Disclose, GrantGone, Burn, RevokeRow, RevokeFamily, RevokeGrant, RevokeCodes,
       RevokeTokens, history

LEMMA ReplayedGrows ==
    ASSUME [Next]_vars, NEW f \in replayed', f \notin replayed
    PROVE  \E r \in Requests :
             \/ CodeSweep(r) /\ f = codes[requests[r].code].family
             \/ \E c \in CodeIds : ExchangeMissing(r, c) /\ f = codes[c].family
<1>1. PICK r \in Requests : Start(r) \/ Continue(r) \/ Crash(r)
  BY DEF Next, Environment, CodeExpires, history, vars
<1>2. CodeSweep(r) \/ \E c \in CodeIds : ExchangeMissing(r, c)
  BY <1>1, ReplayedUntouched
<1> QED
  BY <1>2 DEF CodeSweep, ExchangeMissing

\* An active row was active, or has just been inserted by the handler that holds it.
LEMMA ActiveWasActive ==
    ASSUME IInv, [Next]_vars, NEW t \in TokenIds, tokens'[t].status = "active"
    PROVE  \/ tokens[t].status = "active" /\ tokens'[t].family = tokens[t].family
           \/ /\ tokens[t].status = "absent"
              /\ t \notin disclosed'
              /\ \A q \in Requests :
                   requests'[q].pc \in CheckLabels \cup {"burn"} => requests'[q].new # t
<1> USE DEF IInv
<1>0. TokensAdvance
  BY RowsAdvance
<1>1. CASE tokens[t].status # "absent"
  BY <1>0, <1>1 DEF TokensAdvance
<1>2. CASE tokens[t].status = "absent"
  <2>1. PICK r \in Requests : CreateToken(r) /\ requests'[r].new = t
    BY <1>2, NewRowIsCreated
  <2>2. t \notin disclosed'
    BY <1>2, <2>1 DEF CreateToken, DisclosedExist
  <2>3. ASSUME NEW q \in Requests, requests'[q].pc \in CheckLabels \cup {"burn"},
               requests'[q].new = t
        PROVE  FALSE
    <3>1. /\ requests'[q].pc \in MintLabels
          /\ requests'[q].pc \notin {"create", "finalize"}
      BY <2>3 DEF CheckLabels, MintLabels
    <3>2. requests[q].new = t /\ requests[q].pc \in MintLabels \ {"create"}
      BY <2>3, <3>1, MintingLocals
    <3> QED
      BY <1>2, <3>2 DEF HandlersWellFormed, HandlerWellFormed
  <2> QED
    BY <1>2, <2>2, <2>3
<1> QED
  BY <1>1, <1>2

\* A handler's code, while it refuses a replay.
LEMMA ReplayLocals ==
    ASSUME TypeOK, [Next]_vars, NEW r \in Requests,
           requests'[r].pc \in {"code_mark_finalized", "code_sweep"}
    PROVE  /\ requests'[r].code = requests[r].code
           /\ \/ requests'[r] = requests[r]
              \/ CodeMarkClaimed(r) \/ CodeMarkFinalized(r)
<1>1. CASE requests'[r] = requests[r]
  BY <1>1
<1>2. CASE requests'[r] # requests[r]
  <2>1. CodeMarkClaimed(r) \/ CodeMarkFinalized(r)
    BY <1>2, MovedHandlerStepped, CameFrom
  <2> QED
    BY <2>1, GotoLands DEF CodeMarkClaimed, CodeMarkFinalized
<1> QED
  BY <1>1, <1>2

LEMMA ReplaysStayInProgress ==
    ASSUME IInv, ReplayInv, [Next]_vars
    PROVE  ReplaysInProgress'
<1> USE DEF IInv, ReplayInv
<1>0. CodesAdvance /\ CodesKept /\ FamiliesWellFormed'
  BY RowsAdvance, RowsKept, FamiliesStayWellFormed
\* A code that has a family was claimed.
<1>1. \A c \in CodeIds : codes[c].family # None =>
        /\ codes[c].status \in {"claimed", "finalized", "compromised", "deleted"}
        /\ codes'[c].family # None
  BY <1>0 DEF FamiliesWellFormed, TypeOK, CodeRow, CodeStatus, CodesAdvance
<1>2. ASSUME NEW r \in Requests, requests'[r] = requests[r]
      PROVE  ReplayInProgress(r)'
  <2>1. requests[r].pc \in {"code_mark_claimed", "code_mark_finalized", "code_sweep"} =>
          requests[r].code \in CodeIds /\ codes[requests[r].code].status # "absent"
    BY DEF HandlersWellFormed, HandlerWellFormed, CodeLabels
  <2>2. ReplayInProgress(r)
    BY DEF ReplaysInProgress
  <2> QED
    BY <1>0, <1>1, <1>2, <2>1, <2>2 DEF ReplayInProgress, At, CodesKept
<1>3. ASSUME NEW r \in Requests, requests'[r] # requests[r]
      PROVE  ReplayInProgress(r)'
  <2>1. Start(r) \/ Continue(r) \/ Crash(r)
    BY <1>3, MovedHandlerStepped
  <2>2. CASE requests'[r].pc = "code_mark_claimed"
    BY <2>1, <2>2, CameFrom, ReplayStarts DEF ReplayInProgress, At
  <2>3. CASE requests'[r].pc \in {"code_mark_finalized", "code_sweep"}
    <3> DEFINE c == requests[r].code
    <3>1. requests'[r].code = c /\ (CodeMarkClaimed(r) \/ CodeMarkFinalized(r))
      BY <1>3, <2>3, ReplayLocals
    <3>2. /\ c \in CodeIds
          /\ codes[c].family # None
          /\ CodeMarkFinalized(r) => codes[c].status \in SpentCode
      BY <3>1 DEF CodeMarkClaimed, CodeMarkFinalized, At, HandlersWellFormed,
         HandlerWellFormed, CodeLabels, ReplaysInProgress, ReplayInProgress
    <3>3. codes'[c].family # None /\ codes[c].status \in {"claimed"} \cup SpentCode
      BY <1>1, <3>2 DEF SpentCode
    <3>4. CASE CodeMarkClaimed(r)
      <4>1. \/ requests'[r].pc = "code_sweep" /\ codes'[c].status = "compromised"
            \/ requests'[r].pc = "code_mark_finalized" /\ codes'[c].status \in SpentCode
        BY <3>2, <3>3, <3>4, GotoLands DEF CodeMarkClaimed, TypeOK, CodeRow
      <4> QED
        BY <3>1, <3>3, <4>1 DEF ReplayInProgress, At
    <3>5. CASE CodeMarkFinalized(r)
      <4>1. requests'[r].pc = "code_sweep" /\ codes'[c].status \in {"compromised", "deleted"}
        BY <3>2, <3>5, GotoLands DEF CodeMarkFinalized, TypeOK, CodeRow, SpentCode
      <4> QED
        BY <3>1, <3>3, <4>1 DEF ReplayInProgress, At
    <3> QED
      BY <3>1, <3>4, <3>5
  <2> QED
    BY <2>2, <2>3 DEF ReplayInProgress, At
<1> QED
  BY <1>2, <1>3 DEF ReplaysInProgress

LEMMA ReplayedStayMarked ==
    ASSUME IInv, ReplayInv, [Next]_vars
    PROVE  ReplayedAreMarked'
<1> USE DEF IInv, ReplayInv
<1>0. CodesAdvance /\ CodesKept
  BY RowsAdvance, RowsKept
<1>1. ASSUME NEW f \in replayed'
      PROVE  \E c \in CodeIds :
               /\ codes[c].family = f
               /\ f # None
               /\ codes[c].status \in {"compromised", "deleted"}
  <2>1. CASE f \in replayed
    BY <2>1 DEF ReplayedAreMarked
  <2>2. CASE f \notin replayed
    <3>1. PICK r \in Requests :
            \/ CodeSweep(r) /\ f = codes[requests[r].code].family
            \/ \E c \in CodeIds : ExchangeMissing(r, c) /\ f = codes[c].family
      BY <2>2, ReplayedGrows
    <3>2. CASE CodeSweep(r) /\ f = codes[requests[r].code].family
      BY <3>2 DEF CodeSweep, At, HandlersWellFormed, HandlerWellFormed, CodeLabels,
         ReplaysInProgress, ReplayInProgress
    <3>3. CASE \E c \in CodeIds : ExchangeMissing(r, c) /\ f = codes[c].family
      BY <3>3 DEF ExchangeMissing
    <3> QED
      BY <3>1, <3>2, <3>3
  <2> QED
    BY <2>1, <2>2
<1> QED
  BY <1>0, <1>1 DEF ReplayedAreMarked, CodesAdvance, CodesKept

LEMMA ReplayedStaySealed ==
    ASSUME IInv, ReplayInv, [Next]_vars
    PROVE  ReplayedAreSealed'
<1> USE DEF IInv, ReplayInv
<1>0. CodesAdvance /\ CodesKept /\ FamiliesWellFormed'
  BY RowsAdvance, RowsKept, FamiliesStayWellFormed
\* A family that was replayed before the step keeps the marker it had.
<1>1. ASSUME NEW f \in replayed, CodeCompromised(f)'
      PROVE  CodeCompromised(f)
  <2>1. PICK c \in CodeIds : /\ codes[c].family = f
                             /\ f # None
                             /\ codes[c].status \in {"compromised", "deleted"}
    BY DEF ReplayedAreMarked
  <2>2. PICK d \in CodeIds : codes'[d].family = f /\ codes'[d].status = "compromised"
    BY <1>1 DEF CodeCompromised
  <2>3. d = c
    BY <1>0, <2>1, <2>2 DEF CodesAdvance, FamiliesWellFormed
  <2> QED
    BY <1>0, <2>1, <2>2, <2>3 DEF CodesKept, CodeCompromised
\* An active row of a family that is replayed for the first time.
<1>2. ASSUME NEW t \in TokenIds, tokens'[t].status = "active",
             tokens[t].status = "active", NEW f \in replayed', f = tokens[t].family,
             f \notin replayed
      PROVE  ~CodeCompromised(f)'
  <2>1. PICK r \in Requests :
          \/ CodeSweep(r) /\ f = codes[requests[r].code].family
          \/ \E c \in CodeIds : ExchangeMissing(r, c) /\ f = codes[c].family
    BY <1>2, ReplayedGrows
  <2>2. CASE CodeSweep(r) /\ f = codes[requests[r].code].family
    <3>1. tokens'[t] = [tokens[t] EXCEPT !.status = "rotating"]
      BY <1>2, <2>2 DEF CodeSweep, SweepFamily
    <3> QED
      BY <1>2, <3>1 DEF TypeOK, TokenRow
  <2>3. ASSUME NEW c \in CodeIds, ExchangeMissing(r, c), f = codes[c].family
        PROVE  ~CodeCompromised(f)'
    BY <2>3 DEF ExchangeMissing, tables, CodeCompromised, FamiliesWellFormed
  <2> QED
    BY <2>1, <2>2, <2>3
<1>3. ASSUME NEW t \in TokenIds, tokens'[t].status = "active",
             NEW f \in replayed', f = tokens'[t].family, CodeCompromised(f)'
      PROVE  /\ t \notin disclosed'
             /\ \A r \in Requests :
                  requests'[r].pc \in {"check_tokens", "check_grant"} => requests'[r].new # t
  <2>1. CASE tokens[t].status = "absent"
    BY <1>3, <2>1, ActiveWasActive DEF CheckLabels
  <2>2. CASE tokens[t].status # "absent"
    <3>1. tokens[t].status = "active" /\ tokens[t].family = f
      BY <1>3, <2>2, ActiveWasActive
    <3>2. f \in replayed /\ CodeCompromised(f)
      BY <1>1, <1>2, <1>3, <3>1
    <3>3. /\ t \notin disclosed
          /\ \A r \in Requests :
               requests[r].pc \in {"check_tokens", "check_grant"} => requests[r].new # t
      BY <3>1, <3>2 DEF ReplayedAreSealed
    <3>4. t \notin disclosed'
      BY <3>3, DisclosedGrows DEF At
    <3>5. ASSUME NEW r \in Requests, requests'[r].new = t,
                 requests'[r].pc \in {"check_tokens", "check_grant"}
          PROVE  FALSE
      <4>1. /\ requests[r].new = t
            /\ requests[r].pc \in MintLabels \ {"create"}
            /\ requests'[r] # requests[r]
        BY <3>3, <3>5, MintingLocals DEF MintLabels
      <4>2. CheckCode(r) \/ CheckTokens(r)
        BY <3>5, <4>1, MovedHandlerStepped, CameFrom
      <4>3. CheckCode(r) /\ requests'[r].pc = "check_tokens"
        BY <3>3, <3>5, <4>1, <4>2, ContinueLands DEF CheckTokens, At
      <4>4. ~CodeCompromised(Spends(r).family)
        BY <4>3, GotoLands DEF CheckCode
      <4>5. Spends(r).family = f
        BY <3>1, <4>1 DEF HandlersWellFormed, HandlerWellFormed
      <4> QED
        BY <3>2, <4>4, <4>5
    <3> QED
      BY <3>4, <3>5
  <2> QED
    BY <2>1, <2>2
<1> QED
  BY <1>3 DEF ReplayedAreSealed, CodeCompromised

-----------------------------------------------------------------------------
(* Grants: the generations of a consent only grow, and a credential belongs *)
(* to the generation it was minted under.                                   *)

GrantsAreOrdered ==
    \A o \in Owner :
       /\ consents[o].grant <= lastGrant
       /\ floor[o] <= consents[o].grant
       /\ consents[o].status = "granted" => floor[o] < consents[o].grant

RowsHaveGrants ==
    /\ \A c \in CodeIds : codes[c].status # "absent" =>
         codes[c].owner \in Owner /\ codes[c].grant \in GrantIds
    /\ \A t \in TokenIds : tokens[t].status # "absent" =>
         tokens[t].owner \in Owner /\ tokens[t].grant \in GrantIds

\* What a handler knows of a consent: the generation it mints for is one the user has
\* granted, the one it revokes is not granted again.
GrantIsKnown(r) ==
    LET q == requests[r]
        row == consents[q.owner] IN
    /\ q.pc \in {"consent_create", "consent_regrant", "revoke_grant"} => q.owner \in Owner
    /\ q.pc \in {"consent_merge", "mint_code"} => q.owner \in Owner /\ q.grant \in GrantIds
    /\ q.pc \in {"revoke_codes", "revoke_tokens"} =>
         /\ q.owner \in Owner
         /\ q.grant \in GrantIds
         /\ q.grant <= row.grant
         /\ row.status = "granted" => q.grant < row.grant
    /\ q.pc \in MintLabels \ {"create"} =>
         /\ tokens[q.new].owner = Spends(r).owner
         /\ tokens[q.new].grant = Spends(r).grant
GrantsAreKnown == \A r \in Requests : GrantIsKnown(r)

GrantInv ==
    /\ GrantsAreOrdered
    /\ RowsHaveGrants
    /\ GrantsAreKnown
    /\ RevokedGrantIsDead

\* A step leaves a consent its generation, or gives it the newest one.
ConsentsAdvance ==
    /\ lastGrant' \in {lastGrant, lastGrant + 1}
    /\ \A o \in Owner :
         \/ /\ consents'[o].grant = consents[o].grant
            /\ consents'[o].status = consents[o].status
         \/ /\ consents'[o].grant = lastGrant + 1
            /\ lastGrant' = lastGrant + 1

LEMMA ConsentsUntouched ==
    ASSUME NEW r \in Requests,
           \/ Start(r) \/ Crash(r)
           \/ Continue(r) /\ ~ConsentCreates(r) /\ ~ConsentRegrants(r) /\ ~ConsentMerges(r)
                          /\ ~RevokeGrant(r)
    PROVE  UNCHANGED <<consents, lastGrant>>
BY DEF Start, AuthorizeCovered, AuthorizeAsks, RevokeConsent, ConsentReads,
       ExchangeMissing, ExchangeReplay, ExchangeExpired, ExchangeUnused,
       RefreshReplay, RefreshActive, RevokeToken, Crash, Continue, MintCode,
       DeleteCode, CodeMarkClaimed, CodeMarkFinalized, CodeSweep, CodeGrantCheck, RejectCode,
       ClaimCode, TokenMarkRotating, TokenMarkRotated, TokenSweep, TokenGrantCheck,
       RejectRefresh, ClaimToken, CreateToken, FinalizeCode, FinalizeToken, CheckCode,
       CheckTokens, Disclose, GrantGone, Burn, RevokeRow, RevokeFamily, RevokeCodes,
       RevokeTokens, tables

LEMMA FloorUntouched ==
    ASSUME NEW r \in Requests,
           Start(r) \/ Crash(r) \/ (Continue(r) /\ ~RevokeTokens(r))
    PROVE  UNCHANGED floor
BY DEF Start, AuthorizeCovered, AuthorizeAsks, RevokeConsent, ConsentReads,
       ExchangeMissing, ExchangeReplay, ExchangeExpired, ExchangeUnused,
       RefreshReplay, RefreshActive, RevokeToken, Crash, Continue,
       ConsentCreates, ConsentRegrants, ConsentMerges, MintCode, DeleteCode,
       CodeMarkClaimed, CodeMarkFinalized, CodeSweep, CodeGrantCheck, RejectCode, ClaimCode,
       TokenMarkRotating, TokenMarkRotated, TokenSweep, TokenGrantCheck, RejectRefresh,
       ClaimToken, CreateToken, FinalizeCode, FinalizeToken, CheckCode, CheckTokens,
       Disclose, GrantGone, Burn, RevokeRow, RevokeFamily, RevokeGrant, RevokeCodes,
       history

\* A row of oauth_consent that is (re)granted or revoked.
LEMMA GrantsAdvance ==
    ASSUME TypeOK, NEW r \in Requests, NEW o, Grants(r, o)
    PROVE  ConsentsAdvance
BY DEF Grants, ConsentsAdvance, TypeOK, ConsentRow

LEMMA ConsentsOnlyAdvance ==
    ASSUME TypeOK, [Next]_vars
    PROVE  ConsentsAdvance
<1>1. ASSUME UNCHANGED <<consents, lastGrant>>
      PROVE  ConsentsAdvance
  BY <1>1 DEF ConsentsAdvance
<1>2. ASSUME NEW r \in Requests, Start(r) \/ Continue(r) \/ Crash(r)
      PROVE  ConsentsAdvance
  <2>1. CASE ConsentCreates(r)
    BY <1>1, <2>1, GrantsAdvance DEF ConsentCreates
  <2>2. CASE ConsentRegrants(r)
    BY <2>2, GrantsAdvance DEF ConsentRegrants
  <2>3. CASE ConsentMerges(r)
    BY <2>3 DEF ConsentMerges, ConsentsAdvance, TypeOK, ConsentRow
  <2>4. CASE RevokeGrant(r)
    BY <2>4 DEF RevokeGrant, ConsentsAdvance, TypeOK, ConsentRow
  <2> QED
    BY <1>1, <1>2, <2>1, <2>2, <2>3, <2>4, ConsentsUntouched
<1> QED
  BY <1>1, <1>2 DEF Next, Environment, CodeExpires, vars

\* What a request that has just been read knows of the consent it is about.
LEMMA StartOwners ==
    ASSUME TypeOK, NEW r \in Requests, Start(r)
    PROVE  LET q == requests'[r] IN
           /\ q.pc \in {"consent_create", "consent_regrant", "revoke_grant"}
                => q.owner \in Owner
           /\ q.pc \in {"consent_merge", "mint_code"} =>
                /\ q.owner \in Owner
                /\ consents[q.owner].status = "granted"
                /\ q.grant = consents[q.owner].grant
<1>1. ASSUME NEW o \in Owner, NEW s \in ScopeSets, AuthorizeCovered(r, o, s)
      PROVE  /\ requests'[r].pc = "mint_code"
             /\ requests'[r].owner = o
             /\ requests'[r].grant = consents[o].grant
             /\ consents[o].status = "granted"
  BY <1>1 DEF AuthorizeCovered, Begin, TypeOK, Blank
<1>2. ASSUME NEW o \in Owner, NEW s \in ScopeSets, AuthorizeAsks(r, o, s)
      PROVE  requests'[r].pc = "idle"
  BY <1>2 DEF AuthorizeAsks, Arrives, At
<1>3. ASSUME NEW o \in Owner, RevokeConsent(r, o)
      PROVE  requests'[r].pc = "revoke_grant" /\ requests'[r].owner = o
  BY <1>3 DEF RevokeConsent, Begin, TypeOK, Blank
<1>4. ASSUME NEW cookie \in cookies, ConsentReads(r, cookie)
      PROVE  /\ requests'[r].owner = cookie[1] /\ cookie[1] \in Owner
             /\ requests'[r].pc = "consent_merge" =>
                  /\ consents[cookie[1]].status = "granted"
                  /\ requests'[r].grant = consents[cookie[1]].grant
             /\ requests'[r].pc # "mint_code"
  <2>1. cookie[1] \in Owner
    BY DEF TypeOK
  <2> DEFINE existing == consents[cookie[1]]
  <2>2. existing.status \in {"absent", "revoked", "granted"}
    BY <2>1 DEF TypeOK, ConsentRow
  <2>3. requests'[r] = [Blank EXCEPT
                      !.pc = CASE existing.status = "absent" -> "consent_create"
                               [] existing.status = "revoked" -> "consent_regrant"
                               [] existing.status = "granted" -> "consent_merge",
                      !.owner = cookie[1], !.scope = cookie[2],
                      !.grant = IF existing.status = "granted" THEN existing.grant ELSE None,
                      !.merged = IF existing.status = "granted"
                                 THEN existing.scope \cup cookie[2] ELSE {}]
    BY <1>4 DEF ConsentReads, Begin, TypeOK
  <2> HIDE DEF existing
  <2>4. /\ requests'[r].owner = cookie[1]
        /\ requests'[r].grant = IF existing.status = "granted" THEN existing.grant ELSE None
        /\ requests'[r].pc = CASE existing.status = "absent" -> "consent_create"
                               [] existing.status = "revoked" -> "consent_regrant"
                               [] existing.status = "granted" -> "consent_merge"
    BY <2>3 DEF Blank
  <2>5. /\ requests'[r].pc = "consent_merge" => existing.status = "granted"
        /\ requests'[r].pc # "mint_code"
    BY <2>2, <2>4
  <2> QED
    BY <2>1, <2>4, <2>5 DEF existing
<1>5. ASSUME NEW c \in CodeIds,
             \/ ExchangeMissing(r, c) \/ ExchangeReplay(r, c)
             \/ ExchangeExpired(r, c) \/ ExchangeUnused(r, c)
      PROVE  requests'[r].pc \in {"idle", "code_mark_claimed", "delete_code", "code_grant"}
  <2>1. CASE ExchangeMissing(r, c)
    BY <2>1 DEF ExchangeMissing, Arrives, At
  <2>2. CASE ExchangeReplay(r, c)
    BY <2>2 DEF ExchangeReplay, Begin, TypeOK, Blank
  <2>3. CASE ExchangeExpired(r, c)
    BY <2>3 DEF ExchangeExpired, Begin, TypeOK, Blank
  <2>4. CASE ExchangeUnused(r, c)
    BY <2>4 DEF ExchangeUnused, Begin, TypeOK, Blank
  <2> QED
    BY <1>5, <2>1, <2>2, <2>3, <2>4
<1>6. ASSUME NEW t \in TokenIds,
             RefreshReplay(r, t) \/ RefreshActive(r, t) \/ RevokeToken(r, t)
      PROVE  requests'[r].pc \in {"token_mark_rotating", "token_grant", "revoke_row"}
  <2>1. CASE RefreshActive(r, t)
    BY <2>1 DEF RefreshActive, Begin, TypeOK, Blank
  <2>2. CASE RefreshReplay(r, t)
    BY <2>2 DEF RefreshReplay, Begin, TypeOK, Blank
  <2>3. CASE RevokeToken(r, t)
    BY <2>3 DEF RevokeToken, Begin, TypeOK, Blank
  <2> QED
    BY <1>6, <2>1, <2>2, <2>3
<1> DEFINE Claim == LET q == requests'[r] IN
                    /\ q.pc \in {"consent_create", "consent_regrant", "revoke_grant"}
                         => q.owner \in Owner
                    /\ q.pc \in {"consent_merge", "mint_code"} =>
                         /\ q.owner \in Owner
                         /\ consents[q.owner].status = "granted"
                         /\ q.grant = consents[q.owner].grant
<1>7. ASSUME NEW o \in Owner, NEW s \in ScopeSets,
             AuthorizeCovered(r, o, s) \/ AuthorizeAsks(r, o, s) \/ RevokeConsent(r, o)
      PROVE  Claim
  BY <1>1, <1>2, <1>3, <1>7
<1>8. ASSUME NEW cookie \in cookies, ConsentReads(r, cookie)
      PROVE  Claim
  BY <1>4, <1>8
<1>9. ASSUME requests'[r].pc \in {"idle", "code_mark_claimed", "delete_code", "code_grant",
                                   "token_mark_rotating", "token_grant", "revoke_row"}
      PROVE  Claim
  BY <1>9
<1>10. ASSUME NEW o \in Owner, RevokeConsent(r, o)
       PROVE  Claim
  BY <1>3, <1>10
<1> HIDE DEF Claim
<1>11. Claim
  BY <1>5, <1>6, <1>7, <1>8, <1>9, <1>10, Zenon DEF Start
<1> QED
  BY <1>11 DEF Claim

\* Whom a credential that is being minted from belongs to.
LEMMA SpendsKept ==
    ASSUME IInv, CodesKept, TokensKept, NEW q \in Requests, requests[q].pc \in MintLabels,
           requests'[q].code = requests[q].code, requests'[q].token = requests[q].token
    PROVE  /\ Spends(q)'.owner = Spends(q).owner
           /\ Spends(q)'.grant = Spends(q).grant
<1> USE DEF IInv
<1>1. CASE requests[q].code # None
  <2>1. requests[q].code \in CodeIds /\ codes[requests[q].code].status # "absent"
    BY <1>1 DEF HandlersWellFormed, HandlerWellFormed, FamiliesWellFormed
  <2> QED
    BY <1>1, <2>1 DEF Spends, CodesKept
<1>2. CASE requests[q].code = None
  <2>1. /\ requests[q].token \in TokenIds
        /\ tokens[requests[q].token].status # "absent"
    BY <1>2, IdTypes DEF HandlersWellFormed, HandlerWellFormed
  <2> QED
    BY <1>2, <2>1 DEF Spends, TokensKept
<1> QED
  BY <1>1, <1>2

LEMMA SpendsHasGrant ==
    ASSUME IInv, RowsHaveGrants, NEW q \in Requests, requests[q].pc \in MintLabels
    PROVE  Spends(q).owner \in Owner /\ Spends(q).grant \in GrantIds
<1> USE DEF IInv
<1>1. CASE requests[q].code # None
  BY <1>1 DEF HandlersWellFormed, HandlerWellFormed, FamiliesWellFormed, Spends,
     RowsHaveGrants
<1>2. CASE requests[q].code = None
  BY <1>2, IdTypes DEF HandlersWellFormed, HandlerWellFormed, Spends, RowsHaveGrants
<1> QED
  BY <1>1, <1>2

LEMMA GrantNumbers ==
    ASSUME TypeOK
    PROVE  /\ lastGrant \in Nat
           /\ \A o \in Owner : consents[o].grant \in Nat /\ floor[o] \in Nat
<1>1. lastGrant \in Nat
  BY ConstantsAssumption DEF TypeOK
<1>2. \A o \in Owner : consents[o] \in ConsentRow /\ floor[o] \in GrantIds \cup {None}
  BY DEF TypeOK
<1>3. \A o \in Owner : consents[o].grant \in GrantIds \cup {None}
  BY <1>2 DEF ConsentRow
<1> QED
  BY <1>1, <1>2, <1>3, IdTypes

\* The floor of an owner moves only to the generation that the answered revocation drew.
LEMMA FloorMoves ==
    ASSUME TypeOK, [Next]_vars, NEW o \in Owner, floor'[o] # floor[o]
    PROVE  \E r \in Requests : /\ RevokeTokens(r)
                               /\ requests[r].owner = o
                               /\ floor'[o] = requests[r].grant
<1>1. PICK r \in Requests : Start(r) \/ Continue(r) \/ Crash(r)
  BY DEF Next, Environment, CodeExpires, history, vars
<1>2. RevokeTokens(r)
  BY <1>1, FloorUntouched
<1> QED
  BY <1>2 DEF RevokeTokens, TypeOK

LEMMA GrantsStayOrdered ==
    ASSUME IInv, GrantInv, [Next]_vars
    PROVE  GrantsAreOrdered'
<1> USE DEF IInv, GrantInv
<1>0. ConsentsAdvance
  BY ConsentsOnlyAdvance
<1>1. ASSUME NEW o \in Owner
      PROVE  /\ consents'[o].grant <= lastGrant'
             /\ floor'[o] <= consents'[o].grant
             /\ consents'[o].status = "granted" => floor'[o] < consents'[o].grant
  <2>0. /\ lastGrant \in Nat /\ consents[o].grant \in Nat /\ floor[o] \in Nat
        /\ consents[o].grant <= lastGrant
        /\ floor[o] <= consents[o].grant
        /\ consents[o].status = "granted" => floor[o] < consents[o].grant
    BY GrantNumbers DEF GrantsAreOrdered
  <2>1. \/ /\ consents'[o].grant = consents[o].grant
           /\ consents'[o].status = consents[o].status
        \/ /\ consents'[o].grant = lastGrant + 1
           /\ lastGrant' = lastGrant + 1
    BY <1>0 DEF ConsentsAdvance
  <2>2. CASE floor'[o] = floor[o]
    BY <1>0, <2>0, <2>1, <2>2 DEF ConsentsAdvance
  <2>3. CASE floor'[o] # floor[o]
    <3>1. PICK r \in Requests : /\ RevokeTokens(r)
                                /\ requests[r].owner = o
                                /\ floor'[o] = requests[r].grant
      BY <2>3, FloorMoves
    <3>2. /\ requests[r].grant <= consents[o].grant
          /\ consents[o].status = "granted" => requests[r].grant < consents[o].grant
      BY <3>1 DEF RevokeTokens, At, GrantsAreKnown, GrantIsKnown
    <3>3. UNCHANGED <<consents, lastGrant>>
      BY <3>1 DEF RevokeTokens
    <3> QED
      BY <2>0, <3>1, <3>2, <3>3
  <2> QED
    BY <2>2, <2>3
<1> QED
  BY <1>1 DEF GrantsAreOrdered

\* A row of oauth_code appears when a handler mints a code.
LEMMA NewCodeIsMinted ==
    ASSUME IInv, [Next]_vars, NEW c \in CodeIds,
           codes[c].status = "absent", codes'[c].status # "absent"
    PROVE  \E r \in Requests : /\ MintCode(r)
                               /\ codes'[c].owner = requests[r].owner
                               /\ codes'[c].grant = requests[r].grant
<1> USE DEF IInv
<1>1. ~UNCHANGED codes
  OBVIOUS
<1>2. ~\E d \in CodeIds : CodeExpires(d)
  BY DEF CodeExpires, TypeOK, CodeRow
<1>3. PICK r \in Requests : Continue(r)
  BY <1>1, <1>2, CodesUntouched DEF Next, Environment, vars
<1>4. CASE DeleteCode(r)
  BY <1>4 DEF DeleteCode, TypeOK, CodeRow
<1>5. CASE CodeMarkClaimed(r)
  BY <1>5 DEF CodeMarkClaimed, TypeOK, CodeRow
<1>6. CASE CodeMarkFinalized(r)
  BY <1>6 DEF CodeMarkFinalized, TypeOK, CodeRow
<1>7. CASE ClaimCode(r)
  BY <1>7 DEF ClaimCode, TypeOK, CodeRow
<1>8. CASE FinalizeCode(r)
  BY <1>8 DEF FinalizeCode, TypeOK, CodeRow
<1>9. CASE RevokeCodes(r)
  BY <1>9 DEF RevokeCodes
<1>10. CASE MintCode(r)
  <2>1. PICK d \in CodeIds :
          codes' = [codes EXCEPT ![d] =
                      [status |-> "unused", owner |-> requests[r].owner,
                       grant |-> requests[r].grant, scope |-> requests[r].scope,
                       family |-> None, expired |-> FALSE]]
    BY <1>10 DEF MintCode
  <2>2. d = c
    BY <2>1 DEF TypeOK
  <2> QED
    BY <1>10, <2>1, <2>2 DEF TypeOK
<1> QED
  BY <1>1, <1>3, <1>4, <1>5, <1>6, <1>7, <1>8, <1>9, <1>10, CodesUntouched DEF Continue

LEMMA RowsStillHaveGrants ==
    ASSUME IInv, GrantInv, [Next]_vars
    PROVE  RowsHaveGrants'
<1> USE DEF IInv, GrantInv
<1>0. CodesKept /\ TokensKept
  BY RowsKept
<1>1. ASSUME NEW c \in CodeIds, codes'[c].status # "absent"
      PROVE  codes'[c].owner \in Owner /\ codes'[c].grant \in GrantIds
  <2>1. CASE codes[c].status # "absent"
    BY <1>0, <2>1 DEF RowsHaveGrants, CodesKept
  <2>2. CASE codes[c].status = "absent"
    <3>1. PICK r \in Requests : /\ MintCode(r)
                                /\ codes'[c].owner = requests[r].owner
                                /\ codes'[c].grant = requests[r].grant
      BY <1>1, <2>2, NewCodeIsMinted
    <3> QED
      BY <3>1 DEF MintCode, At, GrantsAreKnown, GrantIsKnown
  <2> QED
    BY <2>1, <2>2
<1>2. ASSUME NEW t \in TokenIds, tokens'[t].status # "absent"
      PROVE  tokens'[t].owner \in Owner /\ tokens'[t].grant \in GrantIds
  <2>1. CASE tokens[t].status # "absent"
    BY <1>0, <2>1 DEF RowsHaveGrants, TokensKept
  <2>2. CASE tokens[t].status = "absent"
    <3>1. PICK r \in Requests : CreateToken(r) /\ requests'[r].new = t
      BY <1>2, <2>2, NewRowIsCreated
    <3>2. tokens'[t].owner = Spends(r).owner /\ tokens'[t].grant = Spends(r).grant
      BY <3>1, CreatedRow
    <3> QED
      BY <3>1, <3>2, SpendsHasGrant DEF CreateToken, At, MintLabels
  <2> QED
    BY <2>1, <2>2
<1> QED
  BY <1>1, <1>2 DEF RowsHaveGrants

LEMMA MintedForSameGrant ==
    ASSUME IInv, GrantInv, [Next]_vars, NEW q \in Requests,
           requests'[q].pc \in MintLabels \ {"create"}
    PROVE  /\ tokens'[requests'[q].new].owner = Spends(q)'.owner
           /\ tokens'[requests'[q].new].grant = Spends(q)'.grant
<1> USE DEF IInv, GrantInv
<1>0. CodesKept /\ TokensKept
  BY RowsKept
<1>1. requests[q].pc \in MintLabels
  BY MintingLocals DEF MintLabels, CreateToken, At
<1>2. /\ Spends(q)'.owner = Spends(q).owner
      /\ Spends(q)'.grant = Spends(q).grant
  BY <1>0, <1>1, MintingLocals, SpendsKept
<1>3. CASE CreateToken(q)
  <2>1. /\ tokens'[requests'[q].new].owner = Spends(q).owner
        /\ tokens'[requests'[q].new].grant = Spends(q).grant
    BY <1>3, CreatedRow
  <2> QED
    BY <1>2, <2>1
<1>4. CASE ~CreateToken(q)
  <2>1. requests'[q].new = requests[q].new /\ requests[q].pc \in MintLabels \ {"create"}
    BY <1>4, MintingLocals
  <2>2. requests[q].new \in TokenIds /\ tokens[requests[q].new].status # "absent"
    BY <2>1 DEF HandlersWellFormed, HandlerWellFormed
  <2> QED
    BY <1>0, <1>2, <2>1, <2>2 DEF GrantsAreKnown, GrantIsKnown, TokensKept
<1> QED
  BY <1>3, <1>4

LEMMA GrantsStayKnown ==
    ASSUME IInv, GrantInv, [Next]_vars
    PROVE  GrantsAreKnown'
<1> USE DEF IInv, GrantInv
<1>0. /\ ConsentsAdvance
      /\ lastGrant \in Nat
      /\ \A o \in Owner : consents[o].grant \in Nat /\ consents[o].grant <= lastGrant
  BY ConsentsOnlyAdvance, GrantNumbers DEF GrantsAreOrdered
<1>1. ASSUME NEW o \in Owner, NEW g \in GrantIds,
             g <= consents[o].grant,
             consents[o].status = "granted" => g < consents[o].grant
      PROVE  /\ g <= consents'[o].grant
             /\ consents'[o].status = "granted" => g < consents'[o].grant
  <2>1. CASE /\ consents'[o].grant = consents[o].grant
             /\ consents'[o].status = consents[o].status
    BY <1>1, <2>1
  <2>2. CASE consents'[o].grant = lastGrant + 1
    <3>1. g < lastGrant + 1
      BY <1>0, <1>1, IdTypes
    <3>2. lastGrant + 1 \in Nat /\ g \in Nat
      BY <1>0, IdTypes
    <3> QED
      BY <2>2, <3>1, <3>2
  <2> QED
    BY <1>0, <2>1, <2>2 DEF ConsentsAdvance
<1>2. ASSUME NEW r \in Requests, requests'[r] = requests[r]
      PROVE  GrantIsKnown(r)'
  <2>1. GrantIsKnown(r)
    BY DEF GrantsAreKnown
  <2>2. requests'[r].pc \in MintLabels \ {"create"} =>
          /\ tokens'[requests'[r].new].owner = Spends(r)'.owner
          /\ tokens'[requests'[r].new].grant = Spends(r)'.grant
    BY MintedForSameGrant
  <2> QED
    BY <1>1, <1>2, <2>1, <2>2 DEF GrantIsKnown
<1>3. ASSUME NEW r \in Requests, requests'[r] # requests[r]
      PROVE  GrantIsKnown(r)'
  <2>0. Start(r) \/ Continue(r) \/ Crash(r)
    BY <1>3, MovedHandlerStepped
  <2>1. CASE requests'[r].pc \in {"consent_create", "consent_regrant", "revoke_grant"}
    BY <2>0, <2>1, CameFrom, StartOwners DEF GrantIsKnown, MintLabels
  <2>2. CASE requests'[r].pc = "consent_merge" \/ (requests'[r].pc = "mint_code" /\ Start(r))
    <3>1. /\ requests'[r].owner \in Owner
          /\ consents[requests'[r].owner].status = "granted"
          /\ requests'[r].grant = consents[requests'[r].owner].grant
      BY <2>0, <2>2, CameFrom, StartOwners
    <3>2. requests'[r].grant \in GrantIds
      BY <3>1, IdTypes DEF GrantsAreOrdered, TypeOK, ConsentRow, None, GrantIds
    <3> QED
      BY <2>2, <3>1, <3>2 DEF GrantIsKnown, MintLabels
  <2>3. CASE requests'[r].pc = "mint_code" /\ ~Start(r)
    <3>1. ConsentCreates(r) \/ ConsentRegrants(r) \/ ConsentMerges(r)
      BY <2>0, <2>3, CameFrom
    <3>2. requests[r].owner \in Owner
      BY <3>1 DEF ConsentCreates, ConsentRegrants, ConsentMerges, At, GrantsAreKnown,
         GrantIsKnown
    <3>3. CASE ConsentMerges(r)
      <4>1. requests[r].grant \in GrantIds
        BY <3>3 DEF ConsentMerges, At, GrantsAreKnown, GrantIsKnown
      <4>2. requests'[r].owner = requests[r].owner /\ requests'[r].grant = requests[r].grant
        BY <3>3, GotoLands DEF ConsentMerges
      <4> QED
        BY <2>3, <3>2, <4>1, <4>2 DEF GrantIsKnown, MintLabels
    <3>4. CASE ~ConsentMerges(r)
      <4>1. Grants(r, requests[r].owner)
        BY <2>3, <3>1, <3>4, ReturnLands DEF ConsentCreates, ConsentRegrants
      <4>2. requests'[r].owner = requests[r].owner /\ requests'[r].grant = lastGrant + 1
        BY <4>1, GrantsLands
      <4>3. lastGrant + 1 \in GrantIds
        BY <1>0, <4>1, ConstantsAssumption DEF Grants, GrantIds
      <4> QED
        BY <2>3, <3>2, <4>2, <4>3 DEF GrantIsKnown, MintLabels
    <3> QED
      BY <3>3, <3>4
  <2>4. CASE requests'[r].pc = "revoke_codes"
    <3>1. RevokeGrant(r)
      BY <2>0, <2>4, CameFrom
    <3>2. requests[r].owner \in Owner
      BY <3>1 DEF RevokeGrant, At, GrantsAreKnown, GrantIsKnown
    <3>3. requests'[r].owner = requests[r].owner /\ requests'[r].grant = lastGrant + 1
      BY <3>1, RevokeGrantLands
    <3>4. lastGrant + 1 \in GrantIds
      BY <1>0, <3>1, ConstantsAssumption DEF RevokeGrant, GrantIds
    <3>5. /\ consents'[requests[r].owner].grant = lastGrant + 1
          /\ consents'[requests[r].owner].status = "revoked"
      BY <3>1, <3>2 DEF RevokeGrant, TypeOK, ConsentRow
    <3> QED
      BY <1>0, <2>4, <3>2, <3>3, <3>4, <3>5 DEF GrantIsKnown, MintLabels
  <2>5. CASE requests'[r].pc = "revoke_tokens"
    <3>1. RevokeCodes(r)
      BY <2>0, <2>5, CameFrom
    <3>2. /\ requests'[r].owner = requests[r].owner /\ requests'[r].grant = requests[r].grant
          /\ UNCHANGED consents
      BY <3>1, GotoLands DEF RevokeCodes
    <3>3. GrantIsKnown(r) /\ requests[r].pc = "revoke_codes"
      BY <3>1 DEF RevokeCodes, At, GrantsAreKnown
    <3> QED
      BY <2>5, <3>2, <3>3 DEF GrantIsKnown, MintLabels
  <2>6. CASE requests'[r].pc \in MintLabels \ {"create"}
    BY <2>6, MintedForSameGrant DEF GrantIsKnown, MintLabels
  <2> QED
    BY <2>1, <2>2, <2>3, <2>4, <2>5, <2>6 DEF GrantIsKnown
<1> QED
  BY <1>2, <1>3 DEF GrantsAreKnown

LEMMA RevokedStaysDead ==
    ASSUME IInv, GrantInv, [Next]_vars
    PROVE  RevokedGrantIsDead'
<1> USE DEF IInv, GrantInv
<1>0. TokensKept
  BY RowsKept
<1>1. ASSUME NEW t \in TokenIds, tokens'[t].status = "active", t \in disclosed',
             tokens'[t].grant <= floor'[tokens'[t].owner]
      PROVE  FALSE
  <2>1. /\ tokens[t].status = "active"
        /\ tokens'[t].owner = tokens[t].owner
        /\ tokens'[t].grant = tokens[t].grant
    BY <1>0, <1>1, ActiveWasActive DEF TokensKept
  <2> DEFINE o == tokens[t].owner
  <2>2. o \in Owner /\ tokens[t].grant \in Nat
    BY <2>1, IdTypes DEF RowsHaveGrants
  <2>3. CASE floor'[o] # floor[o]
    <3>1. PICK r \in Requests : RevokeTokens(r) /\ requests[r].owner = o
      BY <2>2, <2>3, FloorMoves
    <3>2. tokens'[t] = [tokens[t] EXCEPT !.status = "revoked"]
      BY <2>1, <3>1 DEF RevokeTokens
    <3> QED
      BY <1>1, <3>2 DEF TypeOK, TokenRow
  <2>4. CASE floor'[o] = floor[o]
    <3>1. t \notin disclosed
      BY <1>1, <2>1, <2>4 DEF RevokedGrantIsDead, Live
    <3>2. PICK r \in Requests : /\ requests[r].pc = "check_grant"
                                /\ requests[r].new = t
                                /\ Disclose(r)
      BY <1>1, <3>1, DisclosedGrows DEF At
    <3>3. Spends(r).owner = o /\ Spends(r).grant = tokens[t].grant
      BY <3>2 DEF GrantsAreKnown, GrantIsKnown, MintLabels
    <3>4. consents[o].status = "granted" /\ consents[o].grant = tokens[t].grant
      BY <3>2, <3>3 DEF Disclose, GrantActive
    <3>5. floor[o] < consents[o].grant
      BY <2>2, <3>4 DEF GrantsAreOrdered
    <3> HIDE DEF o
    <3>6. tokens[t].grant <= floor[o] /\ floor[o] \in Nat
      BY <1>1, <2>1, <2>2, <2>4, IdTypes DEF TypeOK, o
    <3> QED
      BY <2>2, <3>4, <3>5, <3>6
  <2> QED
    BY <2>3, <2>4
<1> QED
  BY <1>1 DEF RevokedGrantIsDead, Live

-----------------------------------------------------------------------------
(* The rows and the families of the promise.                               *)

\* The row that a handler has inserted is its own until it discloses it.
NewRowsAreOwn ==
    \A r \in Requests : requests[r].pc \in MintLabels \ {"create"} =>
       /\ requests[r].new \notin disclosed
       /\ \A q \in Requests :
            requests[q].pc \in MintLabels \ {"create"} /\ requests[q].new = requests[r].new
            => q = r

\* A token belongs to the owner and the grant of the code that started its family.
FamiliesHaveCodes ==
    \A t \in TokenIds : tokens[t].status # "absent" =>
       \E c \in CodeIds : /\ codes[c].family = tokens[t].family
                          /\ codes[c].family # None
                          /\ codes[c].owner = tokens[t].owner
                          /\ codes[c].grant = tokens[t].grant

\* There are as many families as codes that have started one.
Started == {c \in CodeIds : codes[c].family # None}
FamiliesAreCounted == lastFamily = Cardinality(Started)

FamilyInv ==
    /\ NewRowsAreOwn
    /\ FamiliesHaveCodes
    /\ FamiliesAreCounted

LEMMA NewRowsStayOwn ==
    ASSUME IInv, FamilyInv, [Next]_vars
    PROVE  NewRowsAreOwn'
<1> USE DEF IInv, FamilyInv
<1>1. ASSUME NEW r \in Requests, requests'[r].pc \in MintLabels \ {"create"}
      PROVE  \/ /\ CreateToken(r)
                /\ tokens[requests'[r].new].status = "absent"
             \/ /\ requests'[r].new = requests[r].new
                /\ requests[r].pc \in MintLabels \ {"create"}
                /\ requests[r].new \in TokenIds
                /\ tokens[requests[r].new].status # "absent"
  <2>1. CASE CreateToken(r)
    BY <2>1, CreateTokenLands
  <2>2. CASE ~CreateToken(r)
    <3>1. requests'[r].new = requests[r].new /\ requests[r].pc \in MintLabels \ {"create"}
      BY <1>1, <2>2, MintingLocals
    <3> QED
      BY <3>1 DEF HandlersWellFormed, HandlerWellFormed
  <2> QED
    BY <2>1, <2>2
<1>2. ASSUME NEW r \in Requests, requests'[r].pc \in MintLabels \ {"create"},
             requests'[r].new \in disclosed'
      PROVE  FALSE
  <2>1. CASE CreateToken(r)
    BY <1>2, <2>1, CreateTokenLands DEF CreateToken, DisclosedExist
  <2>2. CASE ~CreateToken(r)
    <3>1. /\ requests'[r].new = requests[r].new
          /\ requests[r].pc \in MintLabels \ {"create"}
          /\ requests[r].new \notin disclosed
      BY <1>1, <1>2, <2>2 DEF NewRowsAreOwn
    <3>2. PICK q \in Requests : /\ requests[q].pc = "check_grant"
                                /\ requests[q].new = requests[r].new
                                /\ Disclose(q)
      BY <1>2, <3>1, DisclosedGrows DEF At
    <3>3. q = r
      BY <3>1, <3>2 DEF NewRowsAreOwn, MintLabels
    <3> QED
      BY <1>2, <3>2, <3>3, ContinueLands DEF MintLabels
  <2> QED
    BY <2>1, <2>2
<1>3. ASSUME NEW r \in Requests, NEW q \in Requests,
             requests'[r].pc \in MintLabels \ {"create"},
             requests'[q].pc \in MintLabels \ {"create"},
             requests'[q].new = requests'[r].new
      PROVE  q = r
  <2>1. ASSUME CreateToken(r), CreateToken(q), q # r
        PROVE  FALSE
    <3>1. requests'[q] = requests[q]
      BY <2>1, OneHandlerMoves DEF Continue
    <3> QED
      BY <2>1, <3>1, CreateTokenLands DEF CreateToken, At
  <2>2. ASSUME ~CreateToken(r), ~CreateToken(q)
        PROVE  q = r
    BY <1>1, <1>3, <2>2 DEF NewRowsAreOwn
  <2>3. ASSUME NEW p \in {r, q}
        PROVE  \/ CreateToken(p) /\ tokens[requests'[p].new].status = "absent"
               \/ ~CreateToken(p) /\ tokens[requests'[p].new].status # "absent"
    BY <1>1, <1>3, <2>3, CreateTokenLands
  <2> QED
    BY <1>3, <2>1, <2>2, <2>3
<1> QED
  BY <1>2, <1>3 DEF NewRowsAreOwn

LEMMA FamiliesStillHaveCodes ==
    ASSUME IInv, FamilyInv, [Next]_vars
    PROVE  FamiliesHaveCodes'
<1> USE DEF IInv, FamilyInv
<1>0. CodesAdvance /\ CodesKept /\ TokensAdvance /\ TokensKept
  BY RowsAdvance, RowsKept
<1>1. ASSUME NEW c \in CodeIds, codes[c].family # None
      PROVE  /\ codes'[c].family = codes[c].family
             /\ codes'[c].owner = codes[c].owner
             /\ codes'[c].grant = codes[c].grant
  BY <1>0, <1>1 DEF CodesAdvance, CodesKept, FamiliesWellFormed
<1>2. ASSUME NEW t \in TokenIds, tokens'[t].status # "absent"
      PROVE  \E c \in CodeIds : /\ codes[c].family = tokens'[t].family
                                /\ codes[c].family # None
                                /\ codes[c].owner = tokens'[t].owner
                                /\ codes[c].grant = tokens'[t].grant
  <2>1. CASE tokens[t].status # "absent"
    BY <1>0, <2>1 DEF FamiliesHaveCodes, TokensAdvance, TokensKept
  <2>2. CASE tokens[t].status = "absent"
    <3>1. PICK r \in Requests : CreateToken(r) /\ requests'[r].new = t
      BY <1>2, <2>2, NewRowIsCreated
    <3>2. /\ tokens'[t].family = Spends(r).family
          /\ tokens'[t].owner = Spends(r).owner
          /\ tokens'[t].grant = Spends(r).grant
      BY <3>1, CreatedRow
    <3>3. requests[r].pc \in MintLabels /\ HandlerWellFormed(r)
      BY <3>1 DEF CreateToken, At, MintLabels, HandlersWellFormed
    <3>4. CASE requests[r].code # None
      BY <3>2, <3>3, <3>4 DEF HandlerWellFormed, Spends
    <3>5. CASE requests[r].code = None
      <4>1. /\ requests[r].token \in TokenIds
            /\ tokens[requests[r].token].status # "absent"
        BY <3>3, <3>5, IdTypes DEF HandlerWellFormed
      <4>2. Spends(r) = tokens[requests[r].token]
        BY <3>5 DEF Spends
      <4> QED
        BY <3>2, <4>1, <4>2 DEF FamiliesHaveCodes
    <3> QED
      BY <3>4, <3>5
  <2> QED
    BY <2>1, <2>2
<1> QED
  BY <1>1, <1>2 DEF FamiliesHaveCodes

LEMMA FamilyStarts ==
    ASSUME IInv, [Next]_vars
    PROVE  \/ UNCHANGED lastFamily /\ CodesKeepFamilies
           \/ \E c \in CodeIds :
                /\ codes[c].family = None
                /\ lastFamily' = lastFamily + 1
                /\ codes'[c].family = lastFamily + 1
                /\ \A d \in CodeIds : d # c => codes'[d] = codes[d]
<1> USE DEF IInv
<1>1. ASSUME UNCHANGED codes
      PROVE  CodesKeepFamilies
  BY <1>1 DEF CodesKeepFamilies
<1>2. ASSUME NEW r \in Requests, Start(r) \/ Crash(r) \/ (Continue(r) /\ ~ClaimCode(r))
      PROVE  UNCHANGED lastFamily /\ CodesKeepFamilies
  BY <1>1, <1>2, FamilyCounterUntouched, CodesUntouched, CodeStepsKeepFamilies DEF Continue
<1>3. ASSUME NEW r \in Requests, ClaimCode(r), ~UNCHANGED <<codes, lastFamily>>
      PROVE  \E c \in CodeIds :
               /\ codes[c].family = None
               /\ lastFamily' = lastFamily + 1
               /\ codes'[c].family = lastFamily + 1
               /\ \A d \in CodeIds : d # c => codes'[d] = codes[d]
  <2> DEFINE c == requests[r].code
  <2>1. /\ codes[c].status = "unused"
        /\ lastFamily' = lastFamily + 1
        /\ codes' = [codes EXCEPT ![c] = [@ EXCEPT !.status = "claimed",
                                                   !.family = lastFamily + 1]]
    BY <1>3 DEF ClaimCode
  <2>2. c \in CodeIds
    BY <1>3 DEF ClaimCode, At, HandlersWellFormed, HandlerWellFormed, CodeLabels
  <2>3. codes'[c] = [codes[c] EXCEPT !.status = "claimed", !.family = lastFamily + 1]
    BY <2>1, <2>2 DEF TypeOK
  <2>4. codes'[c].family = lastFamily + 1
    BY <2>2, <2>3 DEF TypeOK, CodeRow
  <2>5. codes[c].family = None
    BY <2>1, <2>2 DEF FamiliesWellFormed
  <2>6. \A d \in CodeIds : d # c => codes'[d] = codes[d]
    BY <2>1, <2>2 DEF TypeOK
  <2> QED
    BY <2>1, <2>2, <2>4, <2>5, <2>6
<1>4. ASSUME NEW c \in CodeIds, CodeExpires(c)
      PROVE  UNCHANGED lastFamily /\ CodesKeepFamilies
  BY <1>4 DEF CodeExpires, CodesKeepFamilies, TypeOK, CodeRow
<1>5. CASE UNCHANGED vars
  BY <1>1, <1>5 DEF vars
<1> QED
  BY <1>1, <1>2, <1>3, <1>4, <1>5 DEF Next, Environment

LEMMA StartedIsFinite ==
    /\ IsFiniteSet(CodeIds)
    /\ Cardinality(CodeIds) = MaxCodes
    /\ IsFiniteSet(Started)
    /\ Cardinality(Started) <= MaxCodes
<1>1. IsFiniteSet(CodeIds) /\ Cardinality(CodeIds) = MaxCodes
  BY ConstantsAssumption, FS_Interval DEF CodeIds
<1>2. Started \in SUBSET CodeIds
  BY DEF Started
<1> QED
  BY <1>1, <1>2, FS_Subset

LEMMA FamiliesStayCounted ==
    ASSUME IInv, FamilyInv, [Next]_vars
    PROVE  FamiliesAreCounted'
<1> USE DEF IInv, FamilyInv
<1>1. CASE UNCHANGED lastFamily /\ CodesKeepFamilies
  <2>1. Started' = Started
    BY <1>1 DEF Started, CodesKeepFamilies
  <2> QED
    BY <1>1, <2>1 DEF FamiliesAreCounted
<1>2. ASSUME NEW c \in CodeIds,
             codes[c].family = None,
             lastFamily' = lastFamily + 1,
             codes'[c].family = lastFamily + 1,
             \A d \in CodeIds : d # c => codes'[d] = codes[d]
      PROVE  FamiliesAreCounted'
  <2>1. lastFamily + 1 # None
    BY DEF TypeOK, None
  <2>2. Started' = Started \cup {c} /\ c \notin Started
    BY <1>2, <2>1 DEF Started
  <2>3. Cardinality(Started') = Cardinality(Started) + 1
    BY <2>2, StartedIsFinite, FS_AddElement
  <2> QED
    BY <1>2, <2>3 DEF FamiliesAreCounted
<1> QED
  BY <1>1, <1>2, FamilyStarts

\* The families of the rows are those of the promise.
LEMMA FamilyOfRow ==
    ASSUME IInv, FamilyInv, NEW t \in TokenIds, tokens[t].status # "absent"
    PROVE  tokens[t].family \in Families
<1> USE DEF IInv, FamilyInv
<1>1. tokens[t].family \in Nat /\ tokens[t].family # None /\ tokens[t].family <= lastFamily
  BY DEF TypeOK, TokenRow, FamiliesHaveCodes, FamiliesWellFormed
<1>2. lastFamily <= MaxCodes /\ lastFamily \in Nat
  BY StartedIsFinite DEF FamiliesAreCounted, TypeOK
<1> QED
  BY <1>1, <1>2, ConstantsAssumption DEF Families, None

-----------------------------------------------------------------------------
(* The theorems.                                                           *)

GrantsInvariant ==
    /\ IInv
    /\ ParentsInv
    /\ ReplayInv
    /\ GrantInv
    /\ FamilyInv

LEMMA InitialGrants == Init => GrantsInvariant
<1> SUFFICES ASSUME Init PROVE GrantsInvariant
  OBVIOUS
<1>1. IInv
  BY InitialInvariant
<1>2. /\ disclosed = {}
      /\ replayed = {}
      /\ lastFamily = 0
      /\ lastGrant = 0
      /\ \A r \in Requests : requests[r].pc = "idle"
      /\ \A c \in CodeIds : codes[c].status = "absent" /\ codes[c].family = None
      /\ \A t \in TokenIds : tokens[t].status = "absent"
      /\ \A o \in Owner : /\ consents[o].grant = None
                          /\ consents[o].status = "absent"
                          /\ floor[o] = None
  BY DEF Init, Blank, NoCode, NoToken, NoConsent
<1>3. ParentsInv
  BY <1>2 DEF ParentsInv, ExchangedOnce, ParentsAreClaimed, ParentsAreKnown, ParentIsKnown,
     DisclosedAreSpent, At, MintLabels, CheckLabels
<1>4. ReplayInv
  BY <1>2 DEF ReplayInv, ReplaysInProgress, ReplayInProgress, ReplayedAreMarked,
     ReplayedAreSealed, At
<1>5. GrantInv
  BY <1>2 DEF GrantInv, GrantsAreOrdered, RowsHaveGrants, GrantsAreKnown, GrantIsKnown,
     RevokedGrantIsDead, MintLabels, None
<1>6. FamilyInv
  <2>1. Started = {}
    BY <1>2 DEF Started
  <2>2. FamiliesAreCounted
    BY <1>2, <2>1, FS_EmptySet DEF FamiliesAreCounted
  <2> QED
    BY <1>2, <2>2 DEF FamilyInv, NewRowsAreOwn, FamiliesHaveCodes, MintLabels
<1> QED
  BY <1>1, <1>3, <1>4, <1>5, <1>6 DEF GrantsInvariant

LEMMA GrantsStay == GrantsInvariant /\ [Next]_vars => GrantsInvariant'
<1> SUFFICES ASSUME GrantsInvariant, [Next]_vars PROVE GrantsInvariant'
  OBVIOUS
<1> USE DEF GrantsInvariant
<1>1. IInv'
  BY InvariantStays
<1>2. ParentsInv'
  BY ParentsStayClaimed, ParentsStayKnown, DisclosedStaySpent, StaysExchangedOnce
     DEF ParentsInv
<1>3. ReplayInv'
  BY ReplaysStayInProgress, ReplayedStayMarked, ReplayedStaySealed DEF ReplayInv
<1>4. GrantInv'
  BY GrantsStayOrdered, RowsStillHaveGrants, GrantsStayKnown, RevokedStaysDead DEF GrantInv
<1>5. FamilyInv'
  BY NewRowsStayOwn, FamiliesStillHaveCodes, FamiliesStayCounted DEF FamilyInv
<1> QED
  BY <1>1, <1>2, <1>3, <1>4, <1>5

\* The strengthened invariant of the handlers: what a row was exchanged for, which
\* families were replayed, which generation of a grant and which code a row belongs to.
THEOREM GrantsInductive == Spec => []GrantsInvariant
<1>1. Init => GrantsInvariant
  BY InitialGrants
<1>2. GrantsInvariant /\ [Next]_vars => GrantsInvariant'
  BY GrantsStay
<1> QED
  BY <1>1, <1>2, PTL DEF Spec

\* A code or a refresh token is exchanged for at most one token row (the guarded claims
\* of _token_authorization_code and _token_refresh), whatever retries race and whichever
\* of them crashes half-way.
THEOREM NeverExchangedTwice == Spec => []ExchangedOnce
<1>1. GrantsInvariant => ExchangedOnce
  BY DEF GrantsInvariant, ParentsInv
<1> QED
  BY <1>1, GrantsInductive, PTL

\* What a client holds was paid for: the code or the refresh token it was exchanged for
\* can neither be claimed again nor is it still being rotated (_mint_tokens finalizes it
\* before the row is disclosed).
THEOREM DisclosureIsPaid == Spec => []DisclosedParentIsSpent
<1>1. GrantsInvariant => DisclosedParentIsSpent
  BY IdTypes DEF GrantsInvariant, ParentsInv, DisclosedAreSpent, Spent, SpentCode, SpentToken,
     DisclosedParentIsSpent
<1> QED
  BY <1>1, GrantsInductive, PTL

\* Once the replay of a code is refused, no token of its family is accepted as long as
\* the code's marker is stored (_token_authorization_code and _family_invalidated).
THEOREM ReplayedForGood == Spec => []MarkedReplayIsDead
<1>1. GrantsInvariant => MarkedReplayIsDead
  BY DEF GrantsInvariant, ReplayInv, ReplayedAreSealed, MarkedReplayIsDead, Live
<1> QED
  BY <1>1, GrantsInductive, PTL

\* Once revoke_consent is answered, no token minted under the generation it withdrew, or
\* an earlier one, is accepted, however the exchanges and refreshes in flight end.
THEOREM WithdrawnForGood == Spec => []RevokedGrantIsDead
<1>1. GrantsInvariant => RevokedGrantIsDead
  BY DEF GrantsInvariant, GrantInv
<1> QED
  BY <1>1, GrantsInductive, PTL

\* No step of a handler erases the last compromise marker of a family, but the deletion
\* of the code's row by an exchange that had read it as expired.
THEOREM MarkersNeverErased == Spec => MarkersAreDurable
<1>1. ASSUME IInv, [Next]_vars, NEW f \in Families, Marked(f),
             \A c \in CodeIds : codes[c].family = f => codes'[c].status # "deleted"
      PROVE  Marked(f)'
  <2>0. CodesAdvance /\ CodesKept /\ TokensAdvance
    BY <1>1, RowsAdvance, RowsKept DEF IInv
  <2>1. CASE TokenInvalidated(f)
    BY <2>0, <2>1, MarkersStay DEF Marked
  <2>2. CASE CodeCompromised(f)
    <3>1. PICK c \in CodeIds : codes[c].family = f /\ codes[c].status = "compromised"
      BY <2>2 DEF CodeCompromised
    <3>2. f # None
      BY ConstantsAssumption DEF Families, None
    <3>3. codes'[c].family = f /\ codes'[c].status = "compromised"
      BY <1>1, <2>0, <3>1, <3>2 DEF CodesAdvance, CodesKept
    <3> QED
      BY <3>3 DEF CodeCompromised, Marked
  <2> QED
    BY <1>1, <2>1, <2>2 DEF Marked
<1>2. IInv /\ [Next]_vars
      => [\A f \in Families :
            /\ Marked(f)
            /\ \A c \in CodeIds : codes[c].family = f => codes'[c].status # "deleted"
            => Marked(f)']_vars
  BY <1>1
<1> QED
  BY <1>2, InductiveInvariant, PTL DEF Spec, MarkersAreDurable

-----------------------------------------------------------------------------
(* The handlers implement TokenFamily.                                     *)

LiveOf(f) == {t \in TokenIds : tokens[t].family = f /\ Live(t)}
Ended(f) == f \in closed \/ FamilyOfGrantBelowFloor(f)

\* A step makes live at most the row it discloses.
LEMMA LiveWasLive ==
    ASSUME IInv, [Next]_vars, NEW t \in TokenIds, t \in disclosed,
           t \in disclosed', tokens'[t].status = "active"
    PROVE  tokens[t].status = "active" /\ tokens'[t].family = tokens[t].family
BY ActiveWasActive

\* An ended family has no live credential.
EndedAreDead == \A t \in TokenIds : Ended(tokens[t].family) => ~Live(t)

LEMMA EndedIsDead == GrantsInvariant => EndedAreDead
<1> SUFFICES ASSUME GrantsInvariant, NEW t \in TokenIds, Ended(tokens[t].family), Live(t)
             PROVE  FALSE
  BY DEF EndedAreDead
<1> USE DEF GrantsInvariant, IInv, GrantInv, FamilyInv
<1> DEFINE f == tokens[t].family
<1>1. CASE f \in closed
  BY <1>1 DEF ClosedStaysMarked, Live
<1>2. CASE FamilyOfGrantBelowFloor(f)
  <2>1. PICK c \in CodeIds : codes[c].family = f /\ codes[c].grant <= floor[codes[c].owner]
    BY <1>2 DEF FamilyOfGrantBelowFloor
  <2>2. tokens[t].status # "absent"
    BY DEF Live
  <2>3. PICK d \in CodeIds : /\ codes[d].family = f
                             /\ codes[d].family # None
                             /\ codes[d].owner = tokens[t].owner
                             /\ codes[d].grant = tokens[t].grant
    BY <2>2 DEF FamiliesHaveCodes
  <2>4. c = d
    BY <2>1, <2>3 DEF FamiliesWellFormed
  <2> QED
    BY <2>1, <2>2, <2>3, <2>4 DEF RevokedGrantIsDead
<1> QED
  BY <1>1, <1>2 DEF Ended

\* A family that has ended stays so.
LEMMA EndedStays ==
    ASSUME GrantsInvariant, [Next]_vars, NEW f \in Families, Ended(f)
    PROVE  Ended(f)'
<1> USE DEF GrantsInvariant, IInv, GrantInv
<1>0. CodesAdvance /\ CodesKept
  BY RowsAdvance, RowsKept
<1>1. CASE f \in closed
  <2>1. \/ UNCHANGED closed
        \/ \E r \in Requests : TokenSweep(r) \/ RevokeFamily(r)
    BY ClosedUntouched DEF Next, Environment, CodeExpires, history, vars
  <2>2. closed \subseteq closed'
    BY <2>1 DEF TokenSweep, RevokeFamily
  <2> QED
    BY <1>1, <2>2 DEF Ended
<1>2. CASE FamilyOfGrantBelowFloor(f)
  <2>1. PICK c \in CodeIds : codes[c].family = f /\ codes[c].grant <= floor[codes[c].owner]
    BY <1>2 DEF FamilyOfGrantBelowFloor
  <2>2. codes[c].status # "absent"
    BY <2>1, ConstantsAssumption DEF FamiliesWellFormed, Families, None
  <2> DEFINE o == codes[c].owner
  <2>3. o \in Owner /\ codes[c].grant \in GrantIds
    BY <2>2 DEF RowsHaveGrants
  <2>4. floor[o] \in Nat /\ codes[c].grant \in Nat
    BY <2>3, IdTypes, GrantNumbers
  <2>5. codes[c].grant <= floor'[o]
    <3>1. CASE floor'[o] = floor[o]
      BY <2>1, <3>1
    <3>2. CASE floor'[o] # floor[o]
      <4>1. PICK r \in Requests : RevokeTokens(r) /\ requests[r].owner = o
        BY <2>3, <3>2, FloorMoves
      <4>2. floor'[o] = IF floor[o] < requests[r].grant THEN requests[r].grant ELSE floor[o]
        BY <2>3, <4>1 DEF RevokeTokens, TypeOK
      <4>3. requests[r].grant \in Nat
        BY IdTypes DEF TypeOK, Locals
      <4> HIDE DEF o
      <4> QED
        BY <2>1, <2>4, <4>2, <4>3 DEF o
    <3> QED
      BY <3>1, <3>2
  <2>6. f # None
    BY ConstantsAssumption DEF Families, None
  <2>7. /\ codes'[c].family = f
        /\ codes'[c].grant = codes[c].grant
        /\ codes'[c].owner = o
    BY <1>0, <2>1, <2>2, <2>6 DEF CodesAdvance, CodesKept
  <2> QED
    BY <2>5, <2>7 DEF Ended, FamilyOfGrantBelowFloor
<1> QED
  BY <1>1, <1>2 DEF Ended

LEMMA InitialPromise == Init => Promise!Init
<1> SUFFICES ASSUME Init PROVE Promise!Init
  OBVIOUS
<1>1. disclosed = {} /\ closed = {} /\ \A c \in CodeIds : codes[c].family = None
  BY DEF Init, NoCode
<1>2. \A f \in Families : f # None
  BY ConstantsAssumption DEF Families, None
<1> QED
  BY <1>1, <1>2 DEF Promise!Init, Live, FamilyOfGrantBelowFloor

\* The steps of the promise, for a family and a row of the instance.
LEMMA IssueIsNext ==
    ASSUME NEW f \in Families, NEW t \in TokenIds, Promise!Issue(f, t) \/ Promise!IssueDead(t)
    PROVE  Promise!Next
BY DEF Promise!Next

\* The disclosure of a row.
LEMMA DiscloseIssues ==
    ASSUME GrantsInvariant, NEW r \in Requests, Disclose(r), requests[r].new \notin disclosed
    PROVE  Promise!Next
<1> USE DEF GrantsInvariant, IInv, GrantInv, FamilyInv
<1>0. PICK t, f : t = requests[r].new /\ f = tokens[t].family
  OBVIOUS
<1>1. /\ UNCHANGED <<tokens, codes, closed, floor>>
      /\ disclosed' = disclosed \cup {t}
      /\ At(r, "check_grant")
      /\ GrantActive(Spends(r).owner, Spends(r).grant)
  BY <1>0 DEF Disclose, tables
<1>2. /\ t \in TokenIds
      /\ tokens[t].status # "absent"
      /\ tokens[t].owner = Spends(r).owner
      /\ tokens[t].grant = Spends(r).grant
  BY <1>0, <1>1 DEF At, HandlersWellFormed, HandlerWellFormed, GrantsAreKnown, GrantIsKnown,
     MintLabels
<1>3. f \in Families
  BY <1>0, <1>2, FamilyOfRow
<1>4. CASE tokens[t].status = "active"
  <2>1. LiveOf(f) = {}
    BY <1>0, <1>2, <1>4 DEF LiveOf, Live, OneActivePerFamily
  <2>2. f \notin closed
    BY <1>0, <1>1, <1>2, <1>4 DEF ClosedStaysMarked
  <2>3. ~FamilyOfGrantBelowFloor(f)
    <3>1. SUFFICES ASSUME NEW c \in CodeIds, codes[c].family = f,
                          codes[c].grant <= floor[codes[c].owner]
                   PROVE  FALSE
      BY DEF FamilyOfGrantBelowFloor
    <3>2. codes[c].owner = tokens[t].owner /\ codes[c].grant = tokens[t].grant
      BY <1>0, <1>2, <3>1 DEF FamiliesHaveCodes, FamiliesWellFormed
    <3>3. tokens[t].owner \in Owner
      BY <1>2 DEF RowsHaveGrants
    <3>4. floor[tokens[t].owner] < tokens[t].grant
      BY <1>1, <1>2, <3>3 DEF GrantActive, GrantsAreOrdered
    <3>5. floor[tokens[t].owner] \in Nat /\ tokens[t].grant \in Nat
      BY <1>2, <3>3, GrantNumbers, IdTypes DEF RowsHaveGrants
    <3> QED
      BY <3>1, <3>2, <3>4, <3>5
  <2>4. \A g \in Families : LiveOf(g)' = IF g = f THEN {t} ELSE LiveOf(g)
    BY <1>0, <1>1, <1>2, <1>4, <2>1 DEF LiveOf, Live
  <2>5. Promise!Issue(f, t)
    BY <1>0, <1>1, <1>3, <2>1, <2>2, <2>3, <2>4
       DEF Promise!Issue, LiveOf, FamilyOfGrantBelowFloor
  <2> QED
    BY <1>2, <1>3, <2>5, IssueIsNext
<1>5. CASE tokens[t].status # "active"
  <2>1. \A u \in TokenIds : Live(u)' <=> Live(u)
    BY <1>1, <1>5 DEF Live
  <2>2. Promise!IssueDead(t)
    BY <1>0, <1>1, <2>1 DEF Promise!IssueDead, FamilyOfGrantBelowFloor
  <2> QED
    BY <1>2, <1>3, <2>2, IssueIsNext
<1> QED
  BY <1>4, <1>5

\* Any other step.
LEMMA OthersRetire ==
    ASSUME GrantsInvariant, EndedAreDead', [Next]_vars, UNCHANGED disclosed
    PROVE  Promise!Next
<1>0. PICK F, C : /\ F = {f \in Families : LiveOf(f)' = {}}
                  /\ C = {f \in Families : Ended(f)'}
  OBVIOUS
<1>1. ASSUME NEW f \in Families, f \notin F
      PROVE  LiveOf(f)' = LiveOf(f)
  <2>1. PICK t \in TokenIds : tokens'[t].family = f /\ Live(t)'
    BY <1>0, <1>1 DEF LiveOf
  <2>2. \A u \in TokenIds : tokens'[u].family = f /\ Live(u)' =>
                               tokens[u].family = f /\ Live(u)
    BY LiveWasLive DEF Live, GrantsInvariant
  <2>3. \A u \in TokenIds : tokens[u].family = f /\ Live(u) => u = t
    BY <2>1, <2>2 DEF Live, GrantsInvariant, IInv, OneActivePerFamily
  <2> QED
    BY <2>1, <2>2, <2>3 DEF LiveOf
<1>2. ASSUME NEW f \in C
      PROVE  LiveOf(f)' = {}
  <2>1. ASSUME NEW t \in TokenIds, tokens'[t].family = f, Live(t)'
        PROVE  FALSE
    BY <1>0, <1>2, <2>1 DEF EndedAreDead
  <2> QED
    BY <2>1 DEF LiveOf
<1>3. \A f \in Families : Ended(f) => Ended(f)'
  BY EndedStays
<1>4. Promise!Retire(F, C)
  BY <1>0, <1>1, <1>2, <1>3 DEF Promise!Retire, LiveOf, Ended
<1>5. F \in SUBSET Families /\ C \in SUBSET Families
  BY <1>0
<1> QED
  BY <1>4, <1>5 DEF Promise!Next

LEMMA PromiseStep ==
    GrantsInvariant /\ EndedAreDead' /\ [Next]_vars => [Promise!Next]_(Promise!vars)
<1> SUFFICES ASSUME GrantsInvariant, EndedAreDead', [Next]_vars
             PROVE  Promise!Next
  OBVIOUS
<1>1. CASE UNCHANGED disclosed
  BY <1>1, OthersRetire
<1>2. CASE disclosed' # disclosed
  <2>1. disclosed \subseteq disclosed'
    BY DisclosedUntouched DEF Next, Environment, CodeExpires, history, vars, Disclose
  <2>2. PICK t : t \in disclosed' /\ t \notin disclosed
    BY <1>2, <2>1
  <2> QED
    BY <2>2, DisclosedGrows, DiscloseIssues
<1> QED
  BY <1>1, <1>2

\* The handlers of authorization_server.py implement the promise: a family has at most
\* one live credential, a credential is issued once, and a family that is closed by a
\* revocation, a refresh replay or the withdrawal of the consent stays without one.
THEOREM PromiseKept == Spec => FamiliesKeepThePromise
<1>1. Init => Promise!Init
  BY InitialPromise
<1>2. GrantsInvariant /\ EndedAreDead' /\ [Next]_vars => [Promise!Next]_(Promise!vars)
  BY PromiseStep
<1>3. GrantsInvariant => EndedAreDead
  BY EndedIsDead
<1> QED
  BY <1>1, <1>2, <1>3, GrantsInductive, PTL DEF Spec, FamiliesKeepThePromise, Promise!Spec
=============================================================================
