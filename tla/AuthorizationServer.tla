------------------------- MODULE AuthorizationServer -------------------------
(***************************************************************************)
(* The OAuth authorization server of hayate-auth                           *)
(* (src/src/hayate_auth/authorization_server.py): consents, authorization  *)
(* codes and token families, driven by HTTP handlers that are asyncio      *)
(* coroutines.  A handler gives up control at every await, several workers *)
(* may share one database, and each adapter call (find_one, create,        *)
(* update_many, delete) is the unit that is atomic.  So one action is one  *)
(* adapter call with the computation up to the next one, and a handler     *)
(* carries the row it read in its local variables across the steps of the  *)
(* others.                                                                 *)
(*                                                                         *)
(* A row is addressed by its id.  Its columns other than `used`,           *)
(* `family_id` and `revoked` never change once it is inserted, so what a   *)
(* handler remembers of a row is the id, and the branch it took on the     *)
(* changing columns is in its program counter.                             *)
(***************************************************************************)
EXTENDS Naturals, FiniteSets

CONSTANTS
    Requests,        \* the handlers that may run at the same time
    Users,
    Clients,         \* registered OAuth clients
    RefreshClients,  \* those whose grant_types include refresh_token
    ScopeSets,       \* the scope parameters the clients ask for
    MaxCodes,        \* bound: oauth_code rows ever inserted
    MaxTokens,       \* bound: oauth_token rows ever inserted
    MaxGrants,       \* bound: grant ids ever drawn
    Operations       \* what happens in the instance (see AllOperations)

AllOperations == {"authorize", "consent", "exchange", "refresh", "revoke_token",
                  "revoke_consent", "code_expiry", "crash"}

ASSUME ConstantsAssumption ==
    /\ RefreshClients \subseteq Clients
    /\ MaxCodes \in Nat
    /\ MaxTokens \in Nat
    /\ MaxGrants \in Nat
    /\ Operations \subseteq AllOperations

Scopes == UNION ScopeSets
Owner == Users \X Clients              \* the key of a consent: (user_id, client_id)
ClientOf(owner) == owner[2]
NoOwner == <<>>

CodeIds == 1..MaxCodes
TokenIds == 1..MaxTokens
GrantIds == 1..MaxGrants
None == 0                              \* SQL NULL, and an unset local variable

\* oauth_code.used is 0, 1, 2 or 3; a row may not exist yet or have been deleted.
CodeStatus == {"absent", "unused", "claimed", "compromised", "finalized", "deleted"}
\* oauth_token.revoked: TOKEN_ACTIVE, _ROTATING, _COMPROMISED, _ROTATED, _REVOKED.
TokenStatus == {"absent", "active", "rotating", "compromised", "rotated", "revoked"}

Labels == {"idle", "consent_create", "consent_regrant", "consent_merge", "mint_code",
           "delete_code", "code_mark_claimed", "code_mark_finalized", "code_sweep",
           "code_grant", "code_claim",
           "token_mark_rotating", "token_mark_rotated", "token_sweep",
           "token_grant", "token_claim",
           "create", "finalize", "check_code", "check_tokens", "check_grant", "burn",
           "revoke_row", "revoke_family",
           "revoke_grant", "revoke_codes", "revoke_tokens"}

VARIABLES
    consents,    \* table oauth_consent, UNIQUE (user_id, client_id)
    codes,       \* table oauth_code
    tokens,      \* table oauth_token
    lastGrant,   \* the newest grant id that new_id() has returned
    lastFamily,  \* the newest family id stored
    cookies,     \* signed pending-authorization cookies handed to browsers; one that
                 \* expires or is cleared is one that is not sent again
    requests,    \* the handlers' program counters and local variables
    disclosed,   \* token rows whose credentials were sent to their client
    parent,      \* history: the credential each token row was exchanged for
    closed,      \* history: families whose revocation or refresh replay was answered
    replayed,    \* history: families of codes whose replay was answered
    floor,       \* history: newest grant generation revoked for an owner, once answered
    accepted     \* history: the scopes the user accepted for each grant id

tables == <<consents, codes, tokens, lastGrant, lastFamily>>
history == <<disclosed, parent, closed, replayed, floor, accepted>>
vars == <<consents, codes, tokens, lastGrant, lastFamily, cookies, requests,
          disclosed, parent, closed, replayed, floor, accepted>>

NoConsent == [status |-> "absent", grant |-> None, scope |-> {}]
NoCode == [status |-> "absent", owner |-> NoOwner, grant |-> None, scope |-> {},
           family |-> None, expired |-> FALSE]
NoToken == [status |-> "absent", owner |-> NoOwner, grant |-> None, scope |-> {},
            family |-> None]
NoParent == [code |-> None, token |-> None]
Blank == [pc |-> "idle", owner |-> NoOwner, scope |-> {}, merged |-> {}, grant |-> None,
          code |-> None, token |-> None, new |-> None]

ConsentRow == [status: {"absent", "granted", "revoked"}, grant: GrantIds \cup {None},
               scope: SUBSET Scopes]
CodeRow == [status: CodeStatus, owner: Owner \cup {NoOwner}, grant: GrantIds \cup {None},
            scope: SUBSET Scopes, family: Nat, expired: BOOLEAN]
TokenRow == [status: TokenStatus, owner: Owner \cup {NoOwner},
             grant: GrantIds \cup {None}, scope: SUBSET Scopes, family: Nat]
Locals == [pc: Labels, owner: Owner \cup {NoOwner}, scope: SUBSET Scopes,
           merged: SUBSET Scopes, grant: GrantIds \cup {None},
           code: CodeIds \cup {None}, token: TokenIds \cup {None},
           new: TokenIds \cup {None}]
Credential == [code: CodeIds \cup {None}, token: TokenIds \cup {None}]

TypeOK ==
    /\ consents \in [Owner -> ConsentRow]
    /\ codes \in [CodeIds -> CodeRow]
    /\ tokens \in [TokenIds -> TokenRow]
    /\ lastGrant \in 0..MaxGrants
    /\ lastFamily \in Nat
    /\ cookies \subseteq Owner \X SUBSET Scopes
    /\ requests \in [Requests -> Locals]
    /\ disclosed \subseteq TokenIds
    /\ parent \in [TokenIds -> Credential]
    /\ closed \subseteq Nat
    /\ replayed \subseteq Nat
    /\ floor \in [Owner -> GrantIds \cup {None}]
    /\ accepted \in [GrantIds -> SUBSET Scopes]

Init ==
    /\ consents = [o \in Owner |-> NoConsent]
    /\ codes = [c \in CodeIds |-> NoCode]
    /\ tokens = [t \in TokenIds |-> NoToken]
    /\ lastGrant = 0
    /\ lastFamily = 0
    /\ cookies = {}
    /\ requests = [r \in Requests |-> Blank]
    /\ disclosed = {}
    /\ parent = [t \in TokenIds |-> NoParent]
    /\ closed = {}
    /\ replayed = {}
    /\ floor = [o \in Owner |-> None]
    /\ accepted = [g \in GrantIds |-> {}]

-----------------------------------------------------------------------------
(* Helpers: the control flow of a handler and the queries it runs.         *)

At(r, label) == requests[r].pc = label
Arrives(r, operation) == operation \in Operations /\ At(r, "idle")
Begin(r, locals) == requests' = [requests EXCEPT ![r] = locals]
Goto(r, label) == requests' = [requests EXCEPT ![r].pc = label]
Return(r) == requests' = [requests EXCEPT ![r] = Blank]

\* Mutant: the generation of the grant is not compared.
GrantActiveOfAnyGeneration(owner, grant) == consents[owner].status = "granted"

\* _grant_active
GrantActive(owner, grant) ==
    consents[owner].status = "granted" /\ consents[owner].grant = grant

\* The two finds of _family_invalidated.
CodeCompromised(family) ==
    \E c \in CodeIds : codes[c].family = family /\ codes[c].status = "compromised"
TokenInvalidated(family) ==
    \E t \in TokenIds : /\ tokens[t].family = family
                        /\ tokens[t].status \in {"compromised", "revoked"}

\* update_many(family_id, revoked = TOKEN_ACTIVE -> status)
SweepFamily(family, status) ==
    tokens' = [t \in TokenIds |->
                 IF tokens[t].family = family /\ tokens[t].status = "active"
                 THEN [tokens[t] EXCEPT !.status = status]
                 ELSE tokens[t]]

\* The arguments _mint_tokens was called with.
Spends(r) == IF requests[r].code # None THEN codes[requests[r].code]
                                        ELSE tokens[requests[r].token]

\* new_id() is a UUIDv7: ids are handed out in ascending order and never twice.
IsNextCode(c) == /\ codes[c].status = "absent"
                 /\ \A d \in CodeIds : d < c => codes[d].status # "absent"
IsNextToken(t) == /\ tokens[t].status = "absent"
                  /\ \A u \in TokenIds : u < t => tokens[u].status # "absent"

\* Bounds: a request that will insert a row or draw a grant id is let in only if the
\* instance has one left for it, so that no handler is stuck half-way by a bound.
CodeRoom ==
    Cardinality({c \in CodeIds : codes[c].status # "absent"})
      + Cardinality({r \in Requests : requests[r].pc \in
                       {"consent_create", "consent_regrant", "consent_merge", "mint_code"}})
      < MaxCodes
TokenRoom ==
    Cardinality({t \in TokenIds : tokens[t].status # "absent"})
      + Cardinality({r \in Requests : At(r, "create")}) < MaxTokens
GrantRoom ==
    lastGrant + Cardinality({r \in Requests : requests[r].pc \in
                               {"consent_create", "consent_regrant", "revoke_grant"}})
      < MaxGrants

-----------------------------------------------------------------------------
(* Mutants: the steps below with one plausible mistake each.  No action of  *)
(* the specification uses them; with one of them in the place of the action *)
(* it is named after, a property of the runs fails.                         *)

\* Writes oauth_code's value for a finalized row.
FinalizeTokenAsCode(r) ==
    /\ At(r, "finalize")
    /\ requests[r].code = None
    /\ tokens' = [tokens EXCEPT ![requests[r].token].status = "finalized"]
    /\ Goto(r, "check_code")
    /\ UNCHANGED <<consents, codes, lastGrant, lastFamily, cookies, history>>

\* update by id instead of the guarded 0 -> 1 transition.
ClaimTokenUnguarded(r) ==
    /\ At(r, "token_claim")
    /\ TokenRoom
    /\ tokens' = [tokens EXCEPT ![requests[r].token].status = "rotating"]
    /\ Goto(r, "create")
    /\ UNCHANGED <<consents, codes, lastGrant, lastFamily, cookies, history>>

ClaimCodeUnguarded(r) ==
    /\ At(r, "code_claim")
    /\ TokenRoom
    /\ lastFamily' = lastFamily + 1
    /\ codes' = [codes EXCEPT ![requests[r].code] = [@ EXCEPT !.status = "claimed",
                                                         !.family = lastFamily + 1]]
    /\ requests' = [requests EXCEPT ![r] = [@ EXCEPT !.pc = "create",
                                                    !.scope = codes[requests[r].code].scope]]
    /\ UNCHANGED <<consents, tokens, lastGrant, cookies, history>>

\* The claimed code is left at 1.
FinalizeCodeForgotten(r) ==
    /\ At(r, "finalize")
    /\ requests[r].code # None
    /\ Goto(r, "check_code")
    /\ UNCHANGED <<tables, cookies, history>>

\* The row is finalized whatever became of it.
FinalizeCodeUnguarded(r) ==
    /\ At(r, "finalize")
    /\ requests[r].code # None
    /\ codes' = [codes EXCEPT ![requests[r].code].status = "finalized"]
    /\ Goto(r, "check_code")
    /\ UNCHANGED <<consents, tokens, lastGrant, lastFamily, cookies, history>>

\* The family is not looked up before the disclosure.
CheckCodeSkipped(r) ==
    /\ At(r, "check_code")
    /\ Goto(r, "check_tokens")
    /\ UNCHANGED <<tables, cookies, history>>

CheckTokensSkipped(r) ==
    /\ At(r, "check_tokens")
    /\ Goto(r, "check_grant")
    /\ UNCHANGED <<tables, cookies, history>>

\* The inserted row is refused to the client but stays active.
BurnNothing(r) ==
    /\ At(r, "burn")
    /\ Return(r)
    /\ UNCHANGED <<tables, cookies, history>>

\* Only the presented token is revoked.
RevokeRowOnly(r) ==
    /\ At(r, "revoke_family")
    /\ closed' = closed \cup {tokens[requests[r].token].family}
    /\ Return(r)
    /\ UNCHANGED <<tables, cookies, disclosed, parent, replayed, floor, accepted>>

-----------------------------------------------------------------------------
(* GET /oauth2/authorize: look the consent up; mint a code at once when it *)
(* covers the scope, else send the browser to the consent page with a      *)
(* signed cookie.                                                          *)

AuthorizeCovered(r, o, s) ==
    /\ Arrives(r, "authorize")
    /\ CodeRoom
    /\ consents[o].status = "granted"
    /\ s \subseteq consents[o].scope
    /\ Begin(r, [Blank EXCEPT !.pc = "mint_code", !.owner = o, !.scope = s,
                              !.grant = consents[o].grant])
    /\ UNCHANGED <<tables, cookies, history>>

AuthorizeAsks(r, o, s) ==
    /\ Arrives(r, "authorize")
    /\ ~(consents[o].status = "granted" /\ s \subseteq consents[o].scope)
    /\ cookies' = cookies \cup {<<o, s>>}
    /\ UNCHANGED <<tables, requests, history>>

(* POST /oauth2/consent, the user accepting: read the consent row ...      *)
ConsentReads(r, cookie) ==
    /\ Arrives(r, "consent")
    /\ CodeRoom
    /\ consents[cookie[1]].status = "granted" \/ GrantRoom
    /\ LET o == cookie[1]
           s == cookie[2]
           existing == consents[o]
       IN Begin(r, [Blank EXCEPT
                      !.pc = CASE existing.status = "absent" -> "consent_create"
                               [] existing.status = "revoked" -> "consent_regrant"
                               [] existing.status = "granted" -> "consent_merge",
                      !.owner = o, !.scope = s,
                      !.grant = IF existing.status = "granted" THEN existing.grant ELSE None,
                      !.merged = IF existing.status = "granted" THEN existing.scope \cup s
                                                                ELSE {}])
    /\ UNCHANGED <<tables, cookies, history>>

Grants(r, o) ==
    /\ lastGrant < MaxGrants
    /\ lastGrant' = lastGrant + 1
    /\ consents' = [consents EXCEPT ![o] = [status |-> "granted", grant |-> lastGrant + 1,
                                            scope |-> requests[r].scope]]
    /\ accepted' = [accepted EXCEPT ![lastGrant + 1] = requests[r].scope]
    /\ requests' = [requests EXCEPT ![r] = [@ EXCEPT !.pc = "mint_code",
                                                      !.grant = lastGrant + 1]]

\* ... insert it, unless another request inserted it first (the UNIQUE
\* constraint raises and the request fails) ...
ConsentCreates(r) ==
    /\ At(r, "consent_create")
    /\ \/ /\ consents[requests[r].owner].status = "absent"
          /\ Grants(r, requests[r].owner)
       \/ /\ consents[requests[r].owner].status # "absent"
          /\ Return(r)
          /\ UNCHANGED <<consents, lastGrant, accepted>>
    /\ UNCHANGED <<codes, tokens, lastFamily, cookies,
                   disclosed, parent, closed, replayed, floor>>

\* ... give a revoked row a new generation ...
ConsentRegrants(r) ==
    /\ At(r, "consent_regrant")
    /\ Grants(r, requests[r].owner)
    /\ UNCHANGED <<codes, tokens, lastFamily, cookies,
                   disclosed, parent, closed, replayed, floor>>

\* ... or write the merged scope, computed from the row as it was read.
ConsentMerges(r) ==
    /\ At(r, "consent_merge")
    /\ consents' = [consents EXCEPT ![requests[r].owner].scope = requests[r].merged]
    /\ accepted' = [accepted EXCEPT ![requests[r].grant] = @ \cup requests[r].scope]
    /\ Goto(r, "mint_code")
    /\ UNCHANGED <<codes, tokens, lastGrant, lastFamily, cookies,
                   disclosed, parent, closed, replayed, floor>>

(* _mint_code, then the redirect that hands the code to the client.        *)
MintCode(r) ==
    /\ At(r, "mint_code")
    /\ \E c \in CodeIds :
         /\ IsNextCode(c)
         /\ codes' = [codes EXCEPT ![c] =
                        [status |-> "unused", owner |-> requests[r].owner,
                         grant |-> requests[r].grant, scope |-> requests[r].scope,
                         family |-> None, expired |-> FALSE]]
    /\ Return(r)
    /\ UNCHANGED <<consents, tokens, lastGrant, lastFamily, cookies, history>>

CodeExpires(c) ==
    /\ "code_expiry" \in Operations
    /\ codes[c].status \notin {"absent", "deleted"}
    /\ ~codes[c].expired
    /\ codes' = [codes EXCEPT ![c].expired = TRUE]
    /\ UNCHANGED <<consents, tokens, lastGrant, lastFamily, cookies, requests, history>>

-----------------------------------------------------------------------------
(* POST /oauth2/token, grant_type=authorization_code.                      *)

\* The row was deleted: invalid_grant.  The family it had started is recorded,
\* for the code is then one that was already exchanged.
ExchangeMissing(r, c) ==
    /\ Arrives(r, "exchange")
    /\ codes[c].status = "deleted"
    /\ codes[c].family # None
    /\ replayed' = replayed \cup {codes[c].family}
    /\ UNCHANGED <<tables, cookies, requests, disclosed, parent, closed, floor, accepted>>

\* used # 0, whoever presents it: a replay, if the code has issued a family.
ExchangeReplay(r, c) ==
    /\ Arrives(r, "exchange")
    /\ codes[c].status \in {"claimed", "compromised", "finalized"}
    /\ codes[c].family # None
    /\ Begin(r, [Blank EXCEPT !.pc = "code_mark_claimed", !.code = c])
    /\ UNCHANGED <<tables, cookies, history>>

ExchangeExpired(r, c) ==
    /\ Arrives(r, "exchange")
    /\ codes[c].status = "unused"
    /\ codes[c].expired
    /\ Begin(r, [Blank EXCEPT !.pc = "delete_code", !.code = c])
    /\ UNCHANGED <<tables, cookies, history>>

\* Any other client than the code's is refused, and nothing changes.
ExchangeUnused(r, c) ==
    /\ Arrives(r, "exchange")
    /\ codes[c].status = "unused"
    /\ ~codes[c].expired
    /\ Begin(r, [Blank EXCEPT !.pc = "code_grant", !.code = c])
    /\ UNCHANGED <<tables, cookies, history>>

\* delete() is by id only: the row goes whatever became of it since it was read.
DeleteCode(r) ==
    /\ At(r, "delete_code")
    /\ codes' = [codes EXCEPT ![requests[r].code].status =
                   IF @ = "absent" THEN @ ELSE "deleted"]
    /\ Return(r)
    /\ UNCHANGED <<consents, tokens, lastGrant, lastFamily, cookies, history>>

\* update_many(used = from -> 2); without a match at 1 the handler tries 3.
CodeMarkClaimed(r) ==
    /\ At(r, "code_mark_claimed")
    /\ \/ /\ codes[requests[r].code].status = "claimed"
          /\ codes' = [codes EXCEPT ![requests[r].code].status = "compromised"]
          /\ Goto(r, "code_sweep")
       \/ /\ codes[requests[r].code].status # "claimed"
          /\ Goto(r, "code_mark_finalized")
          /\ UNCHANGED codes
    /\ UNCHANGED <<consents, tokens, lastGrant, lastFamily, cookies, history>>

CodeMarkFinalized(r) ==
    /\ At(r, "code_mark_finalized")
    /\ codes' = [codes EXCEPT ![requests[r].code].status =
                   IF @ = "finalized" THEN "compromised" ELSE @]
    /\ Goto(r, "code_sweep")
    /\ UNCHANGED <<consents, tokens, lastGrant, lastFamily, cookies, history>>

CodeSweep(r) ==
    /\ At(r, "code_sweep")
    /\ SweepFamily(codes[requests[r].code].family, "rotating")
    /\ replayed' = replayed \cup {codes[requests[r].code].family}
    /\ Return(r)
    /\ UNCHANGED <<consents, codes, lastGrant, lastFamily, cookies,
                   disclosed, parent, closed, floor, accepted>>

CodeGrantCheck(r) ==
    /\ At(r, "code_grant")
    /\ IF GrantActive(codes[requests[r].code].owner, codes[requests[r].code].grant)
       THEN Goto(r, "code_claim")
       ELSE Return(r)
    /\ UNCHANGED <<tables, cookies, history>>

\* A mismatched redirect_uri, PKCE verifier, resource or DPoP proof.
RejectCode(r) ==
    /\ At(r, "code_claim")
    /\ Return(r)
    /\ UNCHANGED <<tables, cookies, history>>

\* The guarded 0 -> 1 transition; the loser of a race leaves the family alone.
ClaimCode(r) ==
    /\ At(r, "code_claim")
    /\ LET c == requests[r].code IN
       \/ /\ codes[c].status = "unused"
          /\ TokenRoom
          /\ lastFamily' = lastFamily + 1
          /\ codes' = [codes EXCEPT ![c] = [@ EXCEPT !.status = "claimed",
                                                  !.family = lastFamily + 1]]
          /\ requests' = [requests EXCEPT ![r] = [@ EXCEPT !.pc = "create",
                                                        !.scope = codes[c].scope]]
       \/ /\ codes[c].status # "unused"
          /\ Return(r)
          /\ UNCHANGED <<codes, lastFamily>>
    /\ UNCHANGED <<consents, tokens, lastGrant, cookies, history>>

-----------------------------------------------------------------------------
(* POST /oauth2/token, grant_type=refresh_token.  Only a client that was   *)
(* sent the refresh token can present it.                                  *)

\* The lookup by refresh_token_hash finds a row: _mint_tokens stored a hash
\* (with_refresh), and the client that was sent the token presents it.
Refreshable(t) == t \in disclosed /\ ClientOf(tokens[t].owner) \in RefreshClients

RefreshReplay(r, t) ==
    /\ Arrives(r, "refresh")
    /\ Refreshable(t)
    /\ tokens[t].status # "active"
    /\ Begin(r, [Blank EXCEPT !.pc = "token_mark_rotating", !.token = t])
    /\ UNCHANGED <<tables, cookies, history>>

\* The requested scope may only narrow the row's; without one it is the row's.
RefreshActive(r, t) ==
    /\ Arrives(r, "refresh")
    /\ Refreshable(t)
    /\ tokens[t].status = "active"
    /\ \E s \in {x \in ScopeSets : x # {} /\ x \subseteq tokens[t].scope}
                   \cup {tokens[t].scope} :
         Begin(r, [Blank EXCEPT !.pc = "token_grant", !.token = t, !.scope = s])
    /\ UNCHANGED <<tables, cookies, history>>

TokenMarkRotating(r) ==
    /\ At(r, "token_mark_rotating")
    /\ \/ /\ tokens[requests[r].token].status = "rotating"
          /\ tokens' = [tokens EXCEPT ![requests[r].token].status = "compromised"]
          /\ Goto(r, "token_sweep")
       \/ /\ tokens[requests[r].token].status # "rotating"
          /\ Goto(r, "token_mark_rotated")
          /\ UNCHANGED tokens
    /\ UNCHANGED <<consents, codes, lastGrant, lastFamily, cookies, history>>

TokenMarkRotated(r) ==
    /\ At(r, "token_mark_rotated")
    /\ tokens' = [tokens EXCEPT ![requests[r].token].status =
                    IF @ = "rotated" THEN "compromised" ELSE @]
    /\ Goto(r, "token_sweep")
    /\ UNCHANGED <<consents, codes, lastGrant, lastFamily, cookies, history>>

TokenSweep(r) ==
    /\ At(r, "token_sweep")
    /\ SweepFamily(tokens[requests[r].token].family, "rotating")
    /\ closed' = closed \cup {tokens[requests[r].token].family}
    /\ Return(r)
    /\ UNCHANGED <<consents, codes, lastGrant, lastFamily, cookies,
                   disclosed, parent, replayed, floor, accepted>>

TokenGrantCheck(r) ==
    /\ At(r, "token_grant")
    /\ IF GrantActive(tokens[requests[r].token].owner, tokens[requests[r].token].grant)
       THEN Goto(r, "token_claim")
       ELSE Return(r)
    /\ UNCHANGED <<tables, cookies, history>>

\* An expired refresh token, a mismatched resource or DPoP proof.
RejectRefresh(r) ==
    /\ At(r, "token_claim")
    /\ Return(r)
    /\ UNCHANGED <<tables, cookies, history>>

ClaimToken(r) ==
    /\ At(r, "token_claim")
    /\ LET t == requests[r].token IN
       \/ /\ tokens[t].status = "active"
          /\ TokenRoom
          /\ tokens' = [tokens EXCEPT ![t].status = "rotating"]
          /\ Goto(r, "create")
       \/ /\ tokens[t].status # "active"
          /\ Return(r)
          /\ UNCHANGED tokens
    /\ UNCHANGED <<consents, codes, lastGrant, lastFamily, cookies, history>>

-----------------------------------------------------------------------------
(* _mint_tokens: insert the new row, finalize what it was exchanged for,   *)
(* look once more for a compromise or a revoked grant, and only then       *)
(* disclose the credentials.                                               *)

CreateToken(r) ==
    /\ At(r, "create")
    /\ \E t \in TokenIds :
         /\ IsNextToken(t)
         /\ tokens' = [tokens EXCEPT ![t] =
                         [status |-> "active", owner |-> Spends(r).owner,
                          grant |-> Spends(r).grant, scope |-> requests[r].scope,
                          family |-> Spends(r).family]]
         /\ parent' = [parent EXCEPT ![t] = [code |-> requests[r].code,
                                             token |-> requests[r].token]]
         /\ requests' = [requests EXCEPT ![r] = [@ EXCEPT !.pc = "finalize", !.new = t]]
    /\ UNCHANGED <<consents, codes, lastGrant, lastFamily, cookies,
                   disclosed, closed, replayed, floor, accepted>>

FinalizeCode(r) ==
    /\ At(r, "finalize")
    /\ requests[r].code # None
    /\ \/ /\ codes[requests[r].code].status = "claimed"
          /\ codes' = [codes EXCEPT ![requests[r].code].status = "finalized"]
          /\ Goto(r, "check_code")
       \/ /\ codes[requests[r].code].status # "claimed"
          /\ Goto(r, "burn")
          /\ UNCHANGED codes
    /\ UNCHANGED <<consents, tokens, lastGrant, lastFamily, cookies, history>>

FinalizeToken(r) ==
    /\ At(r, "finalize")
    /\ requests[r].code = None
    /\ \/ /\ tokens[requests[r].token].status = "rotating"
          /\ tokens' = [tokens EXCEPT ![requests[r].token].status = "rotated"]
          /\ Goto(r, "check_code")
       \/ /\ tokens[requests[r].token].status # "rotating"
          /\ Goto(r, "burn")
          /\ UNCHANGED tokens
    /\ UNCHANGED <<consents, codes, lastGrant, lastFamily, cookies, history>>

CheckCode(r) ==
    /\ At(r, "check_code")
    /\ Goto(r, IF CodeCompromised(Spends(r).family) THEN "burn" ELSE "check_tokens")
    /\ UNCHANGED <<tables, cookies, history>>

CheckTokens(r) ==
    /\ At(r, "check_tokens")
    /\ Goto(r, IF TokenInvalidated(Spends(r).family) THEN "burn" ELSE "check_grant")
    /\ UNCHANGED <<tables, cookies, history>>

\* The last check: no await separates it from the response.
Disclose(r) ==
    /\ At(r, "check_grant")
    /\ GrantActive(Spends(r).owner, Spends(r).grant)
    /\ disclosed' = disclosed \cup {requests[r].new}
    /\ Return(r)
    /\ UNCHANGED <<tables, cookies, parent, closed, replayed, floor, accepted>>

GrantGone(r) ==
    /\ At(r, "check_grant")
    /\ ~GrantActive(Spends(r).owner, Spends(r).grant)
    /\ Goto(r, "burn")
    /\ UNCHANGED <<tables, cookies, history>>

Burn(r) ==
    /\ At(r, "burn")
    /\ SweepFamily(Spends(r).family, "rotating")
    /\ Return(r)
    /\ UNCHANGED <<consents, codes, lastGrant, lastFamily, cookies, history>>

-----------------------------------------------------------------------------
(* POST /oauth2/revoke (RFC 7009), by the client the token belongs to; any *)
(* other client gets the same 200 and nothing happens.                     *)

RevokeToken(r, t) ==
    /\ Arrives(r, "revoke_token")
    /\ t \in disclosed
    /\ Begin(r, [Blank EXCEPT !.pc = "revoke_row", !.token = t])
    /\ UNCHANGED <<tables, cookies, history>>

RevokeRow(r) ==
    /\ At(r, "revoke_row")
    /\ tokens' = [tokens EXCEPT ![requests[r].token].status = "revoked"]
    /\ Goto(r, "revoke_family")
    /\ UNCHANGED <<consents, codes, lastGrant, lastFamily, cookies, history>>

RevokeFamily(r) ==
    /\ At(r, "revoke_family")
    /\ SweepFamily(tokens[requests[r].token].family, "revoked")
    /\ closed' = closed \cup {tokens[requests[r].token].family}
    /\ Return(r)
    /\ UNCHANGED <<consents, codes, lastGrant, lastFamily, cookies,
                   disclosed, parent, replayed, floor, accepted>>

(* POST /oauth2/consents/revoke: the grant generation first, then every    *)
(* code and every token of the (user, client) pair.                        *)

RevokeConsent(r, o) ==
    /\ Arrives(r, "revoke_consent")
    /\ GrantRoom
    /\ consents[o].status # "absent"
    /\ Begin(r, [Blank EXCEPT !.pc = "revoke_grant", !.owner = o])
    /\ UNCHANGED <<tables, cookies, history>>

RevokeGrant(r) ==
    /\ At(r, "revoke_grant")
    /\ lastGrant < MaxGrants
    /\ lastGrant' = lastGrant + 1
    /\ consents' = [consents EXCEPT ![requests[r].owner] =
                      [@ EXCEPT !.status = "revoked", !.grant = lastGrant + 1]]
    /\ requests' = [requests EXCEPT ![r] = [@ EXCEPT !.pc = "revoke_codes",
                                                      !.grant = lastGrant + 1]]
    /\ UNCHANGED <<codes, tokens, lastFamily, cookies, history>>

RevokeCodes(r) ==
    /\ At(r, "revoke_codes")
    /\ codes' = [c \in CodeIds |->
                   IF /\ codes[c].owner = requests[r].owner
                      /\ codes[c].status \in {"unused", "claimed", "finalized"}
                   THEN [codes[c] EXCEPT !.status = "compromised"]
                   ELSE codes[c]]
    /\ Goto(r, "revoke_tokens")
    /\ UNCHANGED <<consents, tokens, lastGrant, lastFamily, cookies, history>>

RevokeTokens(r) ==
    /\ At(r, "revoke_tokens")
    /\ tokens' = [t \in TokenIds |->
                    IF /\ tokens[t].owner = requests[r].owner
                       /\ tokens[t].status \in {"active", "rotating", "rotated", "revoked"}
                    THEN [tokens[t] EXCEPT !.status = "revoked"]
                    ELSE tokens[t]]
    /\ floor' = [floor EXCEPT ![requests[r].owner] =
                   IF @ < requests[r].grant THEN requests[r].grant ELSE @]
    /\ Return(r)
    /\ UNCHANGED <<consents, codes, lastGrant, lastFamily, cookies,
                   disclosed, parent, closed, replayed, accepted>>

-----------------------------------------------------------------------------
\* The worker dies, or the client disconnects: nothing after the last await runs.
Crash(r) ==
    /\ "crash" \in Operations
    /\ ~At(r, "idle")
    /\ Return(r)
    /\ UNCHANGED <<tables, cookies, history>>

\* A request comes in and runs up to its second adapter call.
Start(r) ==
    \/ \E o \in Owner :
         \/ \E s \in ScopeSets : AuthorizeCovered(r, o, s) \/ AuthorizeAsks(r, o, s)
         \/ RevokeConsent(r, o)
    \/ \E cookie \in cookies : ConsentReads(r, cookie)
    \/ \E c \in CodeIds :
         \/ ExchangeMissing(r, c)
         \/ ExchangeReplay(r, c)
         \/ ExchangeExpired(r, c)
         \/ ExchangeUnused(r, c)
    \/ \E t \in TokenIds :
         \/ RefreshReplay(r, t)
         \/ RefreshActive(r, t)
         \/ RevokeToken(r, t)

\* A request that is being handled takes its next step.
Continue(r) ==
    \/ ConsentCreates(r) \/ ConsentRegrants(r) \/ ConsentMerges(r) \/ MintCode(r)
    \/ DeleteCode(r) \/ CodeMarkClaimed(r) \/ CodeMarkFinalized(r) \/ CodeSweep(r)
    \/ CodeGrantCheck(r) \/ RejectCode(r) \/ ClaimCode(r)
    \/ TokenMarkRotating(r) \/ TokenMarkRotated(r) \/ TokenSweep(r)
    \/ TokenGrantCheck(r) \/ RejectRefresh(r) \/ ClaimToken(r)
    \/ CreateToken(r) \/ FinalizeCode(r) \/ FinalizeToken(r)
    \/ CheckCode(r) \/ CheckTokens(r) \/ Disclose(r) \/ GrantGone(r) \/ Burn(r)
    \/ RevokeRow(r) \/ RevokeFamily(r)
    \/ RevokeGrant(r) \/ RevokeCodes(r) \/ RevokeTokens(r)

Environment ==
    \E c \in CodeIds : CodeExpires(c)

Next ==
    \/ \E r \in Requests : Start(r) \/ Continue(r) \/ Crash(r)
    \/ Environment

Spec == Init /\ [][Next]_vars

\* The event loop resumes every coroutine whose database call has returned; it owes
\* nothing to requests that have not arrived, to expiry or to crashes.
FairSpec == Spec /\ \A r \in Requests : WF_vars(Continue(r))

-----------------------------------------------------------------------------
(* What the resource servers see.  Expiry only takes acceptance away, so   *)
(* the model leaves it out: these are the tokens accepted at most.         *)

\* verify_token and the active answer of introspect_token look at `revoked` alone;
\* only a credential that was disclosed can be presented to them.
Live(t) == t \in disclosed /\ tokens[t].status = "active"

Marked(family) == CodeCompromised(family) \/ TokenInvalidated(family)
Families == 1..MaxCodes      \* a family starts with the claim of a code

(* Safety: what may be live.                                               *)

\* Rotation never forks a family: however exchanges, refreshes, replays and crashes
\* interleave, at most one token row of a family is active (ClaimCode, ClaimToken
\* and _mint_tokens).
OneActivePerFamily ==
    \A t, u \in TokenIds :
       /\ tokens[t].status = "active"
       /\ tokens[u].status = "active"
       /\ tokens[t].family = tokens[u].family
       => t = u

\* A code or a refresh token is exchanged for at most one token row, even by
\* simultaneous retries and when the winner crashes half-way (the guarded claims in
\* _token_authorization_code and _token_refresh).
ExchangedOnce ==
    \A t, u \in TokenIds :
       /\ tokens[t].status # "absent"
       /\ tokens[u].status # "absent"
       /\ parent[t] = parent[u]
       => t = u

\* Once revoke_token, or the refusal of a replayed refresh token, has been answered
\* for a family, no credential of the family is live, and none becomes live: not the
\* one a rotation was inserting meanwhile, nor the ones rotated from it.
ClosedFamilyIsDead ==
    \A t \in TokenIds : tokens[t].family \in closed => ~Live(t)

\* The same for a replayed code, as long as its compromise marker is stored: see
\* ReplayedCodeIsDead for the row that is deleted.
MarkedReplayIsDead ==
    \A t \in TokenIds :
       tokens[t].family \in replayed /\ CodeCompromised(tokens[t].family) => ~Live(t)

\* Once revoke_consent is answered, no credential minted under the generation it
\* replaced, or an earlier one, is live, whatever exchange, refresh, consent or
\* authorize was in flight: "a concurrent request cannot disclose a credential that
\* remains active after revocation".
RevokedGrantIsDead ==
    \A t \in TokenIds :
       tokens[t].status # "absent" /\ tokens[t].grant <= floor[tokens[t].owner] => ~Live(t)

\* What a client holds has a spent parent: a disclosed token was never exchanged for
\* a code or refresh token that can still be claimed or is still being rotated.
DisclosedParentIsSpent ==
    \A t \in disclosed :
       IF parent[t].code # None
       THEN codes[parent[t].code].status \in {"finalized", "compromised", "deleted"}
       ELSE tokens[parent[t].token].status \in {"rotated", "compromised", "revoked"}

(* Safety: what a step may do.                                             *)

\* The compromise of a family is durable: no interleaving of claims, finalizations,
\* sweeps and revocations erases the last marker of a family, unless an exchange that
\* read the code as expired deletes its row.
MarkersAreDurable ==
    [][\A f \in Families :
          /\ Marked(f)
          /\ \A c \in CodeIds : codes[c].family = f => codes'[c].status # "deleted"
          => Marked(f)']_vars

(* Refinement.                                                             *)

FamilyOfGrantBelowFloor(f) ==
    \E c \in CodeIds : /\ codes[c].family = f
                       /\ codes[c].grant <= floor[codes[c].owner]

Promise == INSTANCE TokenFamily WITH
    Families <- Families,
    Tokens <- TokenIds,
    live <- [f \in Families |-> {t \in TokenIds : tokens[t].family = f /\ Live(t)}],
    issued <- disclosed,
    closed <- (closed \cap Families) \cup {f \in Families : FamilyOfGrantBelowFloor(f)}

\* Every step of the handlers is a step, or a stutter, of the promise: families close
\* for good when a revocation, a refresh replay or a consent revocation is answered.
FamiliesKeepThePromise == Promise!Spec

(* The inductive invariant behind OneActivePerFamily and ClosedFamilyIsDead *)
(* (proved in AuthorizationServer_proofs).                                  *)

CodeLabels == {"delete_code", "code_mark_claimed", "code_mark_finalized", "code_sweep",
               "code_grant", "code_claim"}
TokenLabels == {"token_mark_rotating", "token_mark_rotated", "token_sweep",
                "token_grant", "token_claim", "revoke_row", "revoke_family"}
MintLabels == {"create", "finalize", "check_code", "check_tokens", "check_grant", "burn"}

\* A handler works on the row it has read; _mint_tokens on a credential it has claimed.
HandlerWellFormed(r) ==
    LET q == requests[r] IN
    /\ q.pc \in CodeLabels => /\ q.code \in CodeIds
                              /\ q.token = None
                              /\ codes[q.code].status # "absent"
    /\ q.pc \in TokenLabels => /\ q.code = None
                               /\ q.token \in TokenIds
                               /\ tokens[q.token].status # "absent"
    /\ q.pc \in MintLabels =>
         \/ /\ q.code \in CodeIds
            /\ q.token = None
            /\ codes[q.code].family # None
         \/ /\ q.code = None
            /\ q.token \in TokenIds
            /\ tokens[q.token].status \notin {"absent", "active"}
    /\ q.pc \in MintLabels \ {"create"} =>
         /\ q.new \in TokenIds
         /\ tokens[q.new].status # "absent"
         /\ tokens[q.new].family = Spends(r).family
HandlersWellFormed == \A r \in Requests : HandlerWellFormed(r)

\* A family id is stored by the claim of one code, before any token row has it.
FamiliesWellFormed ==
    /\ \A c \in CodeIds :
         /\ codes[c].status \in {"absent", "unused"} => codes[c].family = None
         /\ codes[c].family <= lastFamily
         /\ \A d \in CodeIds :
              codes[c].family = codes[d].family /\ codes[c].family # None => c = d
    /\ \A t \in TokenIds : tokens[t].family <= lastFamily

\* A handler about to insert a token row holds the family's only right to an active one.
CreatorsHoldTheFamily ==
    \A r \in Requests : At(r, "create") =>
       /\ \A t \in TokenIds : tokens[t].status = "active"
                               => tokens[t].family # Spends(r).family
       /\ \A q \in Requests : At(q, "create") /\ Spends(q).family = Spends(r).family
                               => q = r

\* What a replay or a revocation finds when it takes its next step.
MarkerInProgress(r) ==
    LET status == tokens[requests[r].token].status IN
    /\ At(r, "token_mark_rotating") => status # "active"
    /\ At(r, "token_mark_rotated") => status \in {"compromised", "rotated", "revoked"}
    /\ At(r, "token_sweep") => status \in {"compromised", "revoked"}
    /\ At(r, "revoke_family") => status = "revoked"
MarkersInProgress == \A r \in Requests : MarkerInProgress(r)

DisclosedExist == \A t \in disclosed : tokens[t].status # "absent"

\* A closed family keeps a marker; an active row of it is on its way to be burnt.
ClosedStaysMarked ==
    /\ \A f \in closed : TokenInvalidated(f)
    /\ \A t \in TokenIds : tokens[t].family \in closed /\ tokens[t].status = "active" =>
         /\ t \notin disclosed
         /\ \A r \in Requests : At(r, "check_grant") => requests[r].new # t

IInv ==
    /\ TypeOK
    /\ HandlersWellFormed
    /\ FamiliesWellFormed
    /\ CreatorsHoldTheFamily
    /\ OneActivePerFamily
    /\ MarkersInProgress
    /\ DisclosedExist
    /\ ClosedStaysMarked

(* Liveness.                                                               *)

\* A marked family dies: once a replay or a revocation has left its marker, all the
\* family's token rows become inactive for good, those the in-flight handlers insert
\* included, if no handler crashes and the code row is not deleted.
MarkedFamilyDies ==
    \A f \in Families :
       Marked(f) ~> [](\/ \A t \in TokenIds : tokens[t].family = f
                                               => tokens[t].status # "active"
                      \/ \E c \in CodeIds : /\ codes[c].family = f
                                             /\ codes[c].status = "deleted")

(* What the documents say and the code does not do: checked by the runs    *)
(* that expect a violation.                                                *)

\* authorization_server.py:783 "Replay of a spent code is evidence of theft: revoke
\* everything it issued before rejecting".
ReplayedCodeIsDead ==
    \A t \in TokenIds : tokens[t].family \in replayed => ~Live(t)

\* docs/asvs.md:77 "Consent is user/client-bound and requested again when scope
\* widens": a code's scope was accepted for the grant that it belongs to.
CodeScopeWasAccepted ==
    \A c \in CodeIds :
       codes[c].status # "absent" => codes[c].scope \subseteq accepted[codes[c].grant]
=============================================================================
