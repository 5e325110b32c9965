# hayate-auth in TLA+

TLA+ models of hayate-auth (`src/src/hayate_auth`), checked with TLC on small
instances and proved with TLAPS for every value of the constants: every safety and
action property of the runs and both refinements; liveness stays with TLC.
hayate-auth is an authentication library for Python web applications: sessions,
email and password accounts, second factors, API keys, and an OAuth 2.1
authorization server. Its handlers are asyncio coroutines over an `Adapter`
(SQLite, Cloudflare D1), several workers may share one database, and there are no
transactions that span two adapter calls. Everything hard about the code follows
from that: a handler reads a row, waits, and writes what it decided from the read.

## The system

| Part | State it keeps | Operations | What is hard |
|---|---|---|---|
| OAuth authorization server (`authorization_server.py`) | tables `oauth_consent`, `oauth_code`, `oauth_token`, `oauth_client`; a signed cookie with a pending authorization | authorize, consent, token (code exchange, refresh), revoke, introspect, list and revoke consents, register | exchanges, rotations, replays and revocations that interleave statement by statement; crashes between a claim and the row it pays for |
| Sessions (`session.py`, `routes.py`, `auth.py`) | table `session` | create, resolve (expire, touch), list, revoke one, others, all | a touch races a revocation or another touch; a row deleted on a stale read |
| Accounts (`routes.py`, `verification.py`, `password.py`) | tables `user`, `account`, `verification` | sign up, sign in, sign out, forget and reset, change password, verify email | a reset races a sign-in or a change; a one-shot token used twice; a sign-up that stops half-way |
| Second factor (`two_factor.py`, `totp.py`) | table `two_factor`; a signed challenge cookie | enable, verify, disable, sign in | a TOTP step accepted twice; enrolments that race |
| Magic links (`plugins/magic_link.py`) | tables `verification`, `user` | request, verify | one-shot token used twice; two first sign-ins create the user |
| Social sign-in (`oauth.py`) | tables `user`, `account`; a signed state cookie | authorize, callback | find-or-create races; user without account |
| Passkeys (`passkey.py`) | table `passkey`; a signed challenge cookie | register, authenticate, list, delete | the signature counter is written without a guard; the challenge can be presented again |
| API keys (`api_key.py`) | table `api_key` | create, verify, list, delete | purge and touch after a stale read |
| DPoP (`dpop.py`) | replay store in `verification` or in memory | verify, record | a proof recorded twice; cleanup against acceptance |
| Client ID metadata (`cimd.py`) | table `oauth_client` as a cache | resolve | concurrent discovery and refresh |
| Lazy construction (`lazy.py`) | the cached `Auth` | get | double-checked locking |
| Adapters (`adapters/`, `schema.py`, `_uuid7.py`) | the connection | create, find, update, delete | which call is atomic |
| The rest (`auth.py`, `csrf.py`, `_signed.py`, `principal.py`, `plugin.py`, `introspection.py`, `crypto/`, `__main__.py`) | none | routing, origin checks, signatures, hashing, schema output | nothing that interleaves |

The parts interact through the tables: every endpoint resolves a session first;
the authorization server takes the user from it; reset, verification, magic links
and the DPoP replay store share the `verification` table.

## Abstraction

One action is one adapter call, with the computation up to the next one. This is
the unit the code guarantees: `SQLiteAdapter` holds its lock for one statement
(`adapters/sqlite.py:67-145`), a D1 statement is atomic, and other workers may run
between any two. `update` is an `update_many` followed by a `find_one`; the second
is a step only where its result is used. The first read of a handler is part of
the action that starts it: nothing before it touches shared state.

A request carries a program counter and its local variables (`requests`). A row is
addressed by its id; columns that never change after the insert are read through
the id, and a column that does change is copied into the request where the code
goes on using the value it read. A deleted row keeps its columns in the model, for
the properties to look at; no action reads them but through a handler that had
read the row before. Ids come from UUIDv7 (`_uuid7.py`) and are handed out in
ascending order, which makes rows comparable and needs no randomness.
Refusals that depend on what a request contains (a PKCE verifier, a redirect URI, a
DPoP proof, a resource) are one nondeterministic step, `RejectCode` and
`RejectRefresh`. Formats, hashes, signatures and log output are left out.

## Modules

### `AuthorizationServer`

`consents`, `codes`, `tokens` are the three tables. `oauth_code.used` = 0, 1, 2, 3
is `unused`, `claimed`, `compromised`, `finalized`; `oauth_token.revoked` = 0..4 is
`active`, `rotating`, `compromised`, `rotated`, `revoked`. `cookies` are the signed
pending authorizations (one that expires is one that is not sent again),
`lastGrant` and `lastFamily` the newest ids stored. The remaining variables record
history for the properties: which token rows were sent to a client (`disclosed`),
what they were exchanged for (`parent`), which families were closed or replayed and
which grant generations withdrawn *once the request was answered* (`closed`,
`replayed`, `floor`), and what the user accepted (`accepted`).

| Endpoint | Actions |
|---|---|
| `GET /oauth2/authorize` | `AuthorizeCovered`, `AuthorizeAsks`, `MintCode` |
| `POST /oauth2/consent` | `ConsentReads`, `ConsentCreates` / `ConsentRegrants` / `ConsentMerges`, `MintCode` |
| `POST /oauth2/token`, code | `ExchangeMissing`, `ExchangeExpired` + `DeleteCode`, `ExchangeReplay` + `CodeMarkClaimed` + `CodeMarkFinalized` + `CodeSweep`, `ExchangeUnused` + `CodeGrantCheck` + `RejectCode` / `ClaimCode` |
| `POST /oauth2/token`, refresh | `RefreshReplay` + `TokenMarkRotating` + `TokenMarkRotated` + `TokenSweep`, `RefreshActive` + `TokenGrantCheck` + `RejectRefresh` / `ClaimToken` |
| `_mint_tokens` | `CreateToken`, `FinalizeCode` / `FinalizeToken`, `CheckCode`, `CheckTokens`, `Disclose` / `GrantGone`, `Burn` |
| `POST /oauth2/revoke` | `RevokeToken`, `RevokeRow`, `RevokeFamily` |
| `POST /oauth2/consents/revoke` | `RevokeConsent`, `RevokeGrant`, `RevokeCodes`, `RevokeTokens` |
| anything | `Crash`: the coroutine goes away between two calls |

`verify_token` and `introspect_token` read one row, so they are the state function
`Live`: disclosed and `active`. Token lifetimes only take acceptance away, so `Live`
is an upper bound. The expiry of a *code* matters, because it deletes a row:
`CodeExpires`. `RevokeConsent` of a missing row, a request of another client, and
every other answer that changes nothing are stuttering.

### `TokenFamily`

What the documents promise (`docs/oauth-revocation-introspection.md`, `CHANGELOG.md`),
without handlers, rows or markers: a family has at most one live credential, a
credential is issued once, and a closed family never has a live one again.
`FamiliesKeepThePromise` is `TokenFamily`'s specification under the refinement
mapping at the end of `AuthorizationServer`: `live` the disclosed active rows of a
family, `closed` the families whose revocation, refresh replay or consent
withdrawal was answered.

### `MCAuthorizationServer` and the proof modules

`MCAuthorizationServer` gives the constants their values. Proofs are modules of their own:

| Module | About |
|---|---|
| `AuthorizationServer_proofs` | lemmas on the rows and the handlers of the authorization server, its type correctness |
| `TokenFamilies_proofs` | one active row per family, closed families |
| `Grants_proofs` | parents, replays and markers, grant generations, the refinement of `TokenFamily` |
| `Sessions_proofs` | sessions and the refinement of `SessionPromise` |
| `Accounts_proofs` | accounts, mailed tokens and magic links |
| `TwoFactor_proofs` | the second factor |
| `Stores_proofs` | the replay store, the metadata clients, the lazy `Auth`, and their composition |
| `Credentials_proofs` | social sign-in, passkeys, API keys, and their composition with the second factor |

### `Sessions`

`sessions` is the table: who a row belongs to, when it was created and when it was
last active. `expires_at` is `created + Ttl` and never changes, so it is not a column
of its own. `clock` is the time all workers share; a handler stamps what it writes
with the moment it computed *before* the write (`moment`), which may be older than
the clock by then. `served` records the last authentication of a request.

| Operation | Actions |
|---|---|
| `create_session` (every sign-in) | `SignIn`, `Insert` |
| `resolve_session` | `Resolve`, then nothing more, `Expire`, or `Touch` and `Reread` |
| `Auth.get_session`, `_fresh_session` | `FindUser` |
| `POST /revoke-session`, `/revoke-other-sessions`, `/revoke-sessions` | `RevokeOne`, `RevokeOthers`, `RevokeAll` |
| `POST /sign-out` | `SignOut` |
| `Auth.revoke_user_sessions`, the end of a password reset | `RevokeUserSessions` |

The endpoint is chosen at `FindUser`, where it first makes a difference, and the
session id that `/revoke-session` names at `RevokeOne`; a choice made earlier would
be the same choice. `Resolve` of a token without a row changes nothing and is
stuttering; so are `GET /get-session` and `/list-sessions` after `FindUser`. Nothing
here is held by a handler that the death of a worker would leave behind, so a crash is
a handler that is never resumed (no fairness is assumed).

`SessionPromise` is what `docs/session-management.md` and the docstrings say of a
session, without handlers: `SessionsKeepThePromise` is its specification under the
mapping at the end of `Sessions`. A step that authenticates from a row that was
revoked, that accepts at the deadline, that writes the activity twice in an interval
or moves it back, is none of its steps.

### `Accounts`

`users` says of an email whether its row is there and verified, `accounts` holds the
password of its credential account (`NoPassword` for a user of magic links alone),
`verifications` and `sessions` are the tables. No endpoint deletes a user or changes
an email, so the email, which is UNIQUE, stands for the user's id. `factor` is the
`enabled` column of `two_factor`, which `EnableFactor` and `DisableFactor` write at any
time; `TwoFactor` models the requests behind them. The mails are configured
(`send_verification_email`, `send_reset_password`) and deliver a token to its email.

| Endpoint | Actions |
|---|---|
| `POST /sign-up/email` | `SignUp`, `CreateUser`, `CreateAccount`, `Mail`, `Insert` |
| `POST /sign-in/email` | `SignIn`, `CheckPassword`, `CheckFactor`, `Insert` |
| `POST /forget-password` | `ForgetPassword` |
| `POST /reset-password` | `Follow`, `Consume`, `Reset`, `Sweep` |
| `GET /verify-email` | `Follow`, `Consume`, `Confirm` |
| `POST /sign-in/magic-link` and its link | `RequestLink`; `Follow`, `Consume`, `FindUser`, `CreateVerified` / `MarkVerified`, `Insert` |
| `POST /change-password` | `Change`, `CheckCurrent`, `ChangePassword`, `RevokeOthers` |

`Follow` is the read of `consume_verification`, `Consume` its delete: between the two
another request may read the same row. Three variables are history: `honoured` counts
how often a token was let through; `strict` says that the second factor has been on
since a sign-in began, and `bypass`, that a session came of such a sign-in. The expiry
and the activity of a session are `Sessions`' subject and left out here, and so is a
crash: a request that is never resumed is a behaviour, as no fairness is assumed.

### `TwoFactor`

`factors` is the table by `user_id`; a secret is a number, handed out by `minted`, and a
row that is inserted has the number of its secret for its id. `used` is
`last_used_step`. A code is good in its time step and in the two beside it (`Matches`;
two different steps with the same six digits are left out). `accepted` counts, as
history, how often a sign-in succeeded with a step of a secret.

| Endpoint | Actions |
|---|---|
| `POST /two-factor/enable` | `Enable`, `Create` or `Replace` |
| `POST /two-factor/verify` | `Verify`, `Confirm` |
| `POST /two-factor/disable` | `Disable`, `Delete` |
| `POST /sign-in/two-factor` | `SignIn`, `Claim` |

A client may present any code at any time: the challenge cookie, the password before it
and the session only refuse requests. A code is checked at the moment its row is read;
a step may begin between the two, and then a later code is good. The proofs do not use
`Matches`, so they cover every moment at which the code may be checked. The session that a claim pays for is inserted as in
`Accounts`.

### `ReplayStore`

A DPoP proof is its (key, jti) pair and its `iat`. `entries` holds the `expires_at`
under which a pair is stored, in the store that is deployed (`store`: in memory, or the
rows of table `verification` that the workers share). `nextCleanup` and `cleaning` are
`_next_cleanup` and `_cleanup_lock` of each worker's store object; `accepted` counts, as
history, how often a proof was let through.

| Code | Actions |
|---|---|
| `validate_dpop_proof` and the call of `record` | `Present`, or `PresentToMemory`, which awaits nothing |
| `AdapterDPoPReplayStore.record` | `LockCleanup`, `CleanUp` / `CleanUpFails`; `Insert` / `InsertFails`, `Confirm` |

An insert that raises may have stored the row (`InsertFails`). The cleanup deletes as of
the moment at which `record` was called, which may be long past when it runs.

### `MetadataClients`

One client id that is an https URL. Its owner replaces the document (`Publish`), and a
document is its number: authorize does what the row it got says. `client` is the row of
`oauth_client`. `ResolveClient` reads the row; a stale or missing one leads through
`Respond` and `Stamp` to `UpdateClient`, or to `CreateClient` or `CreateClientFails` +
`FindConcurrent`. Every check of the URL, the response and the document is `FetchFails`;
an adapter that raises is `ResolveFails`. The response is the document of the moment
`Respond` is taken: a cache on the way would be the mutant `RespondFromCache`.

### `LazyAuth`

`cached` is `_auth`, named by the caller whose factory call made it; `lock` is the queue
at the asyncio lock, first come first served, whose head holds it. `Get`, `EnterLock`,
and `Create` or `CreateFails`, which is a factory that raises or returns an `Auth` of
another base path or mode.

### `SocialSignIn`

`emailOf` is table `user`, `links` the accounts of provider identities; `creator`,
`assertedAt` and `signedIn` are history. `Callback` is the callback up to the
exchanged code, `FindAccount`, `FindUser`, `CreateUser` and `LinkAccount` are the calls
of `_resolve_user`, `StartSession` the session. `SignUpEmail` stands for the
sign-up of `Accounts`; `CallbackFails` for an adapter that raises and for the death of the
worker. A provider may claim another email for an identity at every sign-in, and only one
with an id_token can assert it (`MayAssert`).

### `Passkeys`

`passkeys` is the table by `credential_id`. `responses` and `signed` are what the
authenticators have answered so far: a registration response is the user its challenge was
for and a count, an assertion is a count. The signed challenge cookie stays with
the browser, so that any response and any assertion may arrive in any order and again,
and under another session. `VerifyRegistration`, `CreatePasskey`; `VerifyAuthentication`,
`UpdateCounter`, `IssueSession`; `AskDeletion`, `DeletePasskey` are the handlers.
`Newer` is the comparison of counts in py_webauthn. `settled` is history: the counter that
a row had when a sign-in began on it and no other was at work, where a sign-in is at work
from its read of the row to its write of the counter (`AtWork`).

### `ApiKeys`

`keys` is the table; a key that is presented names its row by its hash. `CreateKey`;
`VerifyKey`, then `PurgeKey` or `TouchKey`; `AskKeyDeletion`, `DeleteKey`.

### `MCStores`, `MCCredentials`

`ReplayStore`, `MetadataClients` and `LazyAuth` share no state, and neither do
`TwoFactor`, `SocialSignIn`, `Passkeys` and `ApiKeys`. Each of the two modules instantiates
three or four of them for one run; `moving` says which of them moves in a behaviour, so
their states add up and do not multiply, and every step is a step of the component.
`MCTwoFactor` is the second factor alone, for its violation.

## What the runs show

| Run | Instance | Shows |
|---|---|---|
| `families` | 3 handlers, 1 code, 3 token rows, crashes | one active row per family, nothing exchanged twice, a closed family is dead and so is that of a replayed code, a disclosed token has a spent parent |
| `promise` | 2 handlers, 2 codes, 2 families, 3 grant ids, every operation but expiry and crash | no credential of a withdrawn grant generation is live; the handlers implement `TokenFamily` |
| `liveness` | 2 handlers, 1 code that may expire, 3 token rows, no crash, fairness | a family with a marker ends without an active row; a marker is durable; the family of a replayed code is dead while its marker is stored |
| `deleted_code` | 3 handlers, 1 code that may expire | **violation**: a replayed code whose row was deleted revokes nothing |
| `widened_scope` | 2 handlers, 2 scope sets | **violation**: a code's scope was not accepted for its grant |
| `sessions` | 2 handlers, 2 users, 2 sessions, moments 0 to 5, a lifetime of 4, an inactivity limit of 3, a touch interval of 1 | the handlers implement `SessionPromise`; a request ends only its own user's sessions |
| `accounts` | 2 handlers, 2 emails, 2 passwords, 2 tokens, 2 sessions | no sign-in evades the second factor; no email is verified unproven; a session's user can sign in again; an accepted token is refused to later requests; a reset leaves no session |
| `one_shot` | as `accounts`, 1 email | **violation**: two requests with one token are both let through |
| `totp_reuse` | 3 handlers, 1 user, 2 secrets, 2 steps | **violation**: one code signs in twice around a re-enrolment |
| `stores` | 2 presenters on 2 workers, one jti, ages and skew of 1, moments 0 to 3; 2 authorize requests, 3 documents, moments 0 to 5; 3 first requests | a proof is accepted once and a worker cleans up once in an interval; a replaced document is forgotten and a refresh does not go back; one `Auth` serves everyone and nobody waits for ever |
| `credentials` | 3 second-factor handlers, 1 user, 2 secrets, 3 steps; 2 callbacks, 2 identities, 2 emails, 3 users; 2 passkey handlers, 2 users, 1 credential registered twice; 2 key handlers, 2 users, 2 keys | no step of the secret in force is accepted twice and `last_used_step` never moves back under a secret; an identity keeps its user and an unverified email links nothing; a credential keeps its owner; overlapping sign-ins do not take its counter behind what it was before them; what was deleted or purged stays gone, and went for a reason |
| `counter_regression` | 2 passkey handlers, 1 user, 1 credential, 2 assertions; the other components with one of each | **violation**: of two sign-ins that overlap the older count is stored last |

Bounds. A code starts one family, so one code and three token rows hold two
rotations of a family, which is what a replay of the first, of the second and of the
code need to meet. Three handlers are a winner, a replay and a revocation. Three
grant ids are a grant, its withdrawal and a new grant. `CodeRoom`, `TokenRoom` and
`GrantRoom` are the only guards that the code does not have: they keep requests out
when the instance has no row left for them, so that no handler is stuck half-way by
a bound. Requests are symmetric and interchangeable; no temporal-liveness run uses
symmetry. `promise` may stop when its codes and grant ids are used up, and is checked
without deadlock; `families` and `liveness` check for it.

In `sessions` the clock passes each limit while a handler is suspended: the session can
be touched, pass its inactivity limit before the absolute one, and pass the absolute
one although it was touched; two handlers are two touches, or a touch and the
revocation or purge it races. It may stop: at the last moment, with both rows used.

In `accounts` two tokens and two sessions let a reset or a magic link meet a sign-in,
another link or a password change, of one user or of two; two handlers are enough for
each race, as no handler waits for another. `TokenRoom` and `SessionRoom` are the bounds
that keep requests out, and it may stop when they do.

In `stores` the skew, the age and the cleanup interval all pass while a handler is
suspended, so its cleanup may be as of a moment when the proof of another was still good,
and its insert may come after its own proof's entry expired. `MaxRequest` bounds how long
an authorize request takes; the code sets no such limit, and `SupersededIsForgotten` is
relative to it. Three documents are the one a request read, the one it fetched and the
newest. Three callers are one in the factory, one that gets its turn and one behind it. A
worker that restarts, and cleans up again at once, is left out: it would only be another
worker, and the proof is for any number of them.

In `credentials` three handlers of the second factor are two sign-ins and a re-enrolment;
two secrets are an enrolment and the next one; with three steps a code of an older step is
still good after one of a newer step was accepted. Three users are the ones two callbacks
and a sign-up insert; one credential with two rows is a deletion and a second registration
under the id of another row; with three counts two sign-ins settle a count that a third,
begun before the deletion, is behind. Both may stop at their last moment or row.

Fairness. `FairSpec` has weak fairness of `Continue(r)`: the event loop resumes a
coroutine whose database call returned. Nothing is assumed of requests that have not
arrived, of expiry or of crashes. The liveness run has no crash, since the row that
a dead handler inserted stays active (it was disclosed to nobody).
`LazyFairness` is weak fairness of `Resume(c)`: the event loop resumes the caller whose
turn it is, and a factory call returns or raises; it is not assumed to succeed. That the
lock goes to the first in the queue is `asyncio.Lock`'s order.

## What is proved

Every theorem is for every value of the constants its module assumes: any number of
handlers, users, rows, and any limits. A listed invariant is proved from an inductive one
(`IInv` or `...Inv`) that is initial and preserved by each action; an action property from
the same invariant and a case for each action that can disturb it. The assumptions are the
`ASSUME`s of the component modules, and no others: bounds are naturals, the value that
stands for nothing is none of the others, and the limits satisfy what the constructors of
the code insist on.

### The authorization server

* `TypeCorrect`: `Spec => []TypeOK`.
* `NeverForked`: `Spec => []OneActivePerFamily`.
* `ClosedForGood`: `Spec => []ClosedFamilyIsDead`.
* `NeverExchangedTwice`: `Spec => []ExchangedOnce`.
* `DisclosureIsPaid`: `Spec => []DisclosedParentIsSpent`.
* `ReplayedForGood`: `Spec => []MarkedReplayIsDead`.
* `WithdrawnForGood`: `Spec => []RevokedGrantIsDead`.
* `MarkersNeverErased`: `Spec => MarkersAreDurable`.
* `PromiseKept`: `Spec => FamiliesKeepThePromise`, the refinement of `TokenFamily`.

`OneActivePerFamily` is not inductive: between the claim of a credential and the
insert of its successor the family has no active row, and what keeps a second one
out is that only the claimer may insert. `CreatorsHoldTheFamily` says so: the
handler at `create` is the only one of its family and no row of the family is
active. `ClosedFamilyIsDead` needs more, for a row may become active after the
sweep: `ClosedStaysMarked` says that a closed family keeps a `compromised` or
`revoked` row, and that an active row of it is neither disclosed nor held by a
handler that passed its last family check (`check_grant`). That a marker is found
there needs `MarkersInProgress` (what the row of a replay or revocation may be at
each step) and `HandlersWellFormed`, `FamiliesWellFormed` (a handler holds existing
rows; a family belongs to one code). The conjunction is `IInv`; `TokenFamilies_proofs`
proves it initial and preserved, one step per action, from three groups of lemmas:
rows advance only along their statuses, families stay well formed, markers stay.

`GrantsInvariant` is `IInv` and four parts that `Grants_proofs` adds to it, each with the
lemmas that say what a step leaves as it was (`CodesKept`, `TokensKept`):

* `ParentsInv`: whatever a row was exchanged for has been claimed, by nobody else, and the
  handler that inserts the row is the one that claimed it; a row is disclosed only after
  its parent was finalized. `ExchangedOnce` and `DisclosedParentIsSpent` follow.
* `ReplayInv`: a replayed code is marked or deleted; an active row of a replayed and marked
  family is not disclosed and no handler that inserted it has passed `check_code`.
* `GrantInv`: grant generations are handed out in order and a withdrawn one stays below the
  newest; a row, a code and a handler that holds them agree on owner and generation. The
  step that discloses a row (`Disclose`) reads the generation in force, so what a withdrawal
  did not sweep is not disclosed after it (`RevokedGrantIsDead`).
* `FamilyInv`: a new row is one handler's, a family has a code, and there are as many
  families as codes that started one. The last is what the refinement needs to
  map every family to one of `1..MaxCodes`; it counts with `FiniteSetTheorems`.

The refinement then takes each step to one of `TokenFamily`: a disclosure of an active row
is `Issue`, of one that was invalidated on the way `IssueDead`, and every other step a
`Retire` of the families whose credentials it takes away or that it closes.

### Sessions

* `TypeCorrect`: `Spec => []TypeOK`.
* `KeepsThePromise`: `Spec => SessionsKeepThePromise`, the refinement of `SessionPromise`.
* `EndsOnlyItsOwnSessions`: `Spec => EndsOnlyItsOwn`.

The refinement rests on `HandlersWellFormed`: what a handler about to touch has read
was within the limits and at least an interval old *at its own moment*; the
compare-and-swap makes that true of the row it writes, whatever the clock has done
since.

### Accounts

* `AccountsTypeCorrect`: `Spec => []TypeOK`.
* `FactorIsAsked`: `Spec => []SecondFactorIsAsked`.
* `VerifiedIsProven`: `Spec => []EmailsAreProven`.
* `SignedInCanReturn`: `Spec => []SessionsHaveCredentials`.
* `AcceptedForGood`: `Spec => AcceptedIsGone`.
* `ResetEndsSessions`: `Spec => ResetTerminatesSessions`.

Each of these is about a handler that acts on what it read before. `Knows` says what a
suspended handler has made sure of at each label (the user is there, its password is stored,
the token it holds was of its kind and has been accepted), and `UsersAdvance` and
`TokensAdvance`, which every step satisfies, that nobody takes such a thing back: users and
passwords stay, a row of `verification` keeps its email and kind. `StrictMeansOn` says that a
sign-in that saw the factor on throughout is before the question for it. `TokensAreSound` says
that an accepted token's row is deleted, which refuses it to whoever reads it later, though
not to whoever had read it (`one_shot`).

### The second factor

* `TypeCorrect`: `Spec => []TypeOK`, which `CredentialsTypeOK` of the run contains.
* `StepsAreSingleUse`: `Spec => []SingleUseInForce`.
* `StepsNeverRollBack`: `Spec => NeverRollsBack`.

The claim is a compare-and-swap on `last_used_step`, so what makes it safe is that the
steps accepted of the secret in force are behind `last_used_step` (`AcceptedAreUsed`).
The secret of a claim need not be in force any more: then the step counts for a secret
that no row holds, which is so because secrets are fresh when stored and one user's
(`MintedAreFresh`, `SecretsAreOwned`). This is also why the property speaks of secrets in
force: of the others it is false (`totp_reuse`).

### The stores

* `SingleUse`: `ReplaySpec => []ProofsAreSingleUse`.
* `CleanupsAreRare`: `ReplaySpec => OneCleanupPerInterval`.
* `ReplacedDocumentsExpire`: `MetadataSpec => []SupersededIsForgotten`.
* `RefreshesGoForward`: `MetadataSpec => NeverOlderThanRead`.
* `OneAuthForAll`: `LazySpec => []OneAuth`.
* `StoresRunTheComponents`: `StoresSpec => ReplaySpec /\ MetadataSpec /\ LazySpec`.
* `StoresTypeCorrect`: `StoresSpec => []StoresTypeOK`.

An accepted proof must stay stored for as long as it is in the window of anybody.
`Remembered` says that it has its entry until the moment of its expiry; it is inductive
because a cleanup is as of a moment in the past (`CalledBefore`) and deletes only what
expired before. `OneCleaner` says that whoever cleans up holds the lock, alone, and that the
cleanup is still due. Of the metadata clients, the row's stamp is at most `MaxRequest` after
the fetch, and documents are fetched while they are the newest; the invariant relates the
stamp of the row, and of what each request is about to write, to the publication of the next
document. Of the lazy `Auth`, `LockInOrder` says that nobody is in the
queue twice or idle, and that only its head makes an `Auth`; that the head leaves the others
in order when it goes is `LockReleased`.

### The credentials

* `OneUserPerIdentity`: `SocialSpec => []IdentitiesKeepTheirUser`.
* `NoLinkUnasserted`: `SocialSpec => []LinksAreAsserted`.
* `CredentialsAreOwned`: `PasskeysSpec => []CredentialsKeepTheirOwner`.
* `OverlapsStayAhead`: `PasskeysSpec => []AheadOfSettled`.
* `DeletedByOwner`: `PasskeysSpec => DeletedByTheirOwner`.
* `DeadKeysStayDead`: `ApiKeysSpec => EndedKeysStayDead`.
* `NoKeyEndsEarly`: `ApiKeysSpec => KeysEndWithReason`.
* `CredentialsRunTheComponents`: `CredentialsSpec => Spec /\ SocialSpec /\ PasskeysSpec /\ ApiKeysSpec`,
  where `Spec` is that of `TwoFactor`.
* `CredentialsTypeCorrect`: `CredentialsSpec => []CredentialsTypeOK`.

The invariants say what a suspended handler knows. A callback at `session` has the user that
is linked, at `link` one made for the identity or with the email it asserted. A passkey
handler's owner is the one of the credential's response, which is made once. `AheadOfSettled`
is nearly inductive: a sign-in that begins reads a counter that is not behind the settled one,
so the count it will write is newer than that, whoever writes in between. What it needs is
that a row which is inserted anew settles its counter with no sign-in at work on it:
`IdsAreGiven` says that no handler holds the id of a row to come. A handler about to
purge a key has found it expired, and no later key has its id, so what it deletes by id, if
anything, is what it read.

The runs `stores` and `credentials` check these under the specifications of the
compositions; the two theorems `...RunTheComponents` say that these are behaviours of the
components, so that what is proved of a component holds in the run as well.

### What is only model-checked

* `MarkedFamilyDies` (run `liveness`) and `EveryRequestEnds` (run `stores`): liveness under
  weak fairness, which needs `ENABLED` and is beyond the prover.
* The violations: they are counterexamples on small instances, and need no proof.

## What the code does and the documents do not say

* `deleted_code`. An exchange reads a code just after it expired; another, just
  before, claims it and issues tokens; the first then deletes the row by id. A replay
  of the spent code finds no row and answers `invalid_grant` without revoking
  anything, against `authorization_server.py:783`.
* `widened_scope`. A consent computes the union of scopes from the row it read; the
  consent is withdrawn and given again with a narrower scope; the union is then
  written by id. `authorize` takes the wider scope as consented and mints a code
  without asking, against `docs/asvs.md:77`.
* `one_shot`. `consume_verification` does not look at whether its delete found the row.
  Two requests with one token that read it before either deletes it both go on: two
  resets, or two sessions of one magic link, against `verification.py:1` and `:5-6`.
* `totp_reuse`. Re-enrolment reads a row that is not enabled; the row is then enabled, and
  a sign-in with a code succeeds while another one with the same code has read the row;
  the re-enrolment resets `last_used_step`, and the other one succeeds too, against
  `two_factor.py:176-177` and `docs/asvs.md:35`.
* `counter_regression`. Two sign-ins with one passkey read its counter; the one with the
  newer count writes it, then the one with the older count writes by id. Both were accepted,
  and the counter has moved back, so that the newer assertion is newer than the stored count
  again, against `docs/asvs.md:41` and `audit/THREAT_MODEL.md:105-107`. What the code does
  guarantee is `AheadOfSettled`.

Three properties are as strong as the code allows, and no stronger:

* `ProofsAreSingleUse` excepts a handler that is suspended for longer than `clock_skew`
  between its check of a proof's age and its insert: a cleanup may have freed the
  identifier by then, and the proof is accepted again.
* `AheadOfSettled` compares with the counter before the sign-ins that overlap, not with the
  newest of theirs: the one that `counter_regression` loses.
* `NeverOlderThanRead` and `SupersededIsForgotten` except fetches that overlap: the
  older document may be stored last, with the later stamp. The first compares a refresh
  with what its own request read; the second bounds how long any replaced document is used.

## Plan

1. Done: the authorization server's grants, codes and token families, the promise
   they implement, the inductive invariant and the first theorems.
2. Done: sessions and their promise, with the proof of the refinement; accounts,
   verification tokens and magic links; the second factor, with its proofs.
3. Done: the DPoP replay store, client metadata, lazy construction, social sign-in,
   passkeys and API keys; proofs of the properties of four of them.
4. Done: proofs of `ExchangedOnce`, `DisclosedParentIsSpent`, `MarkedReplayIsDead`,
   `RevokedGrantIsDead`, `MarkersAreDurable` and of the refinement of `TokenFamily`; of
   the properties of `Accounts`, `ApiKeys` and `LazyAuth`; of the compositions.
5. Done: what the code guarantees of the counter when sign-ins overlap
   (`AheadOfSettled`), and the violation of what the documents say of it.
6. Next: what else the code guarantees where fetches of a metadata document overlap.

## Not modelled

* Client registration (`register_client`) inserts a row under a fresh id, and nothing
  else reads or writes it until the id is used.
* The remote introspection client (`introspection.py`) is one HTTP call that fails closed.
* Routing, CSRF, signed cookies and principals (`auth.py`, `csrf.py`, `_signed.py`,
  `principal.py`, `plugin.py`) are functions of the request; the models take what they
  refuse as requests that do not arrive.
* Password hashing, TOTP digits, JWT and proof signatures, PKCE: cryptography. They are
  refusals in the models.
* SQL composition, migrations, metadata documents, HTML and HTTP formats, the command
  line, and the scripts of the repository: functions of their inputs without state.
* `LazyAuth` without its cache: every request makes its own `Auth`, and nothing is shared.
