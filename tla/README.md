# DefChain: formal models

TLA+ models of DefChain: the chaincode, the way its transactions reach the
Fabric ledger, the gateway and adapter handlers that carry a query through
discovery, access request, decision and disclosure, the authentication between
the two services, and the browser: the officers' inbox and the tab that actors
share. TLC checks them on small instances; TLAPS proves every safety property
those runs check, and the refinements, for every instance.
Paths below are relative to `src/`.

## 1. The system

### Components, state and operations

| Component | State it keeps | Operations | Model |
| --- | --- | --- | --- |
| Chaincode, `blockchain/chaincode/src/defchain-contract.ts`, `model.ts` | world state: five write-once record types under derived keys | `CreateQueryRequest`, `CreateMatchAttestation`, `CreateAccessRequest`, `RecordAuthorizationDecision`, `RecordDisclosureReceipt`; reads `GetRecord`, `GetWorkflow`, `ListWorkflows` | `Ledger` |
| Fabric client, `packages/fabric-client/src/index.ts`, and the network it talks to | none in the client; chain, peers' world states and envelopes in the network | `submit`, `evaluate`, `health` | `LedgerCalls` (what callers may assume), `FabricLedger` (how it is done) |
| Gateway query routes, `services/gateway-api/src/server.ts:300-492`, `database.ts` | handlers in memory, `users.query_count` in SQLite | `POST /queries`, retry, demo reset | `Discovery` |
| Gateway disclosure routes, `server.ts:512-781` | handlers in memory | access request, decision, disclose by query or by request | `Disclosure` |
| Agency adapters, `services/agency-adapter/src/server.ts:79-234` | `protected_records`, `query_matches` in SQLite | `/internal/match`, `/internal/decisions`, `/internal/disclosures` | `Discovery` (match), `Disclosure`, `ProviderDesk` (the decision's scopes) |
| Internal authentication, `internal-client.ts:10-33`, adapter `server.ts:31-77` | nonce cache in memory | signing in `callAdapter`, `authenticate` | `InternalAuth` |
| Gateway login, sessions, roles, `server.ts:151-240` | users in SQLite, JWTs held by clients | login, me, logout, `requireAuth`, `role` | `WebSession` (login, me, `requireAuth`; a role or a revocation is a refusal at any time) |
| Gateway reads | none | queries, workflows, inbox, cases, security events, health | chaincode reads in `Ledger`, inbox in `ProviderDesk`, query lists in `WebSession`; the rest not modelled |
| Shared schemas and scopes, `packages/shared/src/schemas.ts` | none | validation | `ProviderDesk` (scopes of decisions), `Ledger`, `Disclosure` |
| Shared crypto, `packages/shared/src/crypto.ts` | none | tokens, encryption, signatures | not modelled |
| Web application, `apps/web/src/App.tsx`, `api.ts` | React state, `localStorage` | sign-in, restore, actor switching, Discovery, Disclosure and Audit pages; the inbox page | `WebSession`; `ProviderDesk` (inbox). Layout and static pages not modelled |
| Scripts, network configuration, tests | - | operator commands | not modelled |

### How they interact

The browser calls the gateway. The gateway submits `QueryRequest` and
`AccessRequest` as the requester's organization, and calls the provider's
adapter over HTTP for everything a provider does; the adapter submits
`MatchAttestation`, `AuthorizationDecision` and `DisclosureReceipt` as its own
organization. Each service reads the ledger at its own organization's peer,
which may lag. Services share no memory; handlers of one service interleave at
every `await`. A gateway handler waits for an adapter 20 s at most
(`internal-client.ts:33`); the adapter's own submit may take 80 s
(`fabric-client/src/index.ts:95-98`), and goes on when nobody waits any more.
The only things that survive a restart of a service are the SQLite tables and
the ledger; of a page, `localStorage`.

### What is hard about it

* `submit` has one error for "refused", "not reached" and "not yet": after it
  the transaction may still be committed (`index.ts:121-125`).
* Handlers read, then await, then act: the query budget (`server.ts:331`,
  `365`), the retry's `alreadyAttested` (`server.ts:442`), the by-query
  disclosure's choice (`server.ts:730-740`).
* The receipt is committed before the payload is sent (`adapter
  server.ts:210-220`), and can be committed only once.
* Keys are free to take, ids are chosen by clients, and a transaction is
  executed on one peer's possibly old state (`defchain-contract.ts:75-89`).
* Several officers, several disclose calls, several retries can work on one
  request at a time, with no lock outside the ledger; no decision button is
  disabled while a decision is pending (`App.tsx:1040`).
* The rules for a decision's scopes are written four times, on arrays: button,
  gateway, adapter, chaincode (`schemas.ts:144`, `163`,
  `defchain-contract.ts:179`).
* The inbox is read query by query while requests arrive and are decided.
* An adapter knows a repeated call only by a cache that is purged and that a
  restart empties (adapter `server.ts:48-70`), on a clock that is not the
  sender's.
* Answers reach a page that was left, or a tab whose actor has changed; the
  restore of an old session and a new sign-in do not wait for each other
  (`App.tsx:139-168`).

`PROJECT.json` lists these hazards line by line with the properties that cover
them, or why none does yet.

### What makes each component correct

* Chaincode: records are write-once; each is backed by the records its
  transaction demands; a receipt goes back to an approval that had not expired,
  a match, and a query that named its provider; a denial is final; every record
  shows in exactly one workflow.
* Fabric client: a call takes effect at most once and atomically; acknowledged
  records can be read back by the caller; every call ends.
* Discovery: an answer agrees with the ledger; a provider attests once, to a
  query that targeted it, and keeps the identifier it was asked about; nobody is
  charged for a query that is not recorded; every post is answered.
* Disclosure: a payload goes to its requester, with approved scopes only, once,
  with its own receipt; an acknowledged decision is the decision; every handler
  answers.
* Internal authentication: one run of an adapter handles a call once and refuses
  none without cause; a restart revives nothing that is older than two windows.
* Decisions: what one layer lets through no later one refuses for its scopes; a
  confirmation on a desk is of the decision that stands and of this desk; an
  inbox misses nothing that waited.
* Web session: calls carry the token of the user who is shown, pages show that
  user's answers only, and the sign-in cards become usable again.

## 2. The modules

```
Ledger  <- LedgerCalls <- Disclosure          EXTENDS
              ^
              | INSTANCE (refinement)
        FabricLedger          ProviderDesk  InternalAuth  WebSession

Ledger  <- Discovery                          INSTANCE (refinement)
```

`ProviderDesk`, `InternalAuth` and `WebSession` stand by themselves: each keeps
of the ledger what its properties need (`decided`, nothing, `owner`). So does
`Discovery` (`queries` and `attestations`), and `ImplementsLedger` shows that
what it keeps is a behaviour of `Ledger`: `World` gives the records that
`queries` and `attestations` stand for.

**Ledger** - the chaincode as an abstract state machine. `state` is the set of
records in the world state; each record carries its type, input, `txId` and
`ledgerTimestamp`. A transaction is an action with the caller's MSP and a
record; its guard (`QueryAccepted`, `MatchAccepted`, ...) is the chaincode's
sequence of checks, and `PutImmutable` is its last statement: the key is free
(`KeyFree`) and the record is put under it (`PutState`). `Accepted` gathers the
guards so that other modules can ask what the chaincode would say on some other
state. `IdsUnambiguous` is not assumed: it follows from the keys. Timestamps
come from the submitting client, so any instant is possible in any order.

**LedgerCalls** - the interface callers rely on, and the abstract specification
of `FabricClient.submit`. A call is `idle`, `open`, then `ok` or `failed`. It
takes effect while open or after it has failed (`TakeEffect`), at most once,
and returns only if its record is on the ledger (`Return`). That the ledger then
moves as `Ledger` does (`OnlyTransactions`) is proved.

**FabricLedger** - how Fabric does it: `Propose` (the chaincode runs on the
proposing organization's peer, which may lag), `Endorse`, `Broadcast`, `Drop`,
`CommitBlock` (the read set decides validity), `Deliver`, `CommitStatus`,
`Refuse`, `DeadlinePasses`. The client's part is translated from the source;
endorsement, ordering, read-conflict validation and delivery are the network's
and are modelled from how the client uses them (external in the map). The
refinement mapping takes the world state after the last block for `state`, and
the stages before a verdict for `open`.

**Discovery** - the two query routes, `/internal/match` and the counters. One
handler per post; its provider loop is sequential, as in the code; each call to
an adapter starts a `job` that lives on when the handler gives up. The ledger
appears through the interface of `LedgerCalls`: a commit is one step, a submit
may end with an error before or after it. A commit of an attestation is guarded
by the query being there and the provider not having attested; that the provider
was targeted, which the chaincode checks as well, is not assumed but follows
from the handlers (`ImplementsLedger`). A failed adapter, a lagging read, a
gateway restart and the demo reset are actions. `caseError` stands for the
outcome of the case and purpose checks. `forgiven` is a history variable that no
guard reads: the queries posted before the last demo reset, whose charge the
reset may take away (`database.ts:186`); any posted later is charged before a
provider is asked (`EverySubmissionIsCharged`), the mirror image of
`OnlyRecordedQueriesCharged`.

**Disclosure** - the routes after discovery, on top of `LedgerCalls`: a handler
owns at most one ledger call, made by itself (`PostAccess`) or by an adapter
run for it (`AdapterDecides`, `AdapterDiscloses`), and the call has the
handler's name. Its timestamp may be later than the check that let the handler
make it, so the chaincode's own check of the expiry has work to do. All services
share one clock, `now`. `view[o]` is what organization o's peer has come to; every
check reads a view. A payload is the set of scopes it has a field for, and is
its own hash; signature, hash and decryption checks are kept as their outcomes
(502, 500). A gateway restart has the same effect as a timeout (the handler is
gone, the adapter goes on). The form of the answer `503` or `500` follows the
error handlers of both services.

**InternalAuth** - `callAdapter`'s signed calls and `authenticate`. A call
stands for its nonce, body and signature, and may be delivered late, never, or
several times. `seen` is `seenNonces` with its expiries; every arrival purges
it, only an accepted one adds to it; `Restart` empties it. `now` is the
adapter's clock and the gateway's differs by `Skew`. `verdicts` records what
became of each arrival, for the properties. The HMAC is taken to work.

**ProviderDesk** - from an officer's click to the decision on the ledger, with
bodies and scopes as the code has them: sequences, possibly with duplicates.
`Decide` posts what the three buttons make, `ClientPosts` any body of `Calls`.
`HandleDecision` (gateway), `AdapterChecks` and `RecordAuthorizationDecision`
(chaincode) each apply their own text of the rules; `DecisionScopesValid` is
`validateDecisionScopes`, `ChaincodeAccepts` the chaincode's copy. `NewLoad`,
`ReadWorkflow` and `ShowInbox` are `GET /provider/inbox` in pieces; a desk's
`items` are whatever answer came last. `AdapterTimesOut` ends the wait and
leaves the adapter running. `Disclosure` has the same route with scopes as sets
and lagging peers; here the bodies and the clicks are what counts.

**WebSession** - one tab and the actors who take turns at it. `token` and
`saved` are `localStorage`; `user`, `busy`, `view`, `draft` the state of `App`;
`panel` that of the mounted page. A call remembers in `from` whether the
application or a page sent it and whether the page was left or the document
reloaded since: `LeavePage` is React's unmounting, after which answers are still
processed but set no state of the page. `Serve` and `Refuse` are the gateway,
`Tab` what the browser does with an answer. `saved.by` and `panel.output.by`
record whose call a value came from. `overlapped` is a history variable too: a
sign-in was sent while a restore was on its way, and since then neither was the
document loaded again nor the actor switched with no restore and no sign-in in
flight, which ends the confusion.

**LedgerProofs, LedgerCallsProofs, FabricLedgerProofs, DiscoveryProofs,
DisclosureProofs, InternalAuthProofs, ProviderDeskProofs, WebSessionProofs** -
the theorems (section 5). **MCLedger, MCFabricLedger, MCDiscovery, MCDisclosure,
MCProviderDesk, MCWebSession** - instances for TLC; `InternalAuth` needs none.
Definitions commented "Variant" are
deliberate mistakes that the specification does not use: each is the form a
plausible bug would take, and each property of a passing run is violated when
its variant is put in the place of the definition (`mutants` in
`PROJECT.json`).

## 3. The runs

| Run | Instance | Checks |
| --- | --- | --- |
| `ledger` | 2 organizations, 2 queries, 1 request, 2 scopes, 2 instants | `TypeOK`, `IdsUnambiguous`, `ChainOfCustody`, `EveryRecordBacked`, `OneWorkflowPerRecord`, `WriteOnce`, `DenialIsFinal` |
| `fabric_ledger` | 2 peers, 3 calls out of 2 queries and 2 matches that compete for two keys | `TypeOK`, `AcknowledgedIsReadable`, `OneWinnerPerKey`, `PeersAgree`, `ImplementsCalls`, `EveryCallReturns` |
| `discovery` | one query and one retry, also of another identifier or an untargeted provider, two providers, every refusal, 2 users, budget 1 | `TypeOK`, `AnswersAreOnLedger`, `AttestedOnce`, `AttestedTokenIsMapped`, `OnlyRecordedQueriesCharged`, `EverySubmissionIsCharged`, `ImplementsLedger`, `EveryPostAnswered` |
| `disclosure_race` | 2 officers (PARTIAL against DENY), 2 disclosures, one request | `HandlersTypeOK`, `DisclosedOnce`, `AcknowledgedDecisionStands` |
| `disclosure_answers` | both disclose routes, all refusals, an approval that expires | `DisclosedAsApproved`, `EveryHandlerAnswers` |
| `internal_auth` | 2 calls, 3 arrivals, 2 runs, window 2, cache life 4, gateway 3 ahead, 6 instants | `TypeOK`, `AcceptedOncePerRun`, `RefusedForCause`, `RepeatsAreClose` |
| `provider_desk` | 2 desks and another client, 2 own requests in two queries and a foreign one, 3 scopes, 2 decisions, 3 loads | `TypeOK`, `LayersAgree`, `ConfirmationStands`, `InboxComplete` |
| `web_session` | 2 actors, 2 queries, 2 calls in flight | `TypeOK`, `ActsAsShown`, `ShowsOwnAnswers`, `SignInSettles`, no deadlock |
| `discovery_overspend` | two posts, budget 1 | `BudgetHolds` is violated |
| `disclosure_lost_payload` | one disclosure | `ReceiptMeansDelivered` is violated |
| `desk_approve_override` | as `provider_desk` | `UnrequestedScopesRejected` is violated |
| `web_switch` | as `web_session` | `SwitchingClears` is violated |

The last four are disagreements between the code and its documents:

* **Overspending.** Two posts of one user pass `server.ts:331` before either
  reaches the increment at `365`, although SECURITY_CONTROLS.md lists the
  "per-user query budget before Fabric query creation". That this overlap is the
  only cause is a theorem (`BudgetHoldsInTurn`).
* **A receipt without a disclosure.** Readme.md says the receipt proves that
  "An approved off-chain disclosure occurred", and ARCHITECTURE.md draws the
  payload before it. The code commits the receipt first; a lost or late answer
  leaves it, and no later call can repeat it.
* **An APPROVE whose list is not looked at.** API.md says that APPROVE "must
  equal the requested set" and that "unrequested scopes are rejected"; the
  gateway puts the requested scopes in the place of the body's
  (`server.ts:651`) before it validates them, and the decision is recorded.
* **A query that outlives its actor's turn.** TEST_RESULTS.md says that "Actor
  switching clears cross-user browser state". Discovery saves the new query's
  identifier when its answer arrives (`App.tsx:561`), also after the page was
  left and the actor switched; the next actor finds it. The restore of a session
  that is refused is another way, which the code has and the run's trace does
  not take: it removes the token and leaves the saved query (`App.tsx:145`).
  With both excluded, and sign-ins that wait for the restore, switching does
  clear (`OrderlySwitchingClears`). Only a restore that carries a token is
  excluded: the one of a first visit may be refused, as it always is.

Four remarks on what a property says, rather than findings:

* `AttestedTokenIsMapped` says that what a provider attests is the result for
  the identifier this call brought, and that this one and the one it maps the
  query to were both asked of it. That the two are one needs retries that repeat
  the query's own (`RepeatedIdentifierIsMapped`): the route does not compare it,
  and `INSERT OR IGNORE` (adapter `server.ts:93`) keeps the first mapping.
* A 503 of `POST /queries` does not say that there is no query: a late commit
  gives both. `OnlyRecordedQueriesCharged` and the invariants about attestations
  allow for it.
* `ActsAsShown` and `ShowsOwnAnswers` except a sign-in that was sent before the
  restore of an older session was answered. Then the old user may be shown
  while calls carry the new token, or the new token may be removed. The code
  allows it and no document promises otherwise; the exception ends with the
  next switch of actor that finds neither in flight, and both hold again.
* `LayersAgree` is about later layers being stricter than earlier ones: that the
  last of them, the chaincode, is strict enough is judged by `Ledger`'s own
  `EveryRecordBacked` (`DecisionBacked`: nothing that was not asked for, and
  APPROVE for all of it and nothing else) and `ChainOfCustody`.

### Bounds, and why they are enough

* *Two instants* separate "before" from "at or after" an expiry; guards only
  compare two instants at a time. `Lifetime = 1` and `LastInstant = 1` let an
  approval expire between the adapter's check and the answer; `LastInstant = 0`
  in `disclosure_race` leaves expiry to the other run.
* *Two queries* suffice for confusion between them: every guard names at most
  one of each; ids are free, so one request id can be claimed for either. *Two
  scopes* give PARTIAL a proper non-empty subset. *Two organizations* give a
  requester and a provider, each of which also tries the other's part.
* *Two officers, two disclosures, a query and a retry* make every race a pair; a
  third rival adds no new order of a pair's checks and effects. `discovery` has
  one query, whose retry races its own late calls; its three organizations are a
  requester and two providers, an officer of one of which also posts queries and
  foreign retries; queries of the own agency and of one that is not configured
  are refused, and of the retries one names another identifier and one, after
  the query to one provider, an untargeted one. That two posts race on the
  counter is in `discovery_overspend` and, for `OnlyRecordedQueriesCharged`, in
  the proof. The proofs remove these bounds wherever they apply.
* *Window 2, cache life 4, skew 3* (`InternalAuth`): the skew exceeds the window,
  so a call may be near only some time after it was sent and must be remembered
  longer than a window; six instants contain arrival, expiry and purge. Two
  runs and three arrivals give a repetition within a run and across a restart.
* *Two decisions, three loads* (`ProviderDesk`): each desk opens its inbox and
  one confirmation loads again; `MCCalls` has one body for every rule it can
  break. The requested scopes are two, for a proper PARTIAL, and one, for none.
* *Two calls in flight, two queries* (`WebSession`): an answer of the actor
  before and one of the actor now; a page's history and what it may be replaced
  by. Reloads and turns are not bounded, and there deadlock is checked.
* *One transaction per block*: a peer may be any number of blocks behind, so
  larger blocks give no new world state to endorse on.
* `Permutations` symmetry is used only in runs without liveness, on sets whose
  members no definition tells apart.
* Deadlock checking is off in the others because they are finite instances: when
  every handler has answered and every id is taken, nothing is left to do.

## 4. Fairness

Safety needs none. `Discovery` and `Disclosure` assume weak fairness of the
gateway's own steps, timers included (`GatewayStep`): the event loop runs and
`AbortSignal.timeout` fires. They assume nothing of adapters, peers or
orderers. That a submit ends is an action of the gateway handler in
`Discovery`, and weak fairness of `CallThrows` in `Disclosure`; both are
justified by `FabricLedger`, where `EveryCallReturns` follows from weak fairness
of the client's deadlines alone (`index.ts:95-98`). `WebSession` assumes that a
sign-in's `fetch` settles and that the browser runs what waits for it: for
`SignInSettles` nothing more is needed, and no fairness of the actor.

## 5. What is proved

Every invariant, action property and refinement that a passing run checks, for
every set of organizations, ids, scopes, handlers, calls and instants, under the
named assumptions on the constants: timestamps are integers; submissions are
well formed; handlers are distinct calls; the clock's instants are timestamps;
forms are what the routes' schemas let through, so a list of targets is not
empty; nonces are kept for two windows at least; requested scopes have no
duplicates; `None` is no token, user or query; `MaxInFlight` and `MaxQueries` are
natural numbers. TLC evaluates each of them.

Three theorems have a condition on the behaviour as well, since the code does
not keep the property by itself; each says exactly what would have to be kept
(`RepeatedIdentifierIsMapped`, `BudgetHoldsInTurn`, `OrderlySwitchingClears`).
Runs of the system without overlap, dropped session or mistyped identifier
satisfy them, first sign-ins included; the findings' runs show what happens
otherwise.

* `LedgerProofs`. The inductive invariant is
  `TypeOK /\ IdsUnambiguous /\ EveryRecordBacked`. Backing alone is not
  inductive: the guard of a later transaction finds its predecessor by key, and
  only unambiguous ids make that the record that was checked. Since records are
  only added (`PutFresh`, `NextAppends`), a backing once there stays.
  `ChainOfCustody` follows by walking the backings from a receipt to its query;
  `DenialIsFinal` from the decision key being taken; `OneWorkflowPerRecord`
  from the backing of the record that connects a decision to a query.
  `AcceptedIsTransaction` says that a record which `Accepted` lets through is a
  transaction of `Next`; every refinement below ends in it.
* `LedgerCallsProofs`. Every step of a call leaves the ledger alone or is one
  of the five transactions: LedgerCalls implements Ledger.
* `FabricLedgerProofs`. The key lemma `ReadSetDecides`: whether the chaincode
  accepts a record depends only on what is at the keys it reads. So a
  transaction endorsed on an old state and validated against the head of the
  chain would be accepted there now. The invariant says where envelopes come
  from, that a settled call has no pending envelope, that world states only
  grow along the chain, and that an acknowledged call has a valid block its
  peer has applied. From it follow the refinement of LedgerCalls and the three
  safety properties. `BlocksAreTransactions` sees a block from the ledger's side
  and gives `FabricIsTransactions` (no run repeats it:
  `ImplementsCalls` and `LedgerCallsProofs` imply it); with it the theorems of `LedgerProofs`,
  instantiated at the world state after the last block, hold of the chain
  (`ChainKeepsPromises`).
* `DiscoveryProofs`. `DiscInv` adds to the types that a handler which has not
  been posted has no part in anything (`Fresh`), that an adapter's run belongs
  to a recorded query and to a position its handler has reached (`Reached`),
  that an attestation names its call and its call's result (`Signed`), that a
  run which ended well, and a result which is not FAILED, has its attestation
  on the ledger (`Backed`), and that a user's counter is at most the number of
  recorded queries whose handler is past the submit (`ChargedFor`). The last is
  needed because "at most the recorded queries" alone is not inductive: a query
  may be recorded by a handler that has not charged for it yet. `JobKeeps`,
  `MovesKeep`, `ResultKeeps` and `PostKeeps` each treat one kind of step, and
  every action is an instance of one of them. Any number of queries, retries
  and providers; a finite set of handlers of `POST /queries`, so that there is
  a number of them.
  * *The mapping.* `Mapped` says that a mapped token came with some call about
    that query to that provider, and that whoever has a result has a mapping;
    `LookedUp` ties a result to the token of its own call. Together they give
    `MappedToWhatWasAsked`. If retries repeat their query's identifier, there is
    only one token to be mapped and to be looked up
    (`RepeatedIdentifierIsMapped`).
  * *The charge.* `EverySubmissionIsCharged` is inductive with `DiscInv`: the
    one step that gets a query past its submit adds one to its user's counter
    (`SubmittedIsCharged`), a reset empties `Submitted` with the counters, and
    nothing else gets a query in (`NoneSubmitted`): `SubmissionsAreCharged`.
  * *The ledger.* `Targeted`: a call that was made is to a provider its query
    targeted. It is what `AttestCommits` does not check and `Ledger` does, so
    with it, `Reached` and `Unique` every commit is a transaction
    (`StepIsTransaction`), and `Discovery` implements `Ledger`.
  * *The budget.* `Affordable` adds to `BudgetHolds` that a user whose query is
    past its check is still below the budget. It is inductive as long as no
    user has two queries between check and count (`BudgetHoldsInTurn`).
* `DisclosureProofs`. `WorkInv` (types, the order in which a handler makes its
  one call, what it has read, what it calls with) gives
  `DisclosureIsTransactions`: the services implement Ledger, and so inherit its
  invariants. `Granted` remembers, for each receipt call of an adapter, the
  approval it was built from; it must be an invariant of its own, because the
  view it was read from has moved on when the answer arrives. That the approval
  was still good when the call was stamped cannot come from the adapter's
  check; it comes from Ledger's `ReceiptBacked`. With Ledger's invariant it
  gives `DisclosedAsApproved`, `DisclosedOnce` and
  `AcknowledgedDecisionStands`; and `WorkflowKeepsPromises` states what the
  services inherit from the ledger.
* `InternalAuthProofs`. `Covered` says that as long as an accepted call of this
  run is near, a nonce of it is remembered to the end of its window; this is
  where `Keep >= 2 * Window` is used, and with less it fails when the gateway's
  clock is ahead. `PurgeKeepsNear` is the step about the purge. Any window,
  skew and number of runs.
* `ProviderDeskProofs`. `PassedIsAccepted` shows that what the gateway validates
  the adapter and the chaincode accept, by counting: sequences without
  duplicates are as long as their sets. `Judged` and `Clicked` carry that along
  a post; `Standing` and `Confirmed` tie a confirmation to the record; `Read`
  says of a load that it has missed only what it is still to read. Any scopes,
  requests, desks and bodies, and any bound on loads and posts.

* `WebSessionProofs`. `TypeInv` sharpens the types of the calls: which kinds come
  from the application and which from a page. `Session` is what holds as long as
  no sign-in has overtaken the restore: each call in flight fits the session
  (`Fits`: the application's own calls are sent while nobody is shown, a page's
  calls carry the token of the user who is shown and list own queries only),
  there is one call of the application at a time, and what the page shows is the
  user's. `ActsAsShown` alone is not inductive: a restore's answer makes its user
  the one shown, so its token must be known to be the stored one. The lemmas
  `FitAppended` to `FitOwned` say what a handler may do to the calls (send, drop,
  leave the page, reload) and keep this. `Kept`, for `OrderlySwitchingClears`,
  says that a saved query is the token's, and that a token nobody is shown for
  is about to be restored. Any number of actors, queries and calls in flight.

Only model-checked: liveness under fairness (`EveryCallReturns`,
`EveryPostAnswered`, `EveryHandlerAnswers`, `SignInSettles`), which needs ENABLED
and is out of TLAPS's reach. The four violated properties are shown false by
their runs.

## 6. What is not modelled, and the plan

Cryptography, transport security, identities and the wording of errors are left
out: the models take them to work, or to fail as an error. Justifications,
reason codes, policy versions and eligibility codes are payload that no
decision reads. In `Discovery` and `Disclosure` roles and tokens are checked
before a handler starts. Cases, security events, health and the dashboard's
charts are single reads that no other step depends on; schema set-up and seeds
are data loading; scripts and container set-up are operator commands.

What could still be added, in order of importance:

1. *Two access requests in disclosure*: the by-query route takes the newest; an
   older approval behind one that keeps failing waits for its expiry. The
   instance does not finish at the bounds the other cases need.
2. *Several tabs*: they share `localStorage` and not their state, and nothing
   listens to storage events, so what they show and send would disagree at once;
   worth modelling once the code has an answer to it.
3. *WorkflowView*: the order in which `GetWorkflow` lists records under clock
   skew. Only people read it.
