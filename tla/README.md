# A verification of Soroban-Identity

TLA+ models of the parts of Soroban-Identity that carry its state and its protocols: four of
the contracts, the server's stores, queues and links, the SDK, the mobile app's offline
queue and the analytics indexer. TLC checks the models on small instances; TLAPS proves, for every
value of the constants, the safety properties of the four contracts, of the server's links, its
WebSocket hub, its event streams, its webhook deliveries, the gate its requests pass and the four stores
behind it (credentials, API keys, tenants, OAuth), of the SDK's request queue, contract clients and event
subscriptions and of the mobile app's offline queue, and that the job queue implements its contract.

All paths below are relative to `src/`. `PROJECT.json` lists the runs, the mapping from
definitions to source lines, the hazards, the findings, the mutants and the theorems.

## 1. The system

Soroban-Identity is a decentralised-identity platform. Its state of record lives in Soroban
(Rust) smart contracts; a Node server, an SDK, a command-line tool, a mobile app, a browser
extension and a web front end sit around them.

| Part | State it keeps | Operations | Talks to |
|---|---|---|---|
| `contracts/identity-registry` | DID documents by controller, two counters, admin, pause flag, recovery address and pending recovery per controller | create, update, batch, services, (de)activate, recover, admin handover, pause | called by credential-manager (`has_active_did`) |
| `contracts/credential-manager` | credentials by id, nonces, holder index, suspensions, transfer requests, prerequisite graph, issuers, pause flag; also multisig actions, escrow, delegation, upgrade timelock | issue, revoke, suspend, renew, amend, expire, transfer, verify | identity-registry, oracle |
| `contracts/governance` | weights, delegations, proposals with tallies | initialize, set weights, propose, vote, delegate, execute | called by clients only |
| `contracts/bridge` | chains, state roots, document cache, rate windows | publish root, resolve by proof or from the cache | an off-chain oracle |
| `contracts/revocation-registry`, `reputation`, `resolutions-rep`, `schema-registry`, `selective-disclosure`, `credential-extensions` | bitmaps, scores and stakes, schemas, proofs, prices and keys | single calls over keyed storage | issuers, reporters, credential-manager |
| `server/src`: links | Redis connection and its pending commands, circuit breaker, DID cache, job sets in Redis, PostgreSQL clients | commands, invocations, resolution, jobs, queries | Redis, the Soroban CLI, PostgreSQL |
| `server/src`: requests | credential file and its cache, webhook file, deduplication map, rate buckets, quota, key file, event log and projections, tenant file, OAuth clients, codes and tokens | HTTP handlers, the expiry job, deliveries | each other through files and maps |
| `server/src`: streams | WebSocket rooms, stream cursors, message broker queues and log | subscribe, broadcast, poll, publish, consume | clients, the ledger |
| `sdk/src` | request queue, endpoint index, event cursor and seen ids | contract calls, retries, failover, subscriptions | contracts over RPC |
| `mobile/src/services` | write queue in AsyncStorage | enqueue, sync | server |
| `analytics/src` | records, countries and stream cursors in one file, list of countries to look up | poll events and transactions, look up, take reports, summarise | RPC node, dashboard clients |
| `frontend`, `extension`, `cli` | settings | user interface | SDK, server |

**How they interact.** A contract call is a transaction: it runs alone, and an error or a panic
rolls all of it back. What is concurrent is the *order* of calls by different parties
(controller, recovery address, issuer, holder, recipient, admin, anybody) and the clock.
`issue_credential` asks the identity registry for an active DID and then never looks again, so
the two contracts drift apart by design. The server, the SDK and the app are asynchronous
JavaScript: one callback at a time, interleaved at every `await`. The server's processes share
Redis, and its handlers share files that are read, changed and written back; most of those
sequences hold no lock.

**What is hard here, and what makes each part correct.**

- *Identity registry.* Multi-step recovery with a timelock, racing cancellation, replacement of
  the recovery address, deactivation and the target's own DID; counters kept by increments on
  five paths; a pause flag that every writing path must honour. Correct: counters exact,
  documents under their controllers' keys, no recovery state left behind by a move, the whole
  timelock waited for, pause really stops.
- *Credential manager.* Three ways to end a credential, three ways to complete a transfer, a
  request that can be pending through all of them, re-issuance that looks at the latest nonce
  only, a dependency graph kept in two copies and walked to a fixed depth. Correct: one live
  credential per issuer, subject and type; revocation final; requests always from the present
  holder; both copies of the graph equal; verification sound at any depth.
- *Governance.* Weights change under open proposals, `u64` tallies wrap, the voting window, the
  quorum and the timelock meet at the same timestamps, and every call but one works before
  `initialize`. Correct: one vote per address, no division by zero, decided tallies final,
  execution only after the timelock.
- *Bridge.* Cached documents against roots that are replaced and expire; a rate window that
  restarts at a boundary. Correct: nothing is served longer than a root that proves it; the
  window serves its quota and no more.
- *Server links.* Replies matched to commands by position; several paths that start connection
  loops; results of calls begun in another breaker state; cache fills that race invalidations;
  check-then-act over Redis by several workers that may die; clients kept on one of many release
  paths; timeouts that abandon what goes on. Correct: callers are answered, nothing is
  forgotten, and after an outage the link comes back.
- *Server requests.* Read, change, write back without a lock; files truncated in place; crashes
  between two writes; limits checked several awaits before they are used. Correct: what was
  confirmed is in force, except after an overlap that the property names.
- *Server streams.* Messages handled after a socket was dropped, pages cut inside a ledger,
  retries, ordering keys and a log around an awaited handler. Correct: exact registries, events
  once and in order, messages kept until they are settled.
- *Analytics.* Two streams whose cursors age out of the node's window, saves in the middle of a
  tick, a list of lookups that dies with the process. Correct: every record once, and no cursor,
  in memory or saved, past an item that has no record, except for what has aged out.
- *SDK and app.* Slots freed in a microtask after the outcome, lost answers, lagging nodes, a bounded
  memory of seen events, a killed app. Correct: a transaction takes effect at most once, a
  promise settles, nothing queued disappears.

## 2. Modules

| Module | Models | State and actions |
|---|---|---|
| `IdentityRegistry` | `identity-registry/src/lib.rs`, `recovery.rs` | storage entries; one action per entry point, `CloseLedger` |
| `CredentialManager` | `credential-manager/src/lib.rs` (credentials, transfers, prerequisites), `suspension.rs` | storage entries; one action per entry point, `Tick` |
| `Governance` | `governance/src/lib.rs` | the same |
| `DidBridge` | `bridge/src/lib.rs` | the same |
| `RedisClient` | `server/src/redis-client.js` | connect loop, `pending`, replies on the wire, timers; a step per socket event or timer |
| `CircuitBreaker` | `server/src/circuit-breaker.js`, `invoke` of `soroban.js` | the three states and their counters; callers, retried commands, commands that outlive their timeout |
| `DidCache` | `server/src/did-cache.js`, `resolveDid` of `soroban.js` | availability, entries; readers between two awaits, invalidations, outages |
| `JobQueue` | `server/src/job-queue.js` | job records and the four sorted sets; a step per Redis command, which may be refused or take effect and time out; dying workers |
| `JobContract` | what `JobQueue` promises | a job's standing: accepted, open, on the list completed or failed |
| `DatabasePool` | `server/src/db/pool.ts` | clients; calls through connect, check, statement, retry, rollback; shutdown |
| `CredentialStore` | `server/src/storage.js`, `expiry.js` | file, cache, lock chain; requests, readers, the expiry job, restart |
| `WebhookDelivery` | `server/src/webhooks.js` | subscription file, queue, slots, timers; edits, triggers, deliveries, drain |
| `RequestGate` | `middleware/dedupe.js`, `rate-limiter.js`, `quota.js`, the credential route of `app.js` | deduplication map, buckets, quota, the cached copy of the credentials that the tenant's limit is checked against; a request's passage, listings, other tenants' writes |
| `Selections` | the deletions of `middleware/dedupe.js` and `offline.ts`, the filters of the streams and of `events.ts` | an operator: what is left of a sequence, at which positions |
| `ApiKeys` | `server/src/api-keys.js` | map and file; callers between load, change, serialise and rename; a read that fails, expiry |
| `EventStore` | `events/event-store.js`, `events/event-replay.js` | log lines, archive, projections; append, publish, rebuild, retention that empties the log before it writes it, torn lines, crash |
| `TenantRegistry` | `tenancy/tenant-registry.js`, `tenant-routes.js` | map and file; init (of a whole, a torn and an unreadable file), change, truncating save, restart |
| `OAuthService` | `server/src/oauth.js` | clients, codes and tokens in memory, file; requests between load, change, serialise and rename, a read that fails, expiry, restart |
| `WebSocketHub` | `server/src/websocket.js` | sockets, two-way registry; upgrade, messages, heartbeat, broadcast, close |
| `LedgerStreams` | `sse.js`, `long-poll.js`, `pollOnce` of `websocket.js` | cursor, page under way, what was sent |
| `MessageBroker` | `server/src/messaging/index.js` (in-process broker) | queue, in flight, locks, dead letters, log; publish, the pump's two looks at the clock, handler ends, redrive, replay with its compaction, torn lines |
| `RequestQueue` | `sdk/src/request-queue.ts` | queue, slots, retries; a step per callback |
| `SdkMethods` | the methods of `sdk/src/credentials.ts`, `identity.ts`, `reputation.ts` | constants: the requests each method awaits, in order |
| `SdkClient` | `sdk/src/base-client.ts`, `utils.ts` | calls running their methods, their runs in the request queue, node index, account sequence, ledger |
| `EventFeed` | `sdk/src/events.ts` | cursor, seen ids, polls of a subscription or a listener |
| `MobileOffline` | `mobile/src/services/offline.ts` | stored array, sync in progress, writes under way and rejected, connectivity |
| `AnalyticsIndexer` | `analytics/src/indexer.ts`, `store.ts`, `server.ts` | store, its file, the tick's position; pages, range errors, lookups, reports, signals, restart, a file that cannot be read |
| `IdentityRegistryProofs`, `CredentialManagerProofs` | theorems about these contracts | |
| `ContractProofs` | theorems about `Governance` and `DidBridge`, lemmas about finite sums | |
| `LinkProofs` | theorems about `CircuitBreaker`, `RedisClient`, `DidCache`, `DatabasePool` | |
| `ServerProofs` | theorems about `WebSocketHub`, `LedgerStreams`, `WebhookDelivery`, `JobQueue` and `JobContract` | |
| `RequestProofs` | theorems about `CredentialStore`, `ApiKeys`, `TenantRegistry`, `OAuthService`, `RequestGate` | |
| `ClientProofs` | theorems about `RequestQueue`, `SdkClient`, `EventFeed` and `MobileOffline` | |
| `SelectionTheorems` | lemmas about `Filtered` of `Selections` | |
| `MC...` | instances for TLC | constants, and which part a behaviour belongs to |

In the contract models **a variable is a storage entry** (a map keyed by address or id, `None`
where the key is absent) and **an action is a successful entry-point call**: guards are the
code's early returns, in conjunction since a failed call leaves no trace. The caller is an
argument, standing for the address whose `require_auth` succeeded. `Tick` (`CloseLedger` in the
registry) advances the ledger's clock between calls.

In the JavaScript models **a variable is a field, a file or a Redis key** and **an action is what
runs between two awaits**, with everything the code does synchronously in between. Where a
request is at is its `pc`, `at` or list of steps to come. Definitions keep the names of the
functions, structs and constants they translate.

Variables marked *history* in the modules record what happened for the sake of a property and
are read by no action's guard. Several properties have the form "this goes wrong only if that
overlap happened": the history variable names the overlap, so that the property says precisely
which races the code is exposed to and that there is no other.

Abstractions of data, by module:

- *IdentityRegistry*: a metadata map is its shape (entries, longest key, longest value), since
  `validate_metadata` looks at nothing else; the DID string is the address it is formatted from,
  which is injective. `quiet[c]` is a history variable: the ledger since which the present
  recovery of `c` has been pending undisturbed. `upgrade` replaces the code and is left out.
- *CredentialManager*: an id is the pair (triple, nonce) that `derive_id` hashes. Claims, hashes,
  schema checks and signatures decide nothing about the entries modelled. `has_active_did` is
  an input that may be either value at every issuance, so nothing depends on how the registry
  and the manager interleave. The issuer cap in force is the constant `MAX_ISSUERS`. Index entries
  that only queries read (by issuer, by type, version and transfer history, issue totals), fees
  and events are left out. `lib.rs` breaks off inside `revoke_credential_with_reason`, after the
  credential has been stored as revoked; the model has what is there. `revoke_credentials_batch`
  also calls `revocation::mark_revoked`, which `revocation.rs` does not define; its effect is
  not modelled. The prerequisite walks are the sets of ids met at each depth, because both walks
  fail as soon as any visit fails.
- *Governance*: descriptions and payloads are left out; `U64` is the modulus of the tallies and
  is instantiated small so that they wrap.
- *DidBridge*: SHA-256 is taken as injective, so a root is the set of leaves below it and a proof
  folds to the root exactly for these. `published` and `served` are history variables.
- *Redis, PostgreSQL, the ledger, the ws library*: external. Redis answers a connection's commands in
  the order they were written; a statement without an answer may have been executed, be executed
  later or never; a node accepts a transaction with the account's next sequence number; a closed
  socket's `close` event comes last and is certain.
- *Time* is ticks still to go or a small clock; a timer may fire late, never early. Delays
  that only spread load (backoff, jitter) are a timer that fires at some time.
- *Documents, credentials and tenants* are versions, or the set of requests whose change a stored
  copy contains, since the properties ask only which change survived.
- *OAuthService*: a token or code is named by the request that created it; whether the secret and
  the redirect URI are right is part of the request. Tokens are random (`oauth.js:35-37`), so a request
  presents only one that was issued before it comes in (`Presentable`). A blank scope is no scope, since the request
  schemas trim it. Scopes are sets; the wildcard of an approver is all of them.
- *AnalyticsIndexer*: an item is its position in its stream; which items leave no record (failed
  calls, foreign contracts, transactions that verify nothing) is the constant `Ignored`. A country is
  the number of updates its lookup saw. The node's window of ledgers moves with its head.

## 3. Runs

Components that share no state are checked side by side in one run: the MC module has all their
variables and one that names the part, each behaviour belongs to one part, and the others stay as
created. The reachable states are then the sum of the parts', not their product, and each part's
property holds trivially in the behaviours of the others. A part with theorems is extended by the MC
module, not instantiated, so that the run checks the very definition the theorem states.

Passing runs:

| Run | Checks | Shows |
|---|---|---|
| `contracts` | `GovernanceSound`, `DecidedIsFinal`, `BridgeServesProved`, `RegistryAgrees`, `DocumentsStayWellFormed`, `PauseFreezesDocuments`, `TransferNeedsFullTimelock`, `OneLivePerTriple`, `HolderRecordsAgree`, `RevokedIsFinal`, `PrerequisitesListed`, `PrerequisitesAcyclic`, `VerifiedStandsOnValid` | six parts: votes under two weight tables (one overflowing) and the clock; two contradicting roots, expiry, two resolvers; two accounts that interleave documents, pause and recovery; one account's document, with metadata on both sides of every limit and batches that apply some entries and skip others; a credential issued, transferred, revoked, expired, renewed and issued again in every order; chains of prerequisites that outgrow the depth limit, with revocation and suspension below |
| `server_links` | `RedisFlagBacked`, `BreakerCountsStreak`, `CacheStaleOnlyByRace`, `JobsKept`, `PairKeepsJobs`, `JobContractKept`, `PoolSound`, `LinksSettle` | Redis drops and timeouts, a ledger that goes down and comes back, cache races, racing and dying workers, commands that are refused or time out after they took effect, database clients that break while held |
| `server_requests` | `StoreKeepsChanges`, `DeliveriesTracked`, `RequestsAdmittedOnce`, `KeysEnforced`, `EventLogKept`, `TenantsInForce`, `TokensSound`, `RequestsSettle` | handlers that share files and maps without transactions, failed reads and writes, restarts |
| `server_streams` | `HubRegistryExact`, `HubShutsDown`, `EventsSentInOrder`, `MessagesKept`, `EventsDelivered` | half-open peers and shutdown, full pages and failed polls on three transports, a broker with retries, redrive and crashes inside its writes |
| `clients` | `QueueSlotsExact`, `CallsTakeEffectOnce`, `FeedDeliversOnce`, `OfflineWritesKept`, `IndexKept`, `ClientsSettle` | four requests on two slots; every SDK method over lossy, lagging nodes; subscriptions; the offline queue; the indexer behind a moving window |

Most properties are the conjunction of what their component promises; the parts are
defined, each with its comment, at the end of the component's module. In `contracts` the registry and the
credential manager occur twice: once extended, and once as an instance (`D`, `G` of `MCContracts`) with
inputs of its own, whose properties have names of their own there.

| Property | Its parts |
|---|---|
| `RegistryAgrees`, `HolderRecordsAgree` | `IdentityRegistry.CountsMatchDocuments`, `KeyedByController`, `RecoveryBackedByDocument`; `CredentialManager.RequestFromHolder`, `ListedUnderHolder` |
| `DocumentsStayWellFormed` | `IdentityRegistry.DocumentsWellFormed` |
| `PrerequisitesListed`, `PrerequisitesAcyclic`, `VerifiedStandsOnValid` | `CredentialManager.DependantsMatchPrerequisites`; `NoMutualDependency`; `VerifiedStandsThroughout` |
| `GovernanceSound`, `BridgeServesProved` | `Governance.OneVotePerAddress`, `ThresholdDivisionSafe`, `ExecutedAfterTimelock`; `DidBridge.ServedDocumentsAreProved`, `RateLimitHolds` |
| `RedisFlagBacked`, `BreakerCountsStreak` | `RedisClient.ReconnectFlagBacked`; `CircuitBreaker.ClosedBelowThreshold`, `TripsOnConsecutiveFailures` |
| `CacheStaleOnlyByRace` | `DidCache.AvailableIsUsable`, `StaleOnlyByRace` |
| `JobsKept`, `PairKeepsJobs` | `JobQueue.NothingForgotten`, `CompletedRan`, `AttemptsBounded`, with one worker; with two |
| `PoolSound` | `DatabasePool.ClientsAccountedFor`, `EffectsMatchAnswers` |
| `LinksSettle` | `CircuitBreaker.HealsAfterRecovery`; `RedisClient.CommandsSettle`, `ReconnectSucceeds`; `JobQueue.JobsSettle`; `DatabasePool.CallsSettle`, `ShutdownEnds` |
| `StoreKeepsChanges` | `CredentialStore.LostOnlyByOverlap`, `OneUpdatePerVersion`, `EventsFollowWrites`, beside a reader and beside the expiry job |
| `DeliveriesTracked` | `WebhookDelivery.OneTaskPerOpenDelivery`, `NoIdleSlot`, `SubscriptionsKept` |
| `RequestsAdmittedOnce` | `RequestGate.NoTwinWithinTtl`, `DuplicatesAgree`, `QuotaCountsAdmitted`, `TenantLimitExceededByRace` |
| `KeysEnforced` | `ApiKeys.RemovalEnforced`, `GrantEnforced` |
| `EventLogKept` | `EventStore.NumberedInOrder`, `AppendedKept`, `ProjectionsCurrent` |
| `TenantsInForce` | `TenantRegistry.ClaimedOnce`, `ConfirmedInForce` |
| `TokensSound` | `OAuthService.OnePairPerCode`, `OnePairPerRefreshToken`, `RevokedForGood`, `AnsweredPairsKept`, `ScopesNeverWiden` |
| `RequestsSettle` | `CredentialStore.RequestsAnswered`, `WebhookDelivery.DeliveriesSettle`, `RequestGate.CallsAnswered` |
| `HubRegistryExact` | `WebSocketHub.RegistryExact`, `OncePerEvent` |
| `HubShutsDown` | `WebSocketHub.SilentOnceClosing`, `CloseCompletes`, `HalfOpenEnds` |
| `EventsSentInOrder` | `LedgerStreams.SentInOrderOnce`, `PassedOnlyAtCut` |
| `MessagesKept` | `MessageBroker.OneInFlightPerKey`, `NothingStranded`, `KeptUntilSettled`, `DoneOnce` |
| `EventsDelivered` | `LedgerStreams.EventsArrive`, `MessageBroker.MessagesSettle` |
| `QueueSlotsExact` | `RequestQueue.SlotsAccountedFor`, `WaitsOnlyForSlots`, `QueuedOnce` |
| `CallsTakeEffectOnce` | `SdkClient.AppliedAtMostOnce`, `ResolvedTookEffect`, `FalseFailureOnlyIfBlind`, `AllServersAsked` |
| `FeedDeliversOnce` | `EventFeed.InOrderOnce`, `SkippedOnlyAtCut`, `OneBatchAfterStop` |
| `OfflineWritesKept` | `MobileOffline.QueuedKept`, `AppliedOnceUnlessBlind` |
| `IndexKept` | `AnalyticsIndexer.RecordedOnce`, `PassedOnlyIfAged`, `ReportsKept`, `SummaryCurrent`, `CountryFollowsUpdates` |
| `ClientsSettle` | `RequestQueue.EveryRequestSettles`, `SdkClient.CallsSettle`, `EventFeed.EventuallyHandled`, `MobileOffline.QueueDrains`, `AnalyticsIndexer.IndexCatchesUp`, as one formula, on the premise that syncs keep being started |

Each component's type invariant is a conjunct of one of its properties.

Runs that exhibit a disagreement between the code and what the repository says of it:

| Run | Statement violated | What happens |
|---|---|---|
| `identity_replaced_recovery` | `RecoveredByRegisteredAddress` | a recovery started by an address that has since been replaced still completes |
| `redis_replies` | `RepliesMatchCommands` | a command times out and leaves the pending list; its late reply is handed to the next command, and every later command gets the reply of the one before it until the connection drops |
| `did_cache_outlived` | `NoneOutlivesInvalidation` | a reader that resolved a document before a write stores it after the write's invalidation, and it is served for the whole TTL |
| `oauth_refresh_reused` | `RefreshTokenSingleUse` | two refreshes load the token file together; the second load ends after the first one has rotated the token, brings the unrevoked record back and buys a second pair |
| `long_poll_loss` | `NoneLostBetweenCalls` | a page ends, by its limit, inside a ledger; the cursor goes past that ledger and the rest of it is never sent |
| `analytics_oldest_skipped` | `ResumesAtOldest` | an indexer that fell out of the node's window goes on one ledger after the oldest one the node reports |
| `store_lost_update` | `NoLostUpdate` | inside the lock, `readCredentials` answers from a cache that a reader outside the lock has filled with an older snapshot, and a confirmed change is written over |

**Refinement.** `JobContract` says what producers may rely on: an accepted job stays open until it is on
the list completed, which needs a handler run that returned, or on the list failed, or a fault costs it. A
closed job is never opened again, and it is listed a second time, or while it is open, only if the
command that listed it took effect and was reported failed (`doubted`): the worker then takes the job
for unfinished. `JobQueue.JobContractKept` states that the queue with
one worker implements it, under the mapping that reads a job's `Standing` off the sets it is in. With two
workers it does not (the slower of two claims puts a settled job back), which is why the second
instance, `P`, is checked for `PairKeepsJobs` only. For one worker the refinement is also proved, for any
jobs, delays, attempts and faults (`OneWorkerKeepsContract`, section 4).

**Bounds, and why they are enough.**

- *Accounts*: two in the registry and the bridge: every property relates at most a document's
  old and new key, or one resolver's window to itself. One account suffices for the instance
  `D`, whose property is about one document: `MAX_SERVICES` = 2 with three service
  ids meets the limit from both sides, and the clock stands still there. Three voters in governance,
  one proposal and one delegation: one voter in the table with each
  kind of weight and one that is missing from it.
- *Time*: three ledgers with a timelock of two in the registry let a recovery be started,
  cancelled and started again, and reach the ledger before, at and after its end. Governance
  (`VOTING_PERIOD` = timelock = 1, three seconds) and the bridge (window and TTL of 2, three
  seconds) likewise reach both sides of every boundary.
- *Credentials*: one triple with two nonces, two versions and no suspension for the life of a credential (a
  credential and its re-issuance, which is what `OneLivePerTriple` and `RevokedIsFinal` relate), one recipient
  beside the first holder, expiry inputs 0 (never) and 1 with the clock passing it. For prerequisites
  (instance `G`) one credential for each of three subjects, one prerequisite each and a depth limit of 1:
  a chain of three is longer than any walk, and a cycle through all three escapes a walk that gives up
  silently; every one may be suspended.
- *Words*: `U64` = 1024 holds the percentages' products of the small table and overflows with the
  huge one.
- *Links*: two Redis commands and two drops (a late reply needs one command after the one that timed
  out); three callers around a threshold of three and two successes to close, and one command that fails although the node is up; two readers of one
  DID, two versions, two outages; two jobs for one worker or one job for two, with one fault (a
  dead worker, a refused command or one that took effect and was reported failed), two attempts and times above `ScoreBase`, as the real clock is;
  four database calls of three kinds over two clients with one fault and one retry.
- *Requests*: two requests on one credential beside one reader or the expiry job; two edits and one
  event over one slot; three calls, two of them equal, over budgets of one or two, beside one listing that
  fills the cached copy and one write of another tenant; two callers of
  one key with one restart, one failed read or write and a tick that expires it; two events with one fault and one restart; two tenants and two admins
  with five requests, one restart and one failed read or save; five scenarios of three OAuth requests (a code
  redeemed twice, a refresh token rotated twice and its successor used, rotation beside a registration
  or beside revocations, a new client asking for another's token) with one restart and one failed
  read or write. Each race takes two actors and one await.
- *Streams*: two sockets and two rooms; seven events in pages of two, so that a page
  ends inside a ledger, one of them unreadable, one of another contract and two without a ledger; two messages of one ordering key with different priorities and delays.
- *Clients*: four requests on two slots, one retry; one call of any SDK method beside one write or
  read, two servers, two losses and one more run by the request queue; five events in three ledgers with pages of two, of
  which one ends inside a ledger, a memory of four ids and two polls of a listener at once;
  two mutations, of which one may be removed, two attempts, one mishap (a kill or a rejected write). Two
  read-modify-writes of the stored array may overlap: the later one overwrites the earlier, and the history
  variables `raced` and `doubled` name the mutations it dropped or put back, of which nothing is claimed. Three events and two transactions in two ledgers with
  pages of two and a window of two out of three ledgers, so that cursors age out, with one
  fault, one death and one report.

`CHECK_DEADLOCK FALSE` is set where the system may stop: the bounded clocks and ids end the
contract models, and a component whose requests have all settled has nothing left to do.

**Fairness.** Contract calls are made by people and need not happen, so the contract models assume
none and state no liveness. Elsewhere three things are assumed, each only of the step that needs
it, and nobody is assumed to make a request, publish, connect or close anything:

- *The event loop runs what is due* (weak): microtasks, timers (command and connect timeouts,
  reconnect, heartbeat, retry, polls, broker timers), and the next step of a handler whose
  await has resolved. `RequestQueue.Settle`, the delivery's post and the broker's handler end because
  the function passed in is an I/O call with a timeout.
- *A network that keeps being tried answers in the end* (strong): Redis accepts a connection and
  answers `AUTH` (`ReconnectSucceeds`), a poll is answered (`LedgerStreams`). Faults are bounded, so weak
  fairness would not add up over the interruptions; the code retries for exactly this reason.
- *The environment moves on* (weak): the ledger closes ledgers, the analytics node answers a request
  (with a page, or with the range it keeps), and for `HealsAfterRecovery` callers keep calling and a node that is
  up answers but for `MaxStrays` commands.

The app's sync is started by its start and by coming online, and by nothing else, so that a queued mutation is settled only
*if* syncs that find the device online keep being started: this is a premise of `QueueDrains` and of
`ClientsSettle`, not an assumption about the device. A feed whose next page is full, and holds nothing but unreadable events or delivered ones of which the handler
threw at one, asks for the same page for ever; `EventuallyHandled` leaves it out (`Clogged`).

A peer owes nothing: half-open WebSocket peers never answer, and clients need not come back.

**Mutants.** Each property of a passing run has a mutant: a definition `Mut_X` beside the
definition `X` it replaces, changed the way a plausible bug would (a dropped guard, a swapped
order, an off-by-one), under which TLC finds the property violated.

## 4. Proofs

A theorem holds for every value of the constants that meets the stated assumptions. In three of the
contract modules, in `RequestQueue`, `SdkClient`, `EventFeed`, `MobileOffline`, `LedgerStreams` and `WebhookDelivery`
and in the five modules of `RequestProofs` these are `ASSUME`s; in other modules that share a proof module
or a run with others they are a definition (`BridgeConstants`, `HubConstants`, `JobConstants`, `PoolConstants`,
`CacheConstants`, `RedisConstants`, `BreakerConstants`), a hypothesis of the theorem, and an `ASSUME`
of the MC module shows that the checked instance meets it. All but two are of four kinds: a
placeholder such as `None` is not a value of the stored types; a request names things of its
kind, and there is something to name (`TenantsAssumption`, `AuthAssumption`, `KeysAssumption`,
`StoreAssumption`, `HooksAssumption`, `GateAssumption`); bounds are naturals, and positive
where the code divides by them or would otherwise never act (thresholds, attempts, the rate
window, the quota's day); sets that are counted (addresses, triples, rooms, requests, calls, subscriptions, database
calls, weight tables) are finite. The first exception is a clause of `StreamAssumption` and `FeedAssumption`: events are numbered in the
order of their ledgers, as the chain orders them. The second is the last clause of `SdkAssumption`, `WritesInOrder`:
a method reads the account before it writes, writes once, polls right after a send, and does nothing
before the write that could resolve the call. The `clients` run offers one call every method of
`SdkMethods`, so TLC evaluates the clause for each of them.

**Contracts**

| Theorem | States | Inductive invariant |
|---|---|---|
| `IdentityRegistryProofs.TypeCorrect` | `[]TypeOK` | itself |
| `RegistryConsistent` | `[]RegistryAgrees` | `Consistent` |
| `PauseFreezes` | `PauseFreezesDocuments` | none needed |
| `RecoveryWaits` | `TransferNeedsFullTimelock` | `Consistent` |
| `DocumentsStayWellFormed` | `[]DocumentsWellFormed` | `TypeOK`, `FormInv` |
| `CredentialManagerProofs.TypeCorrect`, `SingleLiveCredential`, `HolderRecordsFollow`, `GraphSidesAgree`, `VerifiedStands` | `[]CredTypeOK`, `[]OneLivePerTriple`, `[]HolderRecordsAgree`, `[]DependantsMatchPrerequisites`, `[]VerifiedStandsThroughout` | `Consistent` |
| `RevocationIsFinal` | `RevokedIsFinal` | `Consistent` |
| `NoMutualDependencyArises` | `[]NoMutualDependency` | `Consistent`, `Acyclic(prereqs)` |
| `ContractProofs.GovernanceIsSound`, `ClosedVotesStand` | `[]GovernanceSound`, `DecidedIsFinal` | `GovTypeOK`, `GovernanceInv` |
| `BridgeIsSound` | `[]BridgeServesProved` | `BridgeTypeOK`, `InTime`, `CacheInv`, `RateInv` |

- *Identity registry.* `Consistent` = `TypeOK`, the exact counters, the keying, the backing and
  `PendingSinceQuiet` (a pending request's start is the history variable's value). The counters
  need cardinality lemmas (adding, removing and moving one element); the keying is needed by the
  counters, since `recover_did` moves a document between keys without touching them; the backing is
  needed because a recovery would otherwise move a document that is not there. `FormInv` says of each
  stored document what `DocumentsWellFormed` says, and that its services are a finite set:
  without that the count compared with `MAX_SERVICES` bounds nothing.
- *Credential manager, life of a credential.* `Consistent` adds two facts to the checked
  properties: `IssuedInOrder` (exactly the nonces up to the stored one exist, so an issuance never
  overwrites a credential) and `OlderRevoked` (all but the latest are revoked). `OneLivePerTriple` is
  not inductive without them: the code looks at the latest credential only, and that is sound just
  because the older ones were looked at when they were the latest and revocation is final. The
  lemma `StepKinds` sorts the entry points into five kinds by what they do to credentials,
  nonces, index and requests (nothing, a rewrite of unrevoked ones that keeps the holder, a request,
  an issuance, a move), and each conjunct is then shown against the five.
- *Credential manager, prerequisites.* `Below(G, x)` is the least set that holds `x`'s prerequisites
  and is closed under taking prerequisites. Both walks of the code are unrollings to a fixed depth; the
  lemma `WalkClosed` says that a walk that ends without complaint has met a closed set, hence all of
  `Below`. So the depth limit costs answers and never soundness: `check_no_cycle` refuses what it
  cannot see to the end (`RelinkAcyclic`), and `verify_credential` fails on it.
- *Governance.* `GovernanceInv` adds `CountedExist` (ids up to the counter hold a proposal), which
  `DecidedIsFinal` needs: a new proposal must not land on a counted id, and `initialize`, which
  resets the counter, uncounts the others. `ThresholdDivisionSafe` is shown from the types alone, but needs the
  total voting power to be positive and hence the sum over the weight table.
- *Bridge.* `RootsPublished` and `CacheProved` (a cache entry lives no longer than a published root
  that contains its document) carry the first half. The quota across a window boundary is not
  inductive by itself: `RateInv` says how many calls fall after the open window's start and that
  no stretch of one window length before it saw more than its quota, and the bound of twice the
  quota then follows by splitting a sum of calls per second at the boundary.

**Server and SDK**

| Theorem | States | Inductive invariant |
|---|---|---|
| `ClientProofs.SlotsExact` | `[]QueueSlotsExact` | `TypeOK`, `QueueInv` |
| `CallsHaveOneEffect` | `[]CallsTakeEffectOnce` | `SdkInv` |
| `FeedsDeliverOnce` | `[]FeedDeliversOnce` | `FeedInv` |
| `OfflineWritesAreKept` | `[]OfflineWritesKept` | `OfflineInv` |
| `ServerProofs.RegistryIsExact`, `SilentWhenClosing` | `[]HubRegistryExact`, `SilentOnceClosing` | `HubInv` |
| `JobsAreKept` | `[]JobsKept`, any number of workers | `KeptInv`; `OneInv` for the bound on attempts |
| `OneWorkerKeepsContract` | `JobContractKept`: `JobSpec` implements `JobContract` | `KeptInv`, `OneInv` |
| `DeliveriesAreTracked` | `[]DeliveriesTracked` | `HookInv` |
| `EventsAreSentInOrder` | `[]EventsSentInOrder` | `StreamInv` |
| `LinkProofs.TripsOnlyOnStreak` | `BreakerCountsStreak` | `BreakerInv` |
| `CacheStaleness` | `[]CacheStaleOnlyByRace` | `CacheInv` |
| `FlagBacked` | `[]RedisFlagBacked` | `LoopState`, `QueueState`, `SocketState` |
| `PoolIsSound` | `[]PoolSound` | `PoolInv` |
| `RequestProofs.StoreKeepsAllChanges` | `[]StoreKeepsChanges` | `StoreInv` |
| `KeysAreEnforced` | `[]KeysEnforced` | `KeysInv` |
| `TenantsStayInForce` | `[]TenantsInForce` | `TenantInv` |
| `TokensAreSound` | `[]TokensSound` | `AuthInv` |
| `RequestsRunOnce` | `[]RequestsAdmittedOnce` | `GateInv` |

- *Request queue.* The work is in `processQueue`, which starts as many waiting requests as slots are free in
  one step: the lemma `Cut` splits a list without repetition and counts both halves.
- *Contract clients* (`SdkInv`, one conjunct `CallInv` per call). `NumberSpent` carries "at most once": a
  transaction in the pool bears the next sequence number, one that was included bears a spent number, and its
  call reads no other, so no retry is accepted again. `WriteInStep` says that a write is still to come,
  is being polled for or has taken effect; `KnownOrBlind` that a client about to repeat a send that a
  node has taken has lost an answer, which makes the refusal of the duplicate the only false failure.
  `Counted` says that the failover has asked the servers between the index it counts from and its next one, and
  that one whose poll is under way is among them; with `AllMet` (counting modulo the number of servers meets
  them all) a call that gives up has asked every server. A success elsewhere may move the index, and
  `moved` is what is left of the claim then.
  The request queue around all of this runs a call again after an error it takes for transient: the account is then
  read anew, so what `NumberSpent` says of a run holds across runs, `asked` starts again with each, and the claim
  about servers (`spent`) is made only of a run that ended with an error the failover goes on after.
- *Event subscriptions* (`FeedInv`). `PollsSound`: before every start ledger in use, the next one and those of
  the polls under way, lie only events that were met, that is handled, cut off or unreadable; and a page in hand
  has no gap. `Remembers`: what was handled is remembered or was dropped from the bounded set, and all events
  before a handled one were met. The step that matters is `AdvanceMeets`: an answer that arrives late may move the
  start ledger back or forth, and what it moves past was in its page, lies before its own start or was cut
  off. The proof attempt showed that strict order, as first stated, is false: when a page ends inside a
  ledger, a poll of the listener that was overtaken may deliver the rest of that ledger after later events. The
  property now says so, and the run's instance holds the case.
- *Offline queue* (`OfflineInv`). An addition, a removal and a sync each read the array and write it back, and what
  they hold in between is a copy that may replace it. `ArraysInOrder`: every copy has its mutations once, and
  a sync divides what it read into what is to do and what it will write back. `UnqueuedNowhere`: a mutation that was
  never queued is in no copy. `QueuedEverywhere`: one that was is in *every* copy that may be written
  back, the array and the sync's included, unless another read-modify-write overlapped its own (`raced`). `AppliedAccounts`:
  what may be executed again has been applied as often as nobody learned of it (`blind`: a lost answer, a killed app, a
  rejected write), unless a copy put it back after it had been executed (`doubled`). A killed app or a sync whose write
  is rejected leaves the array as it was before the sync, and what the sync had done by then counts as blind.
- *Hub.* `SilentOnceClosing` needs `ClosedToAll`: after `close()` no socket is open, although an
  upgrade that is being authenticated goes on.
- *Job queue.* `Stored` says that, without faults, a job with no record is in no set and no hand: a
  worker that finds none may then abandon the job, because there is none to forget.
  With one worker `Fresh` says the same of a job not yet added, `Apart` that a job is with its
  producer, pending, with the worker or settled, and no two of these (but for a claim just begun, and for a job in
  `doubted`, whose settling command took effect and was reported failed: the worker then retries a job
  that is on a list already), and
  `Bounded` that neither the record nor what the worker is about to store exceeds the attempts. The refinement is
  shown action by action: each maps to a step of `JobContract` or leaves every job's standing as it is. The bound
  on attempts is stated for one worker because the proof attempt showed that several exceed it: each
  reads a count before the others have stored theirs.
- *Webhooks.* `TasksPlaced` says that an open delivery is in exactly one of the queue, the slots and the
  retry timers, and once; `StartPlaces` shows it of `processQueue`, which moves the front of the queue
  into the free slots in one step, from a list without repetition cut in two. `NotYetSent` is needed
  because `trigger` opens a delivery for each subscriber it read: it must not reopen a settled one. The
  order in which it pushes them is any listing of a finite set, which is why `Hooks` is finite.
- *Streams* (`StreamInv`). `PageSound`: a page in hand holds the events from the cursor on, in order, up to
  its last one; only at the limit may it lack some of that one's ledger. `PassedBy`: what lies before a cursor
  was sent or cut off. It is said of the cursor the client holds, with which a long poll that is lost
  asks again, and while the request is open of the handler's as well, which is never behind it.
- *Breaker.* `CountWithinStreak` (while `CLOSED` the count is at most the unbroken run of failures) is
  what a late success or failure of a call begun in another state must not break.
- *DID cache.* `CarrierKnown`: a reader about to store an outdated document has its DID among those
  changed since the last invalidation or passed by one. The entry itself is outdated only after that.
- *Redis client.* The property is inductive together with the types; `LoopState`, `QueueState` and
  `SocketState` split it by the variables an action touches, and the lemmas about the connect
  loop's two ends serve every path that starts one.
- *Database pool.* `AnsweredIsDone` (a call that has answered takes no further step) and `OwnStatements`
  (only a transaction is at `BEGIN`, `COMMIT` or `ROLLBACK`) make the accounting of clients and of
  effects inductive; each action moves one call, so clients are counted by adding and removing one element.
- *The four stores.* Each keeps a map in memory, a file replaced by a whole snapshot of it, and requests
  between the two. The properties speak of memory or of the file, and neither half is inductive: what a
  request will rename over the file, or a load set over the memory, is a copy taken at another time. The
  invariants therefore say of *every* copy which changes it contains, in terms of the order in
  which copies were taken, for as long as the overlaps named by the history variables have not happened.
  - *Credential store* (`StoreInv`). `LockInOrder`: the lock chain holds the requests under way once
    each, and only its head works. `SnapshotsSound`: until a write crossed a snapshot, every snapshot in
    hand and the cache tell the same changes as the file, except the cache between a rename and its
    invalidation. `ChangesInFile`: an applied change is in the file, and a conditional
    update's version is behind the file's, which is why no version is updated twice.
  - *API keys* (`KeysInv`). `Current`: a snapshot with the stamp of the last change is the memory.
    `InSnapshots` and `InFile`: a change is in every snapshot of its stamp or a later one, and
    once it is reported in the file and in all that may still be renamed over it. A read that fails leaves
    an empty map that counts as loaded (`blind`): until something is renamed over the file, the file and those still
    loading have the change, and afterwards (`overwritten`) nothing is claimed. A key is claimed to work
    until it expires.
  - *Tenants* (`TenantInv`). `Booting` says what memory and file hold while `init()` runs, when a
    file that is there, one that is not and one that cannot be read take different paths; `DefaultKept` that the seeded
    tenant is in each copy, so that an empty map is never saved. `HoldersKept` says of each copy that two tenants
    that asked for one subdomain share it only as the id of one of them (`OneHolder`): an update is let pass
    when it asks for what the tenant has already. `OneWriter` and `ChangesInForce`:
    a confirmed change is in each copy that may still become the file, unless the file was read with an error (which
    counts among the faults), torn or written by two at once.
  - *OAuth* (`AuthInv`). `MapsInOrder` is the core: a later map keeps what exists in an earlier one
    and, unless a late load replaced records, what is revoked there. `BlindApart` says the opposite of a process
    whose read failed: it has nothing of what the file has, so that it can neither rotate nor revoke it. `PairsKept` and
    `RevocationsKept` follow a pair and a revocation from memory to snapshot to file, and `RotatedOnce`
    says that of the requests with one refresh token at most one is being written or has been answered; `CodesSpent` that a redeemed
    code cannot be written again; `TokensGranted` that no map holds a token nobody was granted, which
    `Presentable` turns into "a token presented is one that was issued". Scopes are part of the types:
    a record's scope is within its client's and the approver's.
- *The gate* (`GateInv`). `EntriesSound`: a fingerprint has one entry, which names a request that runs
  and the end of its time. `EntryInForce` is its converse and what makes the property inductive: a request
  that runs has its entry until that time, unless it was evicted or a request of its fingerprint threw; so
  one that becomes an owner has no unexcused equal. `prune` and the catch block delete from the
  middle of the map: `FilteredIs` gives the places of what is left, increasing and complete, from which
  `PrunedIs` shows that prune loses only what has expired and what `Evicted` names. `QuotaKept` needs
  that no use lies after the counter's day, because the counter starts again at zero. The tenant's limit is checked against a cached copy: `CopiesTrue` says that, as long as no read of the file
  overlapped a write of it (`overlap`), the copy and every read under way agree with the store, and `TenantKept` that
  until then, and until two requests passed the check together, at most one lies between check and write, and then
  below the limit.

**Induction over data.** The library's induction theorems take an operator as a parameter, which the
installed provers cannot instantiate. Where a result needs induction (sums in `ContractProofs`, walks of any
depth in `CredentialManagerProofs`) it is done with a least counterexample: the set of
failing arguments is nonempty, a well-founded order gives a minimal one, and the step
contradicts it.

**Only model-checked.**

- *All liveness* (`LinksSettle`, `RequestsSettle`, `HubShutsDown` apart from
  `SilentOnceClosing`, `EventsDelivered`, `ClientsSettle`): fairness and `ENABLED` are out of the
  prover's reach.
- `PairKeepsJobs` is `JobsKept` of a second instance of `JobQueue`, with two workers: `JobsAreKept` is
  proved for any number of them, and the run shows that the hypotheses are met.
- *Sequences that are filtered or sorted*: `EventLogKept`, `MessagesKept`, `IndexKept`. What these modules keep in order
  is cut down with `SelectSeq` or sorted, and what these return can be shown only by induction over
  the sequence through an operator parameter. `RequestGate`, `LedgerStreams`, `EventFeed` and
  `MobileOffline` use `Selections` instead, whose agreement with `SelectSeq` TLC evaluates (`FilteredIsFilter` of `MCServerRequests`).

## 5. Observations

**Where the repository says otherwise, shown by a run** (section 3): a recovery by a replaced address
(`identity_replaced_recovery`), replies that shift (`redis_replies`), a lost update inside the lock
(`store_lost_update`), a cached document that outlives its invalidation (`did_cache_outlived`), a refresh
token used twice (`oauth_refresh_reused`), events lost between two polls (`long_poll_loss`) and the oldest ledger
skipped (`analytics_oldest_skipped`). The passing properties about the same code say when this happens and that
it happens no other way: each names the race or the cut page it excuses.

**Where the repository says otherwise, without a run.** What the code does here is in the models, unless said
otherwise, and the passing properties allow it:

- *Prerequisites.* `lib.rs:2964-2965` of the credential manager says that prerequisites that form a cycle back
  to the credential are rejected; a credential may name itself. `NoMutualDependency` speaks of two credentials.
- *Pause.* `docs/contract-formal-verification.md:112` says that write operations fail while the credential manager is
  paused, and names issuing and revoking; `amend_credential` does not look at the flag. Only
  `expire_credential` increments the revocation counter.
- *Tenant limit.* `app.js:743-744` calls the tenant's budget its own; `readCredentials` ignores the tenant
  id, so that the credentials of all tenants count. The gate's store has other tenants' credentials for that reason.
- *Streams.* `long-poll.js:38-40` also promises that nothing is received twice: an event without a ledger counts as
  ledger 0 (`sse.js:44,52`), lies before every cursor and is sent again with each page that has it
  (`SentInOrderOnce` is about events with a ledger). `events.ts:147` promises the SDK's handler each new
  matching event; a cut page loses the rest of its ledger there too (`SkippedOnlyAtCut`), and a full page on which the
  handler threw is asked for again for ever (`Clogged`).
- *Failover.* `base-client.ts:298-299` says that a call goes to the next server on 5xx and connection errors; the
  code goes by a list of strings, so that an `HTTP 500` or a socket that hung up ends the failover
  at the first server.
- *Request queue.* `request-queue.ts:24-25` and `78` say that `dispose` cancels all pending requests;
  it does not stop retry timers, and a request in its delay is sent afterwards.
- *Message broker.* `messaging/index.js:18` promises retries. `next()` reads the clock and `#pump` reads it again
  (`60`, `208`): a message that comes due in between is neither taken nor scheduled, and waits for
  the next event of its queue; so does one whose `publish` threw in the append to the log. `NothingStranded`
  excuses exactly these two.
- *Mobile.* `docs/mobile.md:305` promises retries with exponential back-off; nothing in `offline.ts` has a timer, and
  a failed mutation waits for the next time the device comes online. `QueueDrains` has this as its premise.
- *Deduplication.* A request whose body is over the limit passes `middleware/dedupe.js` without an entry, so that
  its duplicates run beside it. The model's requests have bodies that fit.
- *Files that cannot be read.* API keys, tenants, OAuth tokens and the analytics store take a read error for an empty
  file and write the empty map over it with the next change. No line says that they would not; the
  properties excuse it by name (`overwritten`, the tenants' faults, `authBlind`, and `lost` of the
  analytics store).

**Not stated as properties**, because the repository says nothing to the contrary or a property would
restate one line:

- *Contracts.* An admin proposal survives a one-step `transfer_admin`. A pending recovery whose target
  creates a DID of its own can neither finish nor be restarted. Recovery keeps the document's id,
  so that the old controller's next DID has the same id. `propose` works before `initialize`, which
  resets the id counter. The status `Approved` stands for the recipient's acceptance and for the
  issuer's confirmation, so that confirming twice completes a transfer.
- *Job queue.* It calls `redisClient.command(name, args)`, while `RedisClient.command` takes one
  array; nothing in the server calls `startProcessing`. The score's time is a millisecond clock
  larger than its modulus, so a delay decodes as past and has no effect. Of two workers the slower
  can return a settled job to processing.
- *Database pool.* `query()` gives its client back only when it fails: after as many successful
  queries as the pool has clients, callers time out. `ClientsAccountedFor` states the leak exactly.
- *Tenancy.* `tenant-routes.js` calls `updateLimits` and `updateCustomization`, which the registry
  does not define; limits are set only through the spread of `updateTenant`.
- *Events.* Two `EventStore` instances write one file (`app.js`, `storage.js`) with a lock each,
  and `_sequence` restarts at zero with the process, so numbers repeat across restarts.
- *SDK events.* The listener polls on an interval whether or not the last poll has
  ended, so that the rest of a cut ledger may reach the handler after later events (`InOrderOnce`).
- *Analytics.* The cursor of a contract that is quiet ages out, since only an item moves it. A range error that names no
  range ends the tick, and with `START_LEDGER` set every later tick as well, before transactions
  are polled. `stop()` does not stop a tick that is running, which arms the timer again. The lookup
  of an updated DID is not repeated when it fails, and the list of them is not saved.
- *OAuth.* Of two persists the older may rename last and bring a rotated or revoked token back, as a late load does.
  A second revocation reports success while the first is still being written.

## 6. Not modelled

- *Remaining contracts*: administration and escrow of the credential manager, revocation registry,
  reputation, schema registry and the extensions: mostly single calls over keyed storage, without
  a protocol that spans calls of several parties; the multisig actions are the exception.
- *Not compiled*: nine files of `credential-manager/src` that `lib.rs` does not declare;
  `identity-registry/src/did_resolver.rs`, whose `DidResolver` no entry point reaches. Both crates
  also name modules that are not in the repository.
- *No protocol to check*: user interfaces (the largest part of the repository's lines), command
  line, routing, validation, formatting, metrics, generated code, deployment files.
- *Cryptography and request protection*: hashing and signatures are assumed ideal;
  `selective-disclosure`, request signing and nonces are mostly that. `request-deduplication.js` is
  imported by nothing; the deduplication in use, `middleware/dedupe.js`, is modelled.
- *Left out of modelled components*: read replicas of the pool, snapshots and live subscribers of the
  event store, client and address rate limits, the RabbitMQ adapter, the expiry watermark and mails,
  `clearQueue` and the response cache of the app. `PROJECT.json` says so component by component.
- *Ledger resources*: storage TTL and archival, fees, and transaction size.

## 7. Next

The credential manager's multisig actions and escrow, the revocation registry with the set of revoked
indexes as its abstract specification, and a composition of `IdentityRegistry` with
`CredentialManager`.
