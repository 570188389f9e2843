# Verification of agent-commerce

TLA+ models of the parts of agent-commerce that decide who pays, who is served
and what the ledger says about it, with TLC runs on small instances and TLAPS
proofs for every size. The implementation is `src/src/**`; paths below are
relative to `src/src/`.

## The system

agent-commerce is a gateway that sells HTTP resources to agents. A request
arrives over HTTP, MCP, A2A or ACP, is answered with a payment challenge, and
comes back with a signed payment authorization (x402 or MPP) and, where the
resource asks for it, an AP2 mandate. The gateway verifies both, reserves both,
settles through a facilitator that submits the transfer to a chain, calls the
merchant's backend and returns its response. Operators repair what crashes and
lost answers leave behind with `agent-commerce reconcile`.

| component | state it keeps | operations | talks to |
|---|---|---|---|
| execution pipeline (`core/execution/pipeline/`) | one running handler per request | execute, admitPayment, authorizeAndReserve, settle, abandonSettlement, saveReceipt | stores, providers, backend |
| payment attempts (`storage/receipts/store.ts`) | one row per replay key, history of reclaimed rows | reserve (with reclaim), update, resolve | called by pipeline and resolvers |
| authorization holds (`storage/receipts/holds.ts`) | one row per mandate reference | reserve, transition, list orphans | called by the AP2 provider, the orphan scan |
| AP2 provider (`authorization/ap2/provider.ts`) | none of its own | verifyAndReserve, consume, release, markUncertain | holds |
| transaction journal (`storage/receipts/store.ts`, `core/domain/transaction.ts`) | facts of each purchase, cached state | recordStep, listTransactions | written by pipeline and resolvers, read by operators |
| reconciliation (`core/execution/reconcile.ts`) | the snapshot a run works on | runReconcile, resolveManually, alignPendingHolds, releaseOrphanHolds | stores, providers, chain evidence |
| payment providers (`payments/x402/provider`, `payments/mpp`) | /supported cache, fee payers, quote cache, health cache | createRequirement, verify, settle, reconcile, health | facilitator, chain |
| AP2 verification (`authorization/ap2/`) | two trust lists | signature, claims, checkout document, binding | called by the AP2 provider |
| backend calls (`core/execution/backend-*.ts`, `validation.ts`, `config/schema`) | none | config load, input validation, shape check, call | merchant's backend |
| ACP idempotency (`protocols/acp/idempotency`, `storage/receipts/idempotency.ts`) | claims by key | claim, update, recover | ACP adapter |
| A2A payment tasks (`protocols/a2a/`) | pending tasks with expiry and cap | put, get, take | A2A adapter, pipeline |
| upgrade (`storage/receipts/legacy-import.ts`, `schema.ts`, `cli/commands/backup.ts`, `doctor/`) | import markers, lock on the old file | migrate, import, back up, foretell a start | holds, the 2.5 file store |
| MCP adapter (`protocols/mcp/`) | permits and queue of tool calls | start, handleHttp, handleToolCall, stop | mount, pipeline |
| surfaces (`gateway/routes.ts`, `protocols/*`, `core/domain/wire.ts`) | none | read a proof, render an outcome | clients, pipeline |
| gateway (`gateway/`) | lifecycle, mount counters, readiness cache | start, listen, /ready, drain, stop | everything |

What is hard here:

- *Interleavings.* Every `await` of a handler lets other requests, a reconcile
  process, the facilitator and the chain act. One authorization may be presented
  by several requests and on two rails; several mandates may bind one checkout.
- *Lost answers.* A facilitator that does not answer may or may not have moved
  money, and the transfer may land later, until the authorization expires.
- *Crashes and failed writes.* The two reservations, the settlement, the hold,
  the attempt and the journal are separate writes. Failures of the later ones are
  logged and the flow goes on.
- *Stale reads.* Fee payers, quotes, health and journal states are cached; the
  backend request is checked before the payment and built again after it.
- *Limits.* Caps on pending tasks, tool calls, mount requests and quotes are met
  while clients leave.
- *Upgrades.* Holds move from a file to the database while the old gateway may
  still run.
- *Late writes.* The pipeline updates an attempt by replay key, not by id, and
  resolvers act on snapshots.

What makes it correct: an authorization is charged at most once and a checkout
at most once; only a paid request is served; the ledger never says `settled`
without a transfer nor `rejected` where one happened or may happen; a buyer is
invited to pay again only when the earlier authorization is closed; a checkout
key makes the merchant act at most once and has one answer; a waiting task is
paid once and stays payable until it expires; what was verified is what the offer,
the mandate and the configuration say; what was paid for can be sent; an
upgrade forgets no payment; a client is told of a settlement and is not invited
to pay over an open one; nothing stays undecided for good, except what chain
evidence cannot prove, and that until the operator resolves it.

## Modules

| module | models |
|---|---|
| `Requests` | request ids |
| `HoldStore` | the hold table and its two transactions |
| `AttemptStore` | the attempt tables and their three transactions |
| `TransactionState` | the derived state of a journaled purchase |
| `Pipeline` | the handler of a paid purchase, one action per await, with the chain, the facilitator, expiry and crashes; composes the two stores |
| `Reconcile` | resolvers beside the pipeline; the system's properties |
| `IdealPurchase` | the abstract promise that `Reconcile` implements |
| `IdealLedger` | the abstract life of a payment attempt that `Reconcile` and `Surfaces` implement |
| `StoreProofs` | theorems about the two stores with arbitrary callers |
| `ReconcileProofs` | theorems about pipeline, resolvers and chain together; extends `StoreProofs` |
| `AcpIdempotency` | the handler of an ACP checkout POST over the claim table, with the merchant, stops, crashes and restarts |
| `AcpIdempotencyProofs` | theorems about it |
| `A2aTasks` | A2A messages and the purchases that wait for a payment, in the database or in memory |
| `A2aProofs` | theorems about it |
| `TransactionJournal` | the cached state of journal rows and the operator's paged lists |
| `X402Settlement` | one settlement: facilitator, chain with reorganisations and finality, classification of answers |
| `ChainEvidence` | a reconcile run's reads of that chain; extends `X402Settlement` |
| `EvidenceProofs` | theorems about the verdicts and the reads |
| `X402Verify` | challenges and proofs of x402 and MPP, `/supported` and fee payers |
| `QuoteCache` | signed price quotes under concurrent challenges |
| `Ap2Mandate` | verification of a mandate against a purchase |
| `BackendCall` | from configuration and input to the backend request, before and after the payment |
| `PayerProofs` | theorems about the four modules above |
| `LegacyImport` | the upgrade of the holds from 2.5, with doctor, backup and restore; instantiates `HoldStore` on the database |
| `GatewayProcess` | start, the mount's cap, the MCP semaphore, disconnects, shutdown |
| `Surfaces` | what HTTP, MCP and A2A clients are told, and what an automatic client does |
| `Readiness` | `GET /ready` over two caches |
| `GatewayProofs` | theorems about the three modules above |
| `ReceiptProofs` | theorems about `LegacyImport` and `TransactionJournal` |
| `MCReconcile`, `MCA2aTasks`, `MCChainEvidence` | instances for TLC |
| `MCStores` | the two ledgers and the upgrade; `MCPayerChecks`: proofs, quotes, mandates, backend requests; `MCGateway`: the process and its ACP checkout routes; `MCAnswers`: surfaces, readiness, journal lists. The parts of each share no state, and a behaviour exercises one of them |

State and code:

- `holds[m]` is the row of `authorization_holds` with reference `m`; `BindingOf`
  is `binding_reference`, which the mandate determines.
- `attempts[k]` is the row of `payment_attempts` with replay key `k`, `history`
  is `payment_attempt_history`. A request reserves at most once, so its id stands
  for its attempt's id. The `resolution` field stands for `resolution_json`.
- `journal[r]` is the `transactions` row: the journaled hold, what is known of
  the backend call, the completion mark. The payment status is joined from the
  attempt (`StatusOf`), as `TRANSACTION_SELECT` does.
- `pc[r]`, `verdict[r]`, `outcome[r]` are the handler's position, the settlement's
  result and what the buyer is told. `challenge` stands for every answer that
  carries a fresh challenge for a presented authorization, `conflict` for the 409
  without one.
- `chain[k]` is external: unused, `open` (submitted by a request and able to
  land), or `landed`. `expired` holds the authorizations past their last valid
  moment.
- `resolver[x]` is what one reconcile run or manual resolution is doing and the
  snapshot it does it on.

Actions of `Pipeline` follow the handler: `Refuse`, `Verify`, `VerifyRefused`
(admission), `Authorize`, `AuthorizeRefused` (mandate), `Reserve`,
`ReserveRefused`, `ReleaseUnused` (attempt), `Settle`, `AnswerSettled`,
`AnswerRefused`, `AnswerLost` (facilitator), `FinalizeHold`, `JournalHold`,
`Update` (verdict), `Dispatch`, `BackendOk`, `BackendFailed` (backend),
`SaveReceipt`, `Complete`, and `Crash`, `Land`, `Expire` for the environment.
Actions of `Reconcile`: `Collect`, `Ask`, `Resolve` (a run's candidates),
`ManualVerdict`, `Reread` (manual resolution), `PendingHold`, `Align`,
`AlignJournal` (hold alignment), `ListOrphan`, `ReleaseOrphan`, `ResolverCrash`.

`AcpIdempotency` stands alone: a checkout resource is free, so its run through the
pipeline touches none of the state above and is reduced to its outcome. `claims`
is the `idempotency_keys` table by scope; the fingerprint of a row is that of the
request in `by`, the stored response is named by the request in `answer`, `due`
says that `expires_at` has passed. `calls` and `acted` are the merchant's side: a
call that the gateway gave up on stays open and may be carried out later, also
after a crash. `retired` remembers whose answers were swept. Actions follow
`handleHttp` (`PassGuards`, `Unavailable`), `dispatch` (`Claim`, `ClaimFails`,
`Record`, `RecordFails`, `SendResponse`), `runCheckout` and the backend call
(`NotExecuted`, `Execute`, `FailsBeforeBackend`, `CallMerchant`, `Delivers`,
`Refuses`, `RateLimits`, `GivesUp`), and the adapter's life (`Stop`, `Crash`,
`Start` with its recovery).

The remaining modules, state and actions:

- `A2aTasks`: `pc[m]` is a message's handler and `asked[m]` what it brought; `rows`
  are those of `pending_tasks` or of the map, by their expiry; `mandates` are kept in
  the process. A follow-up looks a task up (`LookUp`), is checked, takes it (`Take`)
  and pays; lookup and take are separate awaits. A database answers each before the
  mandates are purged, on a later clock (`Found`, `Claim`); the map is read at once.
- `TransactionJournal`: `journal[i]` is the row with `seq` *i*, joined with its
  attempt; `live` names each key's current row; `walk` is the operator's walk.
  Writes refresh `cached`; `Tick` does not.
- `X402Settlement` and `ChainEvidence`: `times` is the chain, `use` what became of
  the authorization and in which block, `tx` the facilitator's transaction and `txAt`
  its block; a reorganisation makes the transactions of the blocks it drops pending
  again, failed ones too. `undone` is history: a refused payment whose failed
  transaction left the chain in this way. `attempt` is the provider's verdict,
  `reader` a reconcile run, one action per RPC call; `firstBlockAt` reads one block of
  its binary search per action. The ranges of one log search are one action, since
  below the finalized block the chain does not change.
- `X402Verify`: `req[r]` is a request that builds its requirement, waits for
  `/supported`, chooses an offer by the proof, checks it, and asks the facilitator.
  A proof is signed as offered or altered in one respect.
- `QuoteCache`: `asker[a]` collects one quote per EVM offer; signing is an await.
- `Ap2Mandate`: `call` goes through signature, claims, checkout document and
  binding, and the clock moves between them; `checked` is the instant of the claims
  step. A presentation is genuine or altered in one respect.
- `BackendCall`: `resource` is loaded or refused, `visit` is the request on its way
  through validation, shape check, payment, call and fetch, `sent` is what the
  backend receives.
- `LegacyImport`: `db` and `file` are the hold tables of the two versions, `marker`
  the row of `legacy_imports`, `lock` the file held in an exclusive transaction.
  `late` is history: the purchases that 2.5 holds in a file imported before.
- `GatewayProcess`: `phase` follows `runGateway`; `link` and `stage` are a request's
  connection and handler, which part when the client leaves; `permits` and
  `waiters` are the MCP adapter's semaphore.
- `Surfaces`: `row` is the attempt of each proof, `way` the surface, rail and flow,
  and the client keeps what it was shown. A request that the client no longer waits
  for goes on: `late` holds the proofs with one that has yet to be admitted, and
  `overtaken` is history, the proofs of which one was left when a challenge was shown.
- `Readiness`: the gateway's cached evaluation over the provider's cached probe,
  each with one shared run in flight. `ProbeMax` is the longest a whole probe takes.

Operators named as mutants in a comment are faulty variants of the definition
that follows them. No specification uses them; replacing the definition by its
mutant must make TLC report the property named in `PROJECT.json`.

### Assumptions

- A facilitator's refusal is truthful: x402 `settle` returns `rejected` only for
  reasons that prove that nothing moved; every other failure throws and is
  modelled as a lost answer.
- Authorizations reach the chain only through this gateway. A buyer who submits
  one elsewhere is outside the model.
- An operator's manual verdict agrees with the chain. The code checks the expiry
  before it accepts `rejected`; it cannot check `settled`.
- `Proves` says for each authorization which verdicts chain evidence can still reach:
  both on the EVM and NEAR, `settled` alone on Solana, and less where a record is
  gone, used by something else or out of the search's reach. What it cannot reach a
  run reports as unknown for good.
- The orphan scan's age threshold does its job: a request does not stay between
  its two reservations for that long (15 minutes by default). A run with
  `--min-age 0` beside live traffic is outside this assumption. Candidates of the
  payment scan need no such assumption: the model lets a resolver pick a reserved
  attempt while its request runs.
- A verification that finds no authorization in the proof is answered like a
  request without payment. A provider that throws an untyped error from `verify`
  would be too; both providers wrap the facilitator's failures.
- ACP: one gateway process per database, a merchant that sends 429 only before
  side effects, and, where `merchantIdempotent` is set, a merchant that carries out
  one operation per derived key. All three are stated in `docs/protocols/acp.md`.
  The gateway drains requests before it stops the adapter; the model also stops it
  under running handlers, as an embedder may.
- x402: a call to `/supported` ends before the cached list is stale, and a fee
  payer that the facilitator dropped is not taken up again. A probe for readiness
  reads an offer's calls at one instant. Its calls are finite in number, made one
  after the other for an offer, and bounded by `HEALTH_TIMEOUT_MS` (4 s) each, the
  one to `/supported` by `SUPPORTED_TIMEOUT_MS` (10 s), so that it ends within
  `ProbeMax`, which stands for their sum.
- Upgrade (`docs/storage.md`): while a 2.5 gateway runs, the deprecated key names
  its file. Both gateways may run, and a start may fail after its import. A file is
  imported once: what 2.5 takes into it afterwards, when the new gateway's lock is
  gone (a failed start, a stop, a crash), the new one never sees, and
  `CheckoutPaidOnceAcrossVersions` excepts these purchases (`late`) and no others.
  After the operator has accepted the loss of old records only starts are followed.
- `SettlementIsTold` and `NoChallengeWhileOpen` treat a settled attempt as
  finished: a retry that comes while its backend call still runs is answered with
  a fresh challenge, as `docs/security.md` documents.
- Left out because no property here reads it: the `settling` step, references,
  amounts and reasons, the legacy status `failed`, free resources, events.
  `Pipeline` leaves out the cached state column, which is `TransactionJournal`'s.

## Runs

Requests and handlers finish, so no run checks for deadlock; `QueuedCallsRun`,
`EveryClaimIsDecided`, `HandlersGoOn` and the `decided` run check that nothing is left
waiting. Model values are symmetric in the safety runs where the instance treats them
alike.

| run | instance | checks |
|---|---|---|
| `stores` | holds: 3 requests, 3 mandates, 2 checkouts; attempts: 3 requests, 2 keys; upgrade: 2 files, 2 purchases | `OneLiveHoldPerBinding`, `HoldHandover`, `ResolutionIsFinal`, `CheckoutPaidOnceAcrossVersions`, `DoctorForetellsStart` |
| `replay` | 2 requests on 1 key, both rails, both orders, 1 resolver, 1 fault | `SettledRowsLanded`, `RejectedRowsMovedNothing`, `RetryInvitedOnlyWhenClosed`, `RefinesIdeal` |
| `mandate` | 2 requests, 2 keys, 2 mandates of 1 checkout, 1 resolver, 1 fault | `PaidMandateIsKept`, `ConsumedMandateIsPaid`, `RefinesIdeal` |
| `decided` | 1 request, 2 keys of which one can be proved and one cannot, 1 resolver, 2 faults, fairness | `EveryAttemptIsDecided`, `EveryHoldIsDecided` |
| `a2a` | 3 messages, cap of 1 task, 2 mandates, 1 fault | `OnePaymentPerTask`, `ContinuationBuysNothingNew`, `MandateIsThePurchases`, `HandlersGoOn`, `LiveTaskIsKept` |
| `x402` | every family, 4 blocks, log ranges of 1 and windows of 2 blocks | `VerdictIsSound`, `EvidenceIsSound`, `SearchFindsTheTransfer` |
| `proofs` | 2 requests and 2 fee payers over 6 lists of offers; 2 challenges at a cache limit of 2; 3 wallet keys, 1 merchant; all resources over 3 input names | `VerifiedPaysTheOffer`, `RetryIsRecognized`, `FeePayerIsStable`, `QuotesCoverThePayment`, `MandateCoversThePurchase`, `PaidRequestIsSendable` |
| `gateway` | 4 calls of 3 connections at caps of 1; 2 checkouts on 1 key, 2 bodies, 2 faults; fairness | `SlotsAreAccounted`, `QueuedCallsRun`, `OneEffectPerKey`, `OneAnswerPerKey`, `InFlightHasHandler`, `UnresolvedIsKept`, `EveryClaimIsDecided` |
| `answers` | 2 proofs on each surface; 2 offers, both windows of 2, 8 time units; 2 journal rows of 1 key, pages of 1, 3 filters | `NoChallengeWhileOpen`, `SettlementIsTold`, `AnswersAreRecent`, `CacheHidesNothing`, `WalkMissesNothing` |
| `withheld` | 1 request, 1 resolver | `PaidUndeliveredIsVisible`, violated |
| `drain` | as `gateway` | `InFlightFinishFirst`, violated |
| `window` | as `answers`, the provider's window at 5 and the gateway's at 2 | `OutageShowsInOneWindow`, violated |

What the runs show. The ledgers hand a checkout from mandate to mandate only after
a release, whichever version's table holds it, and a resolution is final. The
system around them keeps the ledger true to the chain and implements the ideal
purchase. Every undecided row is decided, by runs alone where chain evidence can
decide it and by the operator where it cannot. On the way into the pipeline, a proof
that verifies was signed as offered, a mandate that verifies covers the purchase
on every coordinate either side names and was current when its claims were checked,
a quote lasts for the payment it prices, and a request that is paid for can be
built, save for the two URL shapes below. On the way out, no surface invites a
client to pay over an open attempt, and each tells it of a settlement. Permits and
places are never lost, and a queued call gets its turn. Readiness is never older
than the two caches and the probes they hold together.

Three exceptions are part of what is stated, because the code has them. A waiting A2A
task that is taken at its last moment may find its mandate purged when the database
has answered, and is executed without (`MandateIsThePurchases`). A payment refused
because its named transaction failed on chain may still be charged when that block is
dropped and the transaction lands again (`VerdictIsSound`, `undone`): the verdict is
drawn from the facilitator's receipt, not from a finalized block. And a challenge may
be shown while a request that the client has abandoned is on its way to its
reservation, where no lookup can see it (`NoChallengeWhileOpen`, `overtaken`).

Bounds. `MaxFaults` bounds crashes and failed writes in one behaviour, `MaxTime`
and the horizons the clock. Two requests on a key are enough for a replay and a
reclaim; one key that can be proved and one that cannot show who decides each; two
mandates of one checkout are the smallest conflict of bindings; a first run and a
retry or a reuse are the conflicts of a key; two faults are a failed write and the
crash that recovers from it. Three messages are a purchase
and two follow-ups that race for it, or two purchases at the cap and a follow-up.
Two journal rows at one per page are the smallest walk in which a page can lose a
row; both belong to one key, so that the reclaimed attempt is among them. Four
blocks hold a transfer before, in and after the log window and below and above the
finalized block, with every range boundary between them. A cache of two quotes is
full with one challenge for two offers, so that another evicts it. Caps of one
make every second call wait and every third one be refused. The clock of the
readiness part runs past the sum that it is compared with. The distinct states are 33
thousand in `decided`, 0.2 million in `gateway`, 1.0 million in `a2a`, 1.1 million in
`proofs`, 1.3 million in `x402` and 2.1 million in `answers`. The safety properties
are proved without these bounds (below), which also covers three requests on a key,
several resolvers, both settings of `merchantIdempotent`, larger caches, caps and
pages, and longer chains.

`withheld` is a disagreement between the code and `docs/security.md`. Under
deferred settlement the backend answered 2xx, the settlement gave no verdict, the
response was withheld, and the handler's `finally` journaled `completed`. When
reconciliation proves the transfer, `transactionState` calls the purchase
`delivered`. No receipt was written, so the purchase is neither in the
undelivered receipts nor in the unresolved transactions. `UndeliveredIsFound` proves
that there is no other such case.

`drain` is a disagreement with `docs/security.md` and `docs/storage.md`, which
promise that in-flight requests finish before the adapters stop. `gateway.close`
waits for connections. A call whose client has left has none, and goes on, since a
call that may have settled must finish; the store is closed and the process exits
under it. The attempt stays `reserved` and `reconcile` decides it, as after a crash.
`DrainTheorem` proves that every call whose client stays does finish first.

`window` is a disagreement with the comment of `READINESS_TTL_MS`
(`gateway/readiness.ts:200`), which says that an outage shows within one window of
2 s. An evaluation made after the outage takes the provider's health from that
provider's own cache of 5 s and keeps the result for its own window. `ReadinessTheorem`
proves the bound that does hold: both windows and the probes they hold.

Smaller disagreements that were met and have no run of their own:

- With several offers, a Solana proof whose fee payer the facilitator has dropped
  selects no offer and is refused as `invalid_payment_requirements`, without a
  replay key (`payments/x402/provider/verify.ts:52-55`), where
  `docs/payment-flow.md:122` says `PAYMENT_REPLAYED`. `RetryIsRecognized` exempts
  this case.
- `payments/x402/provider/settle.ts:169` takes the family's reason for a
  transaction that failed on chain as proof that the named transaction moved nothing.
  The receipt it rests on need not be final: see `undone` above.
- `docs/configuration.md:150-154` names two checks of a backend URL that run only
  at the call. A URL with user information is a third: it loads, and `fetch`
  refuses it after the payment. `PaidRequestIsSendable` exempts it.
- `core/execution/backend-request.ts:93` says that building throws only
  `INPUT_INVALID`; a path value with a lone surrogate throws a `URIError`, before
  the payment.

Fairness (`decided`). Node's event loop runs every handler that is not cut off
(weak fairness of a request's steps); clocks advance (weak fairness of `Expire`);
a resolver that has started a step finishes it; and `reconcile` is run again and
again and visits every candidate, pending hold and orphan, which is strong
fairness of picking each of them. What evidence cannot prove the operator resolves
sooner or later, as `docs/payment-flow.md` tells him to (`NeedsOperator`). A manual
verdict where evidence would do is never assumed, nor that a transfer lands.

Fairness (`gateway`, checkouts). Handlers run on: a merchant call ends at the latest in
the backend timeout. A process that went down is started again. That the merchant
answers or acts, that rows expire and that a running gateway is restarted is never
assumed; so a claim whose outcome could not be written may stay in flight, which
the property allows.

Fairness (`gateway`, tool calls). Only the steps of a started tool call are fair: a
pipeline run ends, because every call it makes has a timeout. Nothing is assumed of
clients, who may stall a body or never leave, nor of signals. Each of the two kinds of
fairness holds in the behaviours of its own part.

## Proofs

Every safety property that a run checks, invariant or step property, and the
refinement of the ideal purchase, is also a theorem for every value of the
constants, save `HandlersGoOn`, which is about `ENABLED`.

| module | theorem | states |
|---|---|---|
| `StoreProofs` | `HoldTypeCorrect`, `OneCheckoutOneHold`, `HoldsAreHandedOver` | the hold table, whatever its callers do |
| | `AttemptTypeCorrect`, `OnlyRejectedSuperseded`, `OneRowForEachAttempt`, `ResolutionsAreFinal` | the attempt tables, whatever their callers do |
| `ReconcileProofs` | `TypeCorrect` | `TypeOK` of the system |
| | `SettledIsPaid`, `RejectedIsFree` | the ledger agrees with the chain |
| | `PaidMandatesAreKept`, `ConsumedIsPaid` | mandates stay with what they pay for |
| | `RetriesAreSafe` | the action property on what buyers are told |
| | `ImplementsIdeal` | `Spec => RefinesIdeal` |
| | `ImplementsLedger`, `SettledIsFinal` | `Spec => Ledger!LedgerSpec`: an attempt's status moves along the ledger's arrows; a settled row never changes |
| | `UndeliveredIsFound` | what the operator finds, with the exception of `withheld` |
| | `UsesHoldStore`, `UsesAttemptStore`, `SystemResolutionsAreFinal` | the system calls the stores only as their modules allow, so what is proved of the stores holds in it |
| `AcpIdempotencyProofs` | `AcpInvariance`, `AcpTypeCorrect` | the invariant of the claims, and their types |
| | `OneEffect`, `OneAnswer` | one merchant operation and one answer per key until it expires |
| | `InFlightIsHandled`, `UnresolvedStays` | keys in flight have a handler; unresolved keys stay |
| `ReceiptProofs` | `PaidOnceTheorem`, `DoctorTheorem` | no checkout is paid under both versions; doctor and the start agree |
| | `CacheTheorem`, `WalkTheorem` | the lists hide and skip nothing |
| `A2aProofs` | `OneTakerTheorem`, `ContinuationTheorem`, `MandateTheorem`, `LiveTaskTheorem` | a waiting purchase is taken once, under its own mandate, and stays until then |
| | `AdvanceTheorem`, `QuietTheorem` | handlers only go forward and answer once; none runs in a process that is down |
| `EvidenceProofs` | `VerdictTheorem`, `EvidenceTheorem`, `SearchTheorem` | verdicts and evidence agree with the chain, now and later |
| `PayerProofs` | `VerifiedTheorem`, `RetryTheorem`, `FeePayerTheorem` | proofs against offers, replays and rotations |
| | `QuoteTheorem`, `MandateTheorem`, `BackendTheorem` | quotes, mandates, backend requests |
| `GatewayProofs` | `SlotsTheorem`, `ReadinessTheorem` | slots and permits; the age of `/ready` |
| | `DrainTheorem` | whom a shutdown waits for, with the exception of `drain` |
| | `NoDoubleChallenge`, `SettlementReported` | what the surfaces show, abandoned requests included |
| | `SurfacesKeepLedger` | the rows they show it from follow the ledger too |

### Assumptions of the proofs

Every bound of a run is a natural number and otherwise free. Beyond that:

- `RequestConstants`, `PipelineConstants`, `A2aConstants`, `UnboundAssumption`: a
  placeholder (no request, no mandate, no message, no binding) is not one of the
  things it stands in for. `OfferAssumption` says the same of fee payers, and that the
  offers of a resource can be told apart: by family in the model, by network, asset
  and recipient in the code, which refuses a repeated offer
  (`payments/x402/provider/offers.ts:139`). An MPP resource has one offer.
- `ProvesAssumption`: what evidence proves is settlement or non-settlement.
- `GatewayConstants`, `QuoteAssumption`: the caps of the mount, the tool calls and
  the cache are at least 1; the queue may be empty.
- `SupportedAssumption`: a call to `/supported` ends before its answer is stale.
- `TrustAssumption`, `MandateConstants`: trust lists are as `normalizeIssuers`
  leaves them; `Absent` is not a value.
- `ReadinessConstants`: the gateway's window is not empty. With a window of zero
  an answer can be given at the instant of the change it misses; the code has 2 s.
  `OutagesAreProbed`: what goes down is something that a probe looks at.
- `EvidenceAssumption`: the gateway's clock is ahead by
  `CLOCK_MARGIN_SECONDS` at most, block
  times do not decrease, the chain has a first block, chunk and window are at
  least 1.
- `LegacyConstants`: no file is named like a missing key or a missing marker.
- `BackendTheorem` takes names of path and query parameters that leave out the
  reserved one.

### The invariants

`TypeOK` is not inductive alone: the orphan scan takes a request id out of a hold
row, so the proof carries `HoldsNameRequests`.

The invariant `IInv` of `ReconcileProofs` has four parts besides the types. Two
notions carry it. An authorization has *lapsed* when it expired without landing;
this is stable. A request is *committed* when its submission landed or may still
land.

- `FlowOK`: what a handler knows of its settlement at each point.
- `RowsOK`: a handler that has yet to write its verdict finds its own row,
  reserved or already resolved as settled, unless its authorization lapsed; the
  row under a committed request's key is its own and not rejected. This is why
  an update by replay key cannot hit a stranger's row: a row changes owner only
  after a rejection, a rejection of an open row needs a lapsed authorization, and
  then nobody's verdict can be `settled`.
- `MoneyOK`: what is open or landed was submitted by a request of that key that
  was not told it failed; a settled verdict has landed.
- `MandatesOK`: a request between its mandate reservation and its verdict has its
  hold unless its authorization lapsed; a committed one always has; a consumed
  hold is paid; two live holds never share a checkout.
- `TasksAreJustified`: what a resolver is about to write is true now and stays
  true however late it writes: a landed transfer stays, a lapsed authorization
  stays lapsed, and a request that *gave up* (it can neither reserve nor be
  committed any more) never comes back.

Each action is one case of the proof that a step keeps a part. Refinement then
takes two cases: `Land` is a charge, since two committed requests of one checkout
would both have live holds; `Complete` of a delivered purchase is a serve, since
its verdict was `settled`.

`ImplementsLedger` needs more than the store: with arbitrary callers `update` could
overwrite a settled row. `OwnRowsAreOpen` adds the pipeline's part: a request that has
its verdict to write finds its row `settled` only by a resolution, which bars the
write. With `RowsOK` every write is then an arrow of the ledger. A late `uncertain` on
a row that was rejected meanwhile is one of them (`Doubt`): the update goes by replay
key, and the authorization has lapsed.

`UndeliveredIsFound` follows from `DeliveryOK`, which says where a handler can be once
the journal knows of a 2xx: on its way through a deferred settlement, saving a receipt
for a delivery, or past it, delivered unless a deferred settlement gave no verdict.

The invariant `AcpInv` answers why an update by key alone is safe: a handler
between claim and record owns the row under its key (`Owned`). A key in flight is
not claimed again, the sweep takes completed rows only, and recovery runs when no
handler is left (`Quiet`). With that, a request that the merchant acted on or may
still act on keeps its row until its answer is swept (`Kept`); the row is freed
only on an outcome that proves that the merchant did nothing (`Untouched`). What
agents were told is what the row stores (`AnswersOK`). With `merchantIdempotent`
`Kept` does not hold, and the merchant's own record takes its place.

`UpgradeInv` of `ReceiptProofs` is about *engaged* purchases: those that are charged,
or hold their mandate and may be. Each has a live row where the next reservation of
its checkout looks: one of 2.5 in the file as long as that exists, and in the table
once the marker names the file; one of the new gateway in the table (`PurchaseOK`).
`StageOK` ties the places together: without a marker the table is empty and the new
gateway does not serve AP2; a running 2.5 gateway has its file. A purchase that 2.5
takes after the import is late and not engaged; one that it takes before finds the
table empty. So whichever gateway reserves sees every engaged purchase, and
`OnePerCheckout` is kept. `SavedOK` says that of the copied rows. A
marker without a path can only be written when nothing was charged, because a charge
leaves the journal row that `Forgotten` looks for. All of it is proved as
`lossy \/ UpgradeInv`; what doctor foretells needs only `DoctorOK`, which holds after
a loss too: an unmigrated database has no marker, in use or in a backup.

`JournalInv`, in the same module: a row's cached state was derived from that row at
some earlier time (`RowsOK`), and from then on the derived state changes only along
the clock, in the direction that the candidate query allows for; the pages so far
hold every steady row above the cursor (`WalkOK`).

`TaskInv` of `A2aProofs`: a task in the store has no taker and a finished opener
(`TaskOK`), so only one take finds it; the mandate kept in the process is the opening
message's until the process ends or the task's time is over (`MandateOK`); a
follow-up has taken the task it pays, and between its take and its claim nobody else
disposes of the mandate (`HandlerOK`). `AnswersOK` adds that a process that is down
has no handlers.

`EvidenceInv` of `EvidenceProofs`: the authorization is used at most once, in a block
whose time allows it (`UseOK`); a refusal is given when no transaction is left that
could use it, or none that had not failed and whose block was not dropped since
(`AttemptOK`); the reader's finalized block is final (`ReaderOK`);
`firstBlockAt` keeps its lower block before the time it looks for and its upper one
at or after it (`BoundsOK`), so every block within the time bounds is within the block
bounds (`WindowOK`); an outcome names what the final blocks say (`OutcomeOK`), which
no reorganisation changes.

`PayerProofs` has one invariant per module. `MandateInv` remembers what each check has
established, as facts about the presentation and the instant of the claims step. `X402Inv`
carries that a snapshot of `/supported` lists the previous fee payer as long as the
facilitator signs with it (`SnapshotOK`), which makes the requirement of a retry name
the payer of the challenge. `QuoteInv` bounds the times of each cached quote and each
quote in hand. `BackendInv` says that the loaded resource
passed every check of config load and that an admitted request keeps the input that
passed the shape check, up to the call.

`GatewayProofs`: `SlotsInv` relates the two counters to the sets of connections and
calls that own a slot, and the queue to the calls that wait, each once. `ReadinessInv`
bounds, cache by cache, how long a change can stay unseen: a probe, the provider's
window, a second probe, the gateway's window. `SurfaceInv` adds `PastIsClosed`: no
proof before the current one, but an overtaken one, is reserved or can still land; and
`LateOK`: a challenge overtakes every request that the client has abandoned before its
reservation. `DrainOK` says that a
running call has a connection that is open or was left by its client, and that the
server closes when none is open.

## Only model-checked

Liveness under fairness (`EveryAttemptIsDecided`, `EveryHoldIsDecided`,
`EveryClaimIsDecided`, `QueuedCallsRun`) and `HandlersGoOn`, which says that a step is
enabled: neither is in the prover's reach. What `HandlersGoOn` rests on without
`ENABLED` is proved (`AdvanceTheorem`, `QuietTheorem`). The three findings are
counterexamples; `UndeliveredIsFound` and `DrainTheorem` prove that the first two are
confined to the case their runs show, `ReadinessTheorem` bounds the third.

## Not modelled

Cryptography beyond who signed what, HTTP framing, the wording of errors, logging,
the dashboard, CLI parsing and reports, OpenAPI import, OAuth-like tokens and CORS,
file formats of the configuration, and the local chain and demo used in tests: they
turn one input into one output and share no state. Of modelled parts, these are
left out: events and receipt lists, retention, free resources, the import of ACP
rows from 2.5, operator routes,
JSON-schema keywords on scalars, the reading of backend bodies, and the health probe
of MPP. The components of `PROJECT.json` name them one by one.

## Plan

The import of ACP rows beside that of holds.
