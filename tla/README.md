# Specifications of the SIRINX sovereign swarm

TLA+ models of the lead-handling system in this repository, the TLC
configurations that check them on small instances, and TLAPS proofs of their
main properties for every value of the constants. Paths below are relative to
the repository root; `server.mjs` is `apps/webhook-gateway/src/server.mjs`.

`PROJECT.json` lists the components, the runs, one mutant per checked property
(a plausible bug that makes the property fail), the map from definitions to
source lines, the disagreements found between code and documents, the hazards,
and the theorems.

To check: `tlc -config <run>.cfg <module>.tla` for a run, `tlapm <module>.tla`
for a proof module.

## 1. The system and its parts

One Node process (the *webhook gateway*) serves every route. It keeps an event
queue, a set of idempotency keys, a replay cache and a rate limiter in memory
and writes rows to an injected store: the in-memory `leadCoreStore` by default,
or the Postgres adapter over the Supabase schema.

| Part | State | Operations | What is hard | What makes it correct |
|---|---|---|---|---|
| Ingress, `handleMockWebhook` (`server.mjs:32-75`) | `idempotency`, `queue` | accept, ignore duplicate, reject | the "received" log is written without `await`; nobody consumes after a mock event | a key is accepted once; accepted events are accounted for |
| Queue and consumer (`inMemoryQueue.mjs`, `processLeadIntent.mjs`) | `messages`, an attempt counter per consumer | take, attempt (six writes), log a failure, dead-letter | two consumers on one queue; writes without a transaction; calls outside the `try` | a message goes to one consumer; what an attempt leaves half written is cut off or failed; dead letters stand for three failures |
| Replay (`replayDeadLetter`) | `replay_status` | patch, process again, mark, audit | repeated and concurrent replays | marked means processed again; one lead per replay at most |
| Calculator request (`createSolarEstimate.mjs`) | none of its own | accept, drain the queue, answer | the last result and the newest estimate may be somebody else's | the answer is about the caller's lead |
| Store, adapter, migrations | tables | inserts, status updates | unique keys in Postgres only; a rejected call may have committed | the two stores promise the same |
| Human review and outbox (`server.mjs:113-279`) | `reply_drafts`, `reply_outbox`, `agent_audit_logs` | approve, reject, queue-send, simulate-send, cancel | row change and audit in different turns; live rows in memory; read, then mark | one row per draft; nothing queued unapproved; states and answers explained |
| Webhook security gate | replay cache, buckets | decide, audit, answer | redelivery, clock skew, window edges, audit failure after the key is used | verified once, fresh, audited |
| Admin boundary (`adminAuthGate.mjs`, `server.mjs:281-312`) | live environment, access log | decide, audit, enter | environment edited between requests; a failing audit | remote callers need the token; no unaudited entry |
| OPAL, Hermes, guardrail | none (pure) | match a tier, draft, check prices | order of early returns, fractions of a baht | tier policy; whole bills are always drafted for |
| Readiness gates and env contract | none (pure, over the environment and the repository's files) | report | written separately, read the same flags and files differently | production stays shut; the contract shuts every gate |
| Signed smoke, staging smoke (`signedWebhookSmoke.mjs`, `stagingNetworkSmoke.mjs`) | the answers so far | send, conclude | other smokes, clocks, a restart or a failing audit between two requests | a pass means what it says; a failure has a cause |
| Cloudflare Pages: `wrangler.jsonc`, `_routes.json`, `functions/api/[[path]].js` | the deployed files | forward, refuse | three checks of one origin; a report about files edited since | a site deployed as reported forwards `/api/*`, and nothing else anywhere |
| a2a gateway, LINE link, static pages, n8n blueprint | none that the above depends on | | | not modelled, see section 8 |

How they interact: the router calls a handler per request; `createSolarEstimate`
calls the ingress handler, then drains the shared queue into the consumer, which
calls matching, drafting, the guardrail and the store; the review handlers work
on the drafts the consumer stored; the admin boundary precedes the review
handlers; the gates only read the environment; the smokes are clients of the
social webhooks; on the public site the Cloudflare function stands in front of
`/api/*`.

## 2. Modules

| Module | Models | Proofs | Instances |
|---|---|---|---|
| `LeadPipeline` | ingress, queue, consumers, retries, dead letters, replay, both stores, deaths of the process | `LeadPipelineProofs` | `MCLeadPipeline` |
| `EventLedger` | abstract: what the pipeline promises about an event | `LeadPipelineLedger` (the refinement) | through `LeadPipeline` |
| `ReplyReview` | approval queue, outbox, simulated send, audits | `ReplyReviewProofs` | `MCReplyReview` |
| `WebhookGate` | the social webhooks: limiter, signature, window, replay cache, audit, restarts | `WebhookGateProofs` | `MCWebhookGate` |
| `StagingSmoke` | both smokes, composed with `WebhookGate` | `StagingSmokeProofs` | `MCStagingSmoke` |
| `OpalHermes` | input normalization, validation, tier matching, drafts, guardrail | `OpalHermesProofs` | `MCOpalHermes` |
| `EnvGates` | the environment predicates, production reports, the admin boundary | `EnvGatesProofs` | `MCEnvGates` |
| `PagesDeploy` | the inspections of the deploy files, the report, a deployed site and its function | `PagesDeployProofs` | `MCPagesDeploy` |

A module's constants are the parameters and their named assumption
(`PipelineAssumption`, `ReviewAssumption`, `GateAssumption`, `BillAssumption`,
`EnvAssumption`, `SmokeAssumption`, `PagesAssumption`) is as weak as the proofs allow; the `MC` modules give them
values. Operators whose name extends another's (`EnqueuedOver`, `Peeked`,
`TooFarPastOnly`, ...) are mutants: no specification uses them.

### What an action is

JavaScript runs alone until the next `await`, so an action is the code between
two awaits, and `pc` names the await a handler is suspended at. Every store call
is a step of its own, because the store is injected and may be the networked
Postgres adapter. With the in-memory store the same steps are separated by
microtask turns: handlers interleave at them when they are suspended at the same
time (callers in the process, as in the tests that use the handlers directly,
pipelined requests, or a store that really suspends). The properties that hold
therefore hold in every such setting; of the violations, only
`LeadPipeline_own_lead` needs two handlers under way at once.

### LeadPipeline

`queue`, `idempotency` and the tables are the code's; `rows[t][s]` counts the
rows of table `t` for submission `s`; `deadLetters` is the dead-letter table in
order. `hands`, `attempt` and `result` are the locals of `processWithRetries` and
`consume` (`results.at(-1)`); `target` is the dead letter a replay works on;
`newestEstimate` is whose row `state.solar_estimates.at(-1)` is. `receipts` are
the submissions whose un-awaited "received" write is under way.

A message has a submission (`of`) and whether its payload makes every attempt
throw (`throws`): because of `force_error` or of a draft the guardrail refuses
(`Unprocessable`). A replay merges the operator's patch into the payload, which
can take that away or bring it in, so `StartReplay` is free to choose `throws`;
the event id and the lead id stay.

`hands` keeps what a handler held when it was answered 500 or went down with its
process. Such a handler accounts for nothing: `Live` are the requests under way,
`Missing` the accepted events that are nowhere any more, `Orphaned` the keys
without an event of this process, and `CutOff` the handlers a death stopped in
the middle. An event is `AtRest` when nobody works on it and it is not queued,
whether its handlers came to their end or were cut off.

The process dies when Postgres rejects that write, which is an unhandled
rejection (`ReceiptFails`), or when it is stopped (`Killed`): the queue, the keys
and every handler are gone, callers lose their connection, and an empty process
goes on over the same tables (`Dies`). `lost` is a history variable, the events
that were queued or in a live handler then. A killed process with the in-memory
store leaves nothing, which is `Init`, so `Killed` needs Postgres. A store call
that was under way at a death is taken not to have committed; one that fails
before it may have.

`Submit` is `handleMockWebhook` up to the queue; a calculator submission goes on
as a consumer. `TakeMessage` shifts the queue and runs the synchronous start of
an attempt, whose throws (`force_error`, a draft the guardrail refuses) lead
straight to the catch block. The six calls of an attempt, the failure log, the
dead letter and its audit, and the replay's mark and audit are one action each.
`AttemptCallFails` and `UnguardedCallFails` are Postgres calls that reject inside
and outside the `try`, committed or not (`Landed`); `CreateLeadConflicts` and
`SaveLeadEventConflicts` are the primary and unique keys.

With Postgres the answer to a calculator request is a 500, because
`store.state`, which `createSolarEstimate.mjs:46` reads, exists in the in-memory
store only; `Respond` says so.

`EventLedger` says the same without a queue, attempts or tables: keys are taken
once, an event taken on settles by being processed or by a dead letter, only a
buried event settles again (with failing calls, one whose settlement was recorded
by a call that failed), and a restart forgets the keys and may drop what was open.
`LeadPipeline` maps its variables to it (`OpenEvents`, `LetterEvents`) and has
`ImplementsLedger` as a property and as a theorem.

### ReplyReview

One draft row per draft, the outbox as a sequence of rows, the audits as a set of
entries. `store` is which store was injected, either one in `Init`, and never
changes. `held` is the row a store call returned, a copy under Postgres, and
`Seen` is what ends in the answer: with the in-memory store the live row. The
first step of each request changes a row; the simulated send reads it first
(`ReadItem`), and `MarkBlocked` changes it in a later turn whatever it has become.
A request whose mark fails has done nothing; one whose audit fails has changed
its row and is answered 500.

### WebhookGate

`Evaluate` is the whole synchronous `evaluateSocialWebhookRequest`, its limiter
and cache included; `RecordDecision` or `RecordFails` the awaited audit; `Respond`
the answer. A *tuple* is what the replay key is made of (provider, timestamp,
signature, body). The limiter is asked first, as in the code; its hit counts even
when the request is refused. `Tick` is the clock, taken to be non-decreasing.
`Restart` empties the cache and the limiter; requests under way get no answer, and
an audit write under way may have been committed. The environment stays: `env` is
chosen once. `life` counts restarts, so that the properties can tell what one
process did from what two did.

### StagingSmoke

`Gate == INSTANCE WebhookGate` with requests `<<smoke, step>>` and tuples that a
smoke can send: a body of a provider signed with the right, another or no secret,
at a time. A smoke sends its next request when the one before is answered. The
staging smoke (`StagingInit`) runs in any environment of client and gateway,
beside other smokes, while the gateway may restart or fail an audit between any
two steps; the signed smoke (`LocalInit`) has a gateway of its own and nobody
disturbs it. The two GETs of the staging smoke, the health and the calculator
page, change nothing and do not pass through `WebhookGate`: `pages` is what comes
of them, answers as expected, an answer that is not or that has a secret in it
(`healthOk`, `calculatorOk` and the check for secrets), or none, in which case the
smoke rejects before its first webhook. `SmokesDriveTheGate` proves that the composition implements `WebhookGate`.

### OpalHermes

A bill has a sign, a whole part and a fraction in ten-thousandths, because
`Intl.NumberFormat` rounds to three decimals and the guardrail's expression
`\d[\d,]*` stops at the decimal point. Free text counts only as far as it has an
injection phrase. Events come from the calculator (normalized) or from
`/webhooks/mock` (validated).

### EnvGates

The environment is a record of abstract values, one for each way the gates can
tell values apart. A flag is taken trimmed and lower-cased, as every gate reads
it; `"other"` is any value but `true` and `false`, blank included, which no gate
takes for true and the contract does not take for false either. `FilesReady` stands for `PagesDeploy`'s `ContractReady`,
`MigrationsOk` for the inspection of the migration files, which is not modelled.
`Edit` is the operator changing the
live environment, `PrintReport` the report scripts, `Arrive`, `RecordAccess` and
`RecordFails` the admin boundary. `/dlq/replay` is not an admin path in the code, nor
here.

### PagesDeploy

`files` is what the inspections can tell of `wrangler.jsonc`, `_routes.json`, the
function, `.env.example` and the static files; `Edit` changes one property,
`Report` is `buildDeployReadinessReport`, `Deploy` is wrangler's, which nothing
ties to a report. `Serve` is a request on the deployed site: Pages decides by
`_routes.json` whether the function is asked (external), and `Proxied` is
`onRequest`. An origin is a URL with scheme, host, credentials and the rest, or no
URL; it is checked by `validatePublicApiOrigin` when reported and twice by
`validateApiOrigin` when a request comes.

## 3. Runs

All bounds are constants: the sets of submissions, requests, tuples and bills,
`MaxRetries` (3, the code's), `MaxFaults`, `MaxTime`, `MaxEdits`.
`CHECK_DEADLOCK FALSE` is set because the environment is finite: when every
request is answered, the system really stops.

| Run | Instance | Shows |
|---|---|---|
| `LeadPipeline_live` | two calculator requests, one of them undraftable, a failing and an invalid mock event, one replay, in-memory store, fair | no message shared; nothing stays queued after its request is answered; marked replayed means processed again, whatever the patch did; calculator events finish, everyone is answered |
| `LeadPipeline_postgres` | one calculator request, two mock events with one key, one event id and one lead id, one of them failing, one replay, two failing calls, one kill | a failed call drops one event and orphans one key at most, through conflicts and restarts; `lead_events` unique; one lead per key and life beyond replays; tables apart only by handlers cut off and failed calls; dead letters stand for three failures; the ledger implemented |
| `ReplyReview_review` | two drafts, five requests, either store, one failing call with Postgres | one row per draft, approved before queued, success means audited, states audited but for requests answered 500, an answer that differs from its request is explained by another operator, nothing staged again |
| `WebhookGate_delivery` | a good and a forged tuple, four requests, five clock values, replay window 1, limit 1 in a window of 2, one failing audit, one restart | verified once by a process, in the window; cache exact; at most twice the limit in a window length; refusal only when busy |
| `StagingSmoke_traffic` | two smokes, processing on or off, a client that is not allowed, has a wrong Meta secret, a late clock, or a page that is wrong or out of reach, one failing audit or restart, limit 4; and one signed smoke | a pass is faithful, a failure has a cause |
| `PagesDeploy_config` | two edits from the repository's files, four paths, four route patterns | a site deployed as reported forwards every API request; nothing is forwarded out of bounds |
| `OpalHermes_policy` | every combination of the enumerations with ten bills at the thresholds | the tier policy, monotone in the bill, firm only with context, whole bills drafted |
| `EnvGates_environment` | two edits from `.env.example`, the tests' complete environment, or one with every gate open; two admin requests, one failing audit | production never ready, an accepted contract shuts every gate, token for remote callers, audit before entry |

The bounds are enough in this sense: two consumers and one message beside theirs
are the least with which a consumer handles somebody else's event; one failing
call loses a message and two reach a failure while failing, or a death after a
failure; five requests fit an approve, a queue-send, a simulate, a cancel and one
more review; four requests fit a full bucket, a refusal, and one after each side
of a restart, and five clock values the tuple's whole life from its future to its
expiry; two smokes are the least that share a bucket or a tuple, and the limit of
four leaves the fifth of their eight requests refused; two edits are one that a
report sees and one that it does not. The three environments of `EnvGates` are one
edit or two on either side of each gate. A violation that needs more than one
provider, remote class or restart is left to the proofs, which remove the bounds
for what they cover. So are replays that overlap: a second replay in
`LeadPipeline_postgres` takes TLC past five minutes, while the theorems hold for
any number of them. `ReplyReview_review` runs with either store, and so does every
theorem of `ReplyReviewProofs`; the two runs of `LeadPipeline` that pass have one
store each.

## 4. Where code and documents disagree

Each of these is a run with one property that TLC refutes, from what a document
or a test says.

| Run | The code | What is said |
|---|---|---|
| `LeadPipeline_own_lead` | answers with the last result of the drain and the newest estimate of anybody | the answer names the caller's draft (`tests/admin-reply-queue/reply-queue-api.test.mjs:23`) |
| `LeadPipeline_dropped` | a rejected call in the failure path drops the message | "Failed events are not dropped" (`docs/SECURITY_GUARDRAILS.md:36`) |
| `LeadPipeline_mock` | nothing consumes after a mock event | `terminal: "processed_or_dlq"` (`packages/workflow-pipeline/src/workflowPipelineMap.mjs:209`) |
| `OpalHermes_bill` | a bill with a fraction is dead-lettered | bills of zero or more are accepted (`packages/solar-calculator/src/createLeadIntentEvent.mjs:78`) |

`LeadPipeline_own_lead` needs two calculator requests under way at once: with the
in-memory store, callers in one process or pipelined requests. `LeadPipeline_dropped`
needs Postgres. The other two happen to any single caller.

Read off the models without a run of their own:

* The in-memory store writes a second `lead_events` row for an event id when a
  dead letter is replayed twice; the schema has `event_id text unique`
  (`infra/supabase/migrations/001_lead_core_minimal.sql:45`). With Postgres
  `LeadEventUnique` holds.
* queue-send answers `queued` for a draft whose item was cancelled or blocked
  before (`leadCoreStore.mjs:140`), where `docs/SPRINT5_GATED_REPLY_OUTBOX.md:30`
  has "message is staged for a future channel gate". `NeverRestaged` says what
  does hold.
* With the in-memory store, whose rows are live, the answer to an approval may
  carry a draft a concurrent request rejected. `AnswerExplained` says what holds
  with either store: the answer then shows what another operator did.
* The rate limiter is asked before the signature is verified
  (`webhookSecurityGate.mjs:206`); the diagram in
  `docs/WORKFLOW_PIPELINE_MAP.md:63-65` has it last.
* The runtime contract demands off the flags that other gates demand on
  (`runtimeEnvContract.mjs:309`), so configuring the runtime never lifts the
  block, unlike `docs/SPRINT12_RUNTIME_ENV_CONTRACT.md:67`;
  `ProductionStaysBlocked` states it.
* The routes gate accepts an `include` that has more than `/api/*` as long as it
  lacks `/*` (`deployReadinessGate.mjs:249-254`), where
  `docs/SPRINT10_DEPLOY_READINESS_GATE.md:58` has Functions invoked "only for
  `/api/*`"; it also accepts an `exclude` narrower than `/api/*`, which
  `ReadySiteForwards` therefore exempts.
* `https://localhost` passes as a public origin (`deployReadinessGate.mjs:325`),
  and the `"::1"` of `validateApiOrigin` is never met, since `URL` reports that
  host as `[::1]`.
* A staging smoke can pass after a restart between its webhook and its replay: if
  another smoke sent the same tuple in the same millisecond, the replay is refused
  on that account. `PassIsFaithful` has this as its only exception.
* A migration mode outside the three known ones can be ready
  (`migrationReadinessGate.mjs:19`), against `docs/SPRINT9_STAGING_READINESS_GATE.md:10`.

## 5. Fairness

Only `LeadPipeline`'s `FairSpec` has any: weak fairness of each worker's `Work`
and of `ReceiptLands`. The event loop resumes a handler whose promise has
settled, so a step that stays enabled is taken. Nothing makes a client submit, an
operator replay, or a call fail, so those have none. Liveness runs use
`MaxFaults = 0` and the in-memory store, whose calls always settle.
`MockEventFinishes` fails under the same fairness, since no step of any worker is
enabled for a mock event nobody drains.

## 6. What is proved

All theorems have the form `Spec => []P` (or an action property), for every value
of the constants the assumption allows. TLC's runs check the same `P`.

* `LeadPipelineProofs`: `PipelineTyped`, `NobodySharesAMessage`,
  `AcceptedIsAccountedFor`, `DuplicatesAreAccountedFor`. Typing needs
  `HandlersTyped` beside `TypeOK` (a handler at a store call of an attempt holds a
  message; a replay under way knows its dead letter). `HandledOnce` is inductive only with `Flow`: a submission not
  yet made is nowhere, an idle worker has empty hands, and what a replay holds is
  already dead-lettered, hence finished. Every action has a lemma (`AcceptKeeps`,
  `TakeMessageKeeps`, ...), and what each does to the tables is in `StoreKeeps`.
  `NothingAnsweredIsQueued`, of `AnsweredNotQueued`, needs `NotLeftQueued`: already
  a consumer about to answer has seen the queue empty. `MarkedWasReprocessed`, of
  `ReplayedWasReprocessed`, needs `ReplaysWork`: a replay holds the event of its
  dead letter, and the outcome is on record before it comes to `mark_replayed`.
  `OneRowPerEventId`, of `LeadEventUnique`, assumes Postgres: the `ON CONFLICT`
  keeps it, also when a call fails after its statement was committed.
  `AcceptedIsAccountedFor` and `DuplicatesAreAccountedFor` count what failures can
  drop: by `Endings` a consumer that ended with a message in hands was answered
  500, and there are at most as many of those (`Dropping`) as failed calls, or went
  down with its process, and then its event is in `lost`. A missing event, or an
  orphaned key, is that of one of `Dropping`.
* `LeadPipelineLedger`: `PipelineImplementsLedger`. Every action of the pipeline is
  a step of `EventLedger` or leaves its variables alone: `Accept` is `TakeOn`, the
  processed log `Process`, the dead letter `Bury`, a death `Restart`. It rests on
  the inductive invariant of `LeadPipelineProofs` and on what a handler at these
  calls holds: an event that is open or, in a replay, buried.
  The same module keeps the books, whatever fails and dies: a table of an attempt
  has at least what the next has and the workers between the two calls hold
  (`Chain`, over the pairs in `Between`), a step being a move of one worker from one
  table's account to the next (`EntryKept`) or the loss of what it held
  (`EntryLost`). The excess of leads over processed logs is bounded by the workers
  in between, those cut off and the failed calls (`LeadsSpent`);
  `AttemptsLeaveAllOrNothing`, of `AllOrNothing`, follows. A death moves what was
  under way from the first of these to the second (`DeathCut`).
  `DeadLettersAreBacked`, of `DeadLetterBacked`, counts failed logs: `MaxRetries`
  for each dead letter and, for each attempt under way, those it has logged
  (`Recorded`), are always there (`Owed`, `Audited`), and as long as no call has
  failed there are no more, but for handlers cut off (`Exact`). `Attempts` says why an
  event that failed once fails again, so that no logged failure is left behind by a
  success. `KeysBecomeOneLead`, of `OneLeadPerKey`, bounds the requests that took a
  key by the deaths and the running process (`KeysTaken`), and the leads of an event
  by the replays that are past the lead (`LeadsMade`); a replay is of a dead letter
  that is there (`Aimed`). The theorems need no finite set of workers: only
  finitely many are ever busy (`BusyFinite`).
* `ReplyReviewProofs`: `OutboxUnique`, `NothingQueuedUnapproved`,
  `SuccessIsAudited`, `StatesExplained`, `NothingRestaged`. `StateAudited` speaks
  of quiet states only; the invariant says what holds between: the status of a
  row is audited, *owed* by the handler that set it, or of one whose audit failed
  (`DraftsOwed`, `RowsOwed`). `AnswersExplained`, of `AnswerExplained`, holds for
  either store: every decided draft and every row past "queued" is the doing of
  some request (`Authored`), and a handler that is about to answer knows that its
  row is past the state it found it in, or holds what another did to it (`Told`).
* `WebhookGateProofs`: `RedeliveryVerifiedOnce`, `CacheExact`,
  `VerifiedInWindow`, `AnswersAreAudited`. The cache being exactly what this life
  verified is what makes verification unique in it; across lives the window bounds
  the distance. `LimiterIsBounded`, of `AtMostTwiceLimit`, and `LimiterIsFair`, of
  `LimitedOnlyIfBusy`, are about cardinalities: a bucket's count, up to the limit, is
  the number of requests let through in its window, and in the stretch of one length
  before the window no more than the limit were (`WindowCounted`). Any stretch of one
  length that takes in a new request lies within those two.
* `StagingSmokeProofs`: `PassesAreFaithful`, `FailuresHaveCauses`,
  `SmokesDriveTheGate`. The invariant
  follows each request from what was sent to what was decided and answered; its
  heart, `Detected`, says on whose behalf the tuple of a refused replay had been
  verified: by `CacheBacked` somebody sent it in this life, by its kind as a line
  or a replay request, and if the smoke's own line request was decided in this
  life, by that one. `FailuresHaveCauses`, of `FailureHasCause`, has a second
  invariant, `CInv`: each refusal is grounded in the environment, the request or
  another smoke (`Grounded`). That a smoke is not rate limited by itself needs
  `Limit >= 3`, which the code's 60 is: no two requests are all that a bucket at its
  limit let through (`Filled`), and a smoke sends only two others with the same key.
  That the signed smoke fails for none of these causes is `Alone`.
* `OpalHermesProofs`: `PolicyImplemented`, `FirmEstimatesGrounded`,
  `HigherBillHigherTier`, `WholeBillsAnswered`. The invariant ties the match and the draft to the event
  they came from; `WholeBillPasses` shows that a printed whole bill is among the
  numbers the guardrail allows.
* `EnvGatesProofs`: `ProductionNeverReady`, `ContractIsSafe`,
  `RemoteCallersHaveTokens`, `AdmissionAudited`. `GatesContradict` and
  `ContractShutsGates` are facts about all environments; the invariant says a
  printed report is that of the current environment.
* `PagesDeployProofs`: `ReadySitesForward`, `ForwardingBounded`. The invariant says
  that a ready report is `ConfigReady` of the files it names and an answer that of
  the deployed files; `VettedOrigin` and `VettedRoutes` are the facts about all
  files: what the report accepts the function forwards.
* The type invariants of all five modules that state one are proved as well:
  `PipelineTyped`, `TypeInvariant` (`ReplyReviewProofs`, `WebhookGateProofs`),
  `CustomersTyped` and `EnvironmentTyped`.

## 7. What is only model-checked

Liveness (`SolarEventFinishes`, `EveryoneAnswered`), which is out of TLAPS' reach,
and the four properties the code violates (section 4). Every invariant and action
property of a passing run is stated by a theorem; `AnswerAudited` is only proved.

The bounds of the runs (numbers of faults, deaths, disturbances, ticks) are
constants of the specifications, so the theorems hold for each value of them.
What calls that fail may break is part of the properties: `NothingVanishes` and
`RememberedIsAccounted` allow one event and one key for each, `AllOrNothing` one
attempt for each and for each handler cut off by a death. The first half of
`DeadLetterBacked` holds whatever fails, its second half and `OneLeadPerKey` only as
long as no store call has: a call that fails after its statement was committed
makes the retry write the lead again.

## 8. What is not modelled

* HMAC, fingerprints and text: a signature is valid, invalid or missing, a key is
  a value.
* List, health and static routes (they change no state), the LINE link (it formats
  a URL), the browser scripts (they call the modelled endpoints), the n8n
  blueprint (data for another program), and the a2a gateway, which keeps no state
  and calls nothing of the pipeline.
* Deaths of the process in `ReplyReview` and `EnvGates`: a request cut off there is
  like one whose next store call fails, which is modelled.
* Row level security, rollbacks, the inspection of the migration files, and in
  `PagesDeploy` which headers the function drops.
* A change of the gateway's environment while it runs, in `WebhookGate` (in
  `EnvGates` it is `Edit`).
* Calculator input that matches an earlier one has the same idempotency key
  whoever sends it, and is answered `duplicate_ignored` even after its event was
  dead-lettered. This is how `Key` is to be read; no property objects to it.

## 9. Plan

1. The limiter across a restart and with the clock: how long a stretch its bound
   holds for when the buckets are lost, as a theorem.
2. A composition of `EnvGates`' admin boundary with `ReplyReview`.
3. The a2a gateway, if its task handling grows beyond a stub.
