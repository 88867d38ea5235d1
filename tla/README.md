# Verification of the Bevoac scan platform

Bevoac V6.2.0 runs security scans of Azure tenants and web sites for the tenants of
a SaaS. This directory models the parts of it that decide whether a scan is
admitted, runs, ends and is charged, which subscriptions it may read, how an audit
ends, and what verdict its modules give. It checks the models with TLC on small
instances, and proves most of their safety properties with TLAPS for every instance.

## The system

```
client --> API (Fastify) --one transaction--> PostgreSQL: scans, ledger, keys, outbox
              |                                    ^             |
              +--immediate publication             |             v
                                                   |    outbox publisher (daemon, timer)
                                                   |             |
            worker <------- Service Bus queue <----|-------------+
              |   (peek-lock, session per tenant,  |
              |    delivery limit, dead letters)   |
              +-- audit modules --> result, billing transition, attempt row
operators: dlq-replay.js, purge-dlq.js, retention-sweep.js, backfill-final-billing-state.js
```

Paths below are relative to `src/`; `api` is `bevoac-api-enterprise`, `worker` is
`bevoac-worker-enterprise`.

| component | state | operations | what makes it correct |
|---|---|---|---|
| scan admission: `api/src/services/scan-service.js`, `billing-service.js` | rows of `scans`, `scan_request_idempotency`, `billing_usage_ledger`; advisory locks | `createScanRequest`, `authorizeScan` | quota never passed by concurrent calls; one scan per key; a key never hands out another request's scan; every call answered |
| transactional outbox: `api/src/services/outbox-service.js`, publisher daemon and plugin | rows of `outbox_events` | `claimPending`, `publishPending`, `markPublished`, `markFailed` | no row marked sent that was not; no two publishers on one row; every row sent or its attempts used up |
| scan worker: `worker/src/services/message-processor.js`, `scan-store.js`, `src/index.js` | messages and locks of the queue, `scans`, `scan_attempts`, `scan_results`, `billing_usage_ledger` | `processScanMessage`, `beginAttempt`, `markCompleted`, `markFailed`, `markRetryable`, `markRejectedMessage` | one live attempt; a superseded worker changes nothing; charged or refunded once, as the status says; no open scan loses its last message |
| dead-letter tools: `worker/scripts/dlq-replay.js`, `purge-dlq.js` | the dead-letter queue | replay, purge | neither breaks the above |
| retention: `api/scripts/retention-sweep.js` | `scans`, keys, onboarding sessions | `deleteExpiredScans` | only ended scans go |
| billing months: `api/src/services/billing-service.js`, `scripts/backfill-final-billing-state.js` | `billing_monthly_snapshots`, ledger | `upsertSnapshot`, `getTenantBillingOverview`, `closeBillingMonth`, backfill | a scan is settled once; what is shown was committed; a closed month settles |
| onboarding: `api/src/services/azure-onboarding-service.js` | sessions, integrations, scopes | start, callback, refresh, reverify, expiry, registration | a session is consumed once and ends; scopes follow the last verifications |
| database context: `api/src/lib/db-context.js` and its twin | pooled connections | transactions, tenant context | no connection with an open transaction or another tenant's context is reused |
| audit run: `worker/src/services/audit-runner.js`, `lib/module-timeout.js`, `retry.js`, `scanners/azure/azureInfra.js` | partial result, timers, abort signals, attempts | `runAudit`, `withTimeout`, `withRetry`, `settleModule` | it ends; its result is complete; a late operation changes nothing |
| scanners: `worker/scanners/azure/*.js` | counters, lists of findings, partial errors | one function per module | a failed read leaves a trace; a finding makes its check |
| resource paging: `worker/src/lib/resource-graph*.js` | skip token, rows | `queryResourceGraph` | within its caps; what was left unread shows |
| status and KPI: `worker/src/lib/status-semantics.js`, `kpi-engine.js`, `module-enhancers.js` | none | `decorateModuleStatus`, `computeSecurityPosture`, KPIs | no PASS without having read; no alarm from nothing |
| sanitizing, network guard, authentication, reports, frontend, Terraform | none, or read only | | pure functions, I/O, or deployment |

The components interact through PostgreSQL rows and the queue only. The API and the
publisher share `outbox_events`; the publisher and the worker share the queue, whose
message id is the scan id; the worker and the API share `scans` (the worker's
outcomes free the active-scan limit and, by failing, the quota) and the ledger; the
retention sweep deletes under both. The snapshots of a month are refreshed from the
ledger by scan requests, overviews and the backfill. Onboarding writes the scopes
that the admission reads. Within the worker, an audit runs its modules, each module
its scanner, and the scanner's result becomes a verdict.

What is hard: transactions at READ COMMITTED of concurrent calls, whose checks read
what others change; a broker that delivers at least once, expires locks under a live
worker and dead-letters by itself; settlement and commit being two steps, either of
which may be lost; publishers on three schedules; operators' scripts in between;
provider calls that no abort signal stops, under three nested retries and two
deadlines; reads of Azure that fail in part, in scanners that record it each in its
own way. The list of hazards, each at its line, with the properties that cover it,
is in `PROJECT.json`.

## Modules

| module | models |
|---|---|
| `ScanWorker` | the queue, the workers and the transactions of the scan store |
| `ScanContract` | what the store promises for one scan, abstractly |
| `Outbox` | the rows of the outbox and concurrent calls of `publishPending` |
| `ScanRequest` | concurrent calls of `createScanRequest`, with locks, limits and keys |
| `Admission` | the admission of a scan as one atomic decision, abstractly |
| `Billing` | the monthly snapshots: refreshes, overview, backfill, closing of a month |
| `Onboarding` | sessions, the consent callback, verifications and the scopes they write |
| `AuditRun` | one call of `runAudit`: sections, rounds, attempts, deadlines |
| `ModuleStatus` | execution status, posture, roll-up and KPI status, as operators |
| `Scanners` | what each scanner lists, records, finds and counts, as operators |
| `ModuleAudit` | one attempt at a module: reads, or paging, then its verdict |
| `MCScanWorker`, `MCScanRequest`, `MCBilling`, `MCOnboarding`, `MCAuditRun`, `MCModuleAudit` | instances for TLC: symmetry, the values of functions, bounds |
| `ScanWorkerProofs`, `OutboxProofs`, `ScanRequestProofs`, `BillingProofs`, `OnboardingProofs`, `AuditRunProofs`, `ScannersProofs`, `ModuleAuditProofs` | theorems and proofs |

`PROJECT.json` maps each definition to its lines. Definitions under a comment
`Mutant:` are not used by the specifications: each is a plausible bug that replaces
the definition after it, and that a property must detect.

### ScanWorker

A slot of `worker` is one sequential receiver: `idle`, or at a control point of
`processScanMessage` with the delivery it handles. An action is one transaction or
one settlement call, the grain at which another process can come between.

| state | code |
|---|---|
| `message[m]` | a copy in the queue: state, lock holder, delivery count, message id |
| `scan[s].owner` | `scans.processing_attempt_id` |
| `scan[s].result` | the attempt whose transaction wrote `scan_results` |
| `attempt[d]` | `scan_attempts.status` of the attempt of delivery `d` |
| `ledger[s][event]` | number of `billing_usage_ledger` rows of the scan and type |

`BeginAttempt` is `beginAttempt` with the branch of the handler that follows it;
`Reject`, `PreflightLost`, `PreflightOverLimit`, `RunAudit`, `RunFails`,
`RejectOverLimit`, `Complete` are the steps of the happy path and its early returns;
`RetryLater`, `GiveUp`, `PersistFailureFails` are the catch block; `Settle` and
`SettleFails` the call on the receiver, with what the handler does when it throws
(`onError`). A malformed message whose body names no scan is dead-lettered and
changes no row; the model lets any malformed message be so. Each transaction has a
failing twin in which its effect is applied or not. A worker's clock is not
modelled: `LockExpires` may happen at any time, so that every pause of a worker is
covered. `markResourcePreflight` changes no column a property reads; what remains of
it is its ownership check. Sessions are not modelled: a slot may take any queued
message, which allows the interleavings of `SERVICEBUS_SESSIONS_ENABLED=false` too.

A delivery is processed once, so the pair of message and count names the attempt;
the code draws a UUID. `DeleteScan` requires that no live message of the scan is
left: retention is counted in weeks, deliveries in minutes.

### Outbox

A call of `publishPending` claims rows in one transaction, then sends and marks one
row at a time. `row[e].stale` says that `locked_at` is older than ten minutes and
`due` that `next_attempt_at` has passed; `aged` only records that a claim was ever
stale. A send that fails may have been delivered. The transaction around a send
changes nothing before the send, so it holds no row lock then; `SKIP LOCKED` may
pass over rows that others are marking.

### ScanRequest

A call is at the statement it executes next. Inserts become visible at the commit
(READ COMMITTED), and until then hold the key: a second insert of the key waits, as
a unique index makes it wait. `LockTenantMonth` waits for the advisory lock, which
`Release` (COMMIT, ROLLBACK, or the end of the connection) gives back. `ScanEnds`
stands for the worker, `Sweep` for retention, `NextMonth` for the calendar. The
billing units are a function of the content, as
`resolveBillingUnitsForAuthorizedScan` makes them; the used units are a set of
pairs, whose cardinality is the `SUM` of the query. The authorization of targets and
the lookup of an inactive tenant are a refusal at any time.

### Billing

A snapshot, and the sum a call has computed, is the set of ledger entries it adds
up: every column is a sum over those of a tenant and month, and two different sums
of them are then two different sets. A call that refreshes is at `sum` (the
aggregate query), `write` (the upsert, which waits for the row) or `commit`.
Requests hold the advisory lock of the month, overviews and backfills do not.
`floor` and `late` of a call are history: the entries of its month, and whether the
month was closed, as it began. An overview that sums, is overtaken and then writes
does overwrite newer sums; `OlderSumsOverlap` says that only such a call does.
`Legacy` scans are those an older release ended without settling, the candidates of
the backfill. `CloseRows` waits for the rows that others have locked and may see or
miss a row that is inserted meanwhile; the checks before it are not repeated.

### Onboarding

One pair of tenant and directory, since every statement names both. A callback is
`locked` after its `SELECT ... FOR UPDATE`; `read` is the status it saw. A
verification lists subscriptions outside of any transaction (`discover`), marks the
rows of the consent stale (`mark`, and `marking` while it waits for rows that others
hold), upserts what it found one by one and commits. `failed` is the second
transaction, of the catch block. A row that is written is locked until the commit
and keeps its old value for others. `lost` records the sessions whose call died, or
could neither commit nor record its failure; `recent` what the last verification
that overlapped no other found, with those since. `Register` is
`register-tenant-scope.js`.

### AuditRun

`audit` is the section `runAudit` is in, or how the call ended: `returned`, `retry`
(an error that makes the handler retry the message) or `failed`. A provider call
that settles (`CheckSettles`, `GraphSettles`, `RunSettles`) and the continuation of
the code after it are different actions, so that a deadline may fire in between.
`run[r][m]` is module `m` in round `r` of the retry around all modules: a round that
was given up goes on beside the next. `waiting` is an attempt in the delay of
`withRetry`; `Resumes` looks at the signal after it. A deadline aborts the signal
and ends the race (`Interrupts`). The table `moduleTimings` of the result, which
`timed` (`audit-runner.js:56`) still fills when a check settles after the end, is
not modelled: `ResultFinal` is about the sections and the outcome. Which sections
are requested is chosen in `Init`.

### Scanners, ModuleStatus and ModuleAudit

A resource is a record of the properties a scanner looks at, each good, bad or
absent from Azure's reply. A role, a port or a source may also be bad in a form the
scanner does not compare with (`unlisted`: the id of Owner, a range of ports), and
the encryption of a SQL server is `unsupported`. `Scanners` has, for each scanner
function, its listings in the order they are read, whether it keeps the pages before
a failing one (`Streamed`), whether a failed detail request is recorded as a partial
error or swallowed (`Silent`) and what the properties are then taken to be, the
details it pushes, the severity of the check each makes, which counter
`getAnalyzedCount` finds in its result, and the rule by which it calls itself
`FAILED` or `PARTIAL`. `ModuleStatus` has the functions on verdicts.

`ModuleAudit` chooses a module and an estate, lets each read succeed, fail, break
after some pages or lose its details, or pages through Resource Graph with a server
that may send more or less than asked and a token too many, and computes the
verdict. The estate does not change while it is read. A position holds at most one
resource: several resources of one listing are those of several subscriptions. The
error of a subscription is caught by the scanner itself, which is why a throttled
listing never reaches `withRetry`; `Throws` is what does.

## Runs

| run | instance | shows |
|---|---|---|
| `worker_copies` | 1 scan, 2 copies, 2 workers, 2 deliveries each, fair | `OneLiveAttempt`, `TerminalAttemptWroteResult`, `NoStrandedScan`, `PublishedScanEnds` |
| `worker_operators` | 2 scans, one malformed and without reservation; replay and purge | `BillingFollowsOutcome`, `OnlyOwnerFinishes`, `ImplementsContract` |
| `worker_threshold` | as the first, no fairness | violated: `ThresholdIsTerminal` |
| `outbox_faults` | 2 rows, 2 calls, 2 attempts, 1 fault, fair | `PublishedWasSent`, `ExclusiveClaim`, `AttemptsBounded`, `SentOrExhausted` |
| `request_months` | 3 calls, 1 tenant, 2 months, 1 client key, quota 2 units, 1 active scan | `QuotaNeverExceeded`, `ActiveScansBounded`, `AnswerMatches`, `KeyDecidesOnce` |
| `request_tenants` | 2 calls, 2 tenants (one pay-as-you-go), 2 months, fair | `RequestAnswered`, `ImplementsAdmission` |
| `request_replay` | 2 calls, 1 active scan | violated: `SameRequestReplays` |
| `billing_months` | 2 tenants, 2 scans (one may be of an older release), 2 callers, 2 months | `SettledOnce`, `OlderSumsOverlap`, `OverviewInWindow`, `ClosedMonthSettles` |
| `onboarding_verifications` | 1 session, 2 subscriptions, 2 callers, fair | `ActiveWasFound`, `CountCovered`, `ConsumedOnce`, `SessionsSettle` |
| `audit_deadlines` | 2 web checks, 2 modules, 1 retry at each level, fair | `EndsAsItWent`, `ResultFinal`, `NoAttemptAfterAbort`, `AuditEnds` |
| `module_verdicts` | 19 modules, 2 subscriptions, 3 rows of which 2 may be kept on 2 pages | `UnreadNeverPasses`, `PassIsEarned`, `AlarmIsReal`, `WorseNeverLooksBetter` |
| `verdict_forms` | the module `azure_rbac_exposure`, as above | violated: `PassedTextsHold` |

Each run of the first kind checks its module's type invariant too (`TypeOK`); that
of `AuditRun` bounds the attempts and that of `ModuleAudit` the pages and rows kept.

Bounds, and why they suffice. Two copies and two workers give every pair of a live
and a superseded attempt, for copies of one message as for two deliveries of the
same; two deliveries give a retry and a last delivery. The second scan of
`worker_operators` takes the rejection and the missing reservation. Two calls of
`publishPending`, with rows that both want and one fault at any step, give the races
of claims; two attempts separate "retried" from "used up". Three calls make a
winner, a waiter and a third that comes after a release; requests of one and of two
units against a quota of two make sums that fit exactly and that do not; two months
make two locks for one tenant. Two billing callers make every pair of a refresh with
a refresh, a backfill or a closing; a third would only wait for the same row or
lock. Two verifications with two subscriptions make the found sets comparable,
disjoint and empty; sessions meet only in the rows both verifications write, and a
verification without a session is the other caller. One retry at each level (the
code has `Retries = 2`) separates an attempt that may be repeated from the last one,
and two rounds may overlap. In `module_verdicts` the estate has at most two
resources, or all (`MaxResources`), at most two flaws, and at most two failed
listings (`MaxFailures`; one, in a module of more than four positions): a check
needs at most two bad properties of one resource, and the rules that compare counts
distinguish none, some and all. The proofs remove these bounds for the safety
properties listed below.

The systems stop when every message is settled, every row is published, every call
is answered and every audit or module has ended, so deadlock is not an error there;
waiting for ever is excluded by `PublishedScanEnds`, `SentOrExhausted`,
`RequestAnswered`, `SessionsSettle` and `AuditEnds`.

### Fairness

- `ScanWorker`: a handler runs on (the event loop of Node; a crash counts as a
  step), a queued message is received by some slot (`sessionLoop` never ends), and
  the broker expires a lock that no busy worker renews. Neither success,
  publication, expiry of messages nor operators are assumed. One slot may be unfair
  to one message, not the slots together to any.
- `Outbox`: the ticks of the daemon claim again, a call runs on, time passes. A send
  that always fails is fair. Faults are bounded by `MaxFaults`, since with unbounded
  faults nothing is ever sent.
- `ScanRequest`: a call that is not waiting takes its next step. No lock is assumed
  to be granted in order, and no call has to fail.
- `Onboarding`: a callback or verification goes on unless it is lost: requests to
  Azure have timeouts, statements of the database end or fail. Nobody has to call,
  expire or sweep.
- `AuditRun`: continuations run and the global deadline fires; a provider owes no
  answer, and the deadlines of sections are not needed.
- `Billing` and `ModuleAudit` state safety only.

### Divergences found

- `worker_threshold`. `docs/technical/security-model-v6-2.md:61` says of a transient
  error that the terminal state is persisted at the threshold and the message then
  dead-lettered. If an attempt that has begun fails at the last delivery and the
  transaction of its catch block throws too, `message-processor.js:438` abandons the
  message; the broker dead-letters it, and the scan stays `IN_PROGRESS`, counted as
  active and as used quota. A later replay has another message id
  (`dlq-replay.js:24`) and does not acquire it (`scan-store.js:54`).
- `request_replay`. `VALIDATION_MATRIX_V6_2_0.md:12` promises a replay for the same
  request. The key is looked up before the lock, not after it, so a duplicate that
  waited for the lock may be refused (429) for the limit or quota that its own first
  copy has filled.
- `verdict_forms`. `azure_rbac_exposure.js:72` and `:85` name Owner first among the
  roles the check is about. The id at `:9` has a digit too many and matches no
  assignment, so an Owner of a subscription is not found and the module may be shown
  as PASS, with the text that it detected none. The same property fails for `nsg`
  (put it in `Modules` of `VerdictForms.cfg`): `nsg.js:76-77` compare each port with
  those of SSH and RDP, so a rule for `0-65535` passes a check that says that no
  group allows them (`:139`), and so does one from `::/0`; `vms.js:161` compares
  ports in the same way. There TLC also finds the network interfaces that were not
  read (`Hidden`).

Facts the models show without a text that denies them in the current documentation:
the active-scan limit may be passed by one scan per turn of a month, because the
lock is per month and the count is not (`ActiveScansBounded` states the bound that
does hold); and the replay of a scan that is not `PENDING` is completed without a
run. A row of the outbox that has failed `OUTBOX_MAX_ATTEMPTS` times is never
claimed again, and its scan stays `PENDING`. More such facts, of the other modules:

- Billing. The `UPDATE` that closes a month does not look at the status again, so
  two closings at once may both succeed; a snapshot first inserted after its month
  was closed stays `OPEN`, and a second closing is answered 409. Closing computes no
  sums, and the worker's settlements refresh none: the sums of a closed month are
  those of its last refresh. The backfill refunds a positive price although a
  reservation was never charged, where the worker's refund is 0.
- Onboarding. A failed verification sets `NEEDS_RBAC` and leaves the scopes active,
  and no function of `target-authorization.js` looks at `consent_status`. A call
  that dies after `VERIFYING` leaves the session so for ever: the expiry script
  takes `STARTED` only and the sweep no `VERIFYING` one (`SessionsSettle` excepts
  it). Overlapping verifications may leave active what either found. A row an
  operator registered becomes one of the consent when a verification finds it, and
  may be staled by a later one.
- Audit. When the modules finally throw, their signal is not aborted, so modules of
  earlier rounds run on after the audit has ended. A section without its target or
  tenant is passed over silently.
- Verdicts. A comment in `finops.js:303` says that partial failures do not ruin the
  module, but `getAnalyzedCount` knows none of its counters, so any makes it
  `FAILED`. Governance always counts its subscriptions, so a total failure to read
  is `PARTIAL`. The network interfaces of `vms.js:180`, the configurations of
  `appservices.js:110`, the machine details of `finops.js:189` and all reads of the
  directory fail without a partial error. When the members of the administrator role
  cannot be read, `checkEntraID.js:151` skips the sign-ins at risk with them. An
  encryption property that Azure does not return counts as unknown for PostgreSQL
  and as compliant for storage and disks; SQL servers are left out. Lost diagnostic
  settings report every resource as without them, a lost registration report every
  administrator as without MFA; both leave an error. WARNING checks do not count in
  a posture, and the two directory results have none.

## Proofs

All theorems are proved by `tlapm` for every value of the constants that satisfies
the named assumptions.

`ScanWorkerProofs`: `TypeCorrect`, `BillingCorrect`, `SingleAttempt`,
`TerminalRows`, `OnlyOwner`, `NothingStranded`, `Refinement` (`ScanWorker`
implements `ScanContract`). `BillingFollowsOutcome` is inductive once the invariant
says which scans have a reservation in the ledger, since `transitionBillingState`
writes nothing next to a missing one (`BillingInv`). Ownership is not inductive
alone. The invariant adds that every row of an attempt belongs to a delivery that
has happened (`RowsDelivered`), that an attempt about to begin has no row yet and
owns nothing (`FreshAttempts`), and that two slots never handle one delivery
(`OneSlotEach`): this is what makes a new attempt new. `StepShape` shows that a step
changes at most one scan, and how; the action property and the refinement follow
from it. `NothingStranded` (`NoStrandedScan`) is stated for `OperatorTools = FALSE`,
as in `worker_copies`: every copy the publisher sends has the id of its scan
(`IdsAreScans`), so a delivery that may not take over an open scan finds it
`IN_PROGRESS` under its own message id (`DeclinedIsClosed`) and abandons the message
instead of completing it; the invariant says that whoever is about to complete a
message, or has, finds the scan closed (`CompletionsClosed`), and a closed scan
stays so. With the scripts it is false: a replayed message has an id of its own, and
is completed when it meets a scan that another delivery has in progress
(`OperatorTools = TRUE` in `WorkerCopies.cfg` makes TLC show it).

`OutboxProofs`: `TypeCorrect`, `NoFalsePublication`, `ClaimsExclude`,
`AttemptsLimited`. The invariant adds that a call at `mark` holds a row that was
sent (`MarkedWasSent`), and that a row that is held and was never stale is
`PROCESSING` or `PUBLISHED` (`ClaimsSane`), so no claim takes it. `AttemptsBounded`
counts the holders of a row, each of which may still add an attempt; it is where the
set of publishers has to be finite.

`ScanRequestProofs`: `TypeCorrect`, `QuotaHolds`, `ActiveBound`, `AnswersHold`,
`OneScanPerKey`, `Refinement` (`ScanRequest` implements `Admission`). The invariant
says that a call past the lock still holds it (`LockHeld`), and that what the quota
check found holds until the commit (`Reserved`): no other call can add to that month
meanwhile, and the worker and the sweep only subtract. `LimitKept` counts the active
scans together with the calls that have passed the limit and not committed; there is
at most one such call for each month's lock, which is why the limit is passed by at
most the months that have turned. `KeyFree` says that the key of a call about to
commit is free and in no other such call, and `RowsOfAnswered` that a scan belongs
to an answered call, so each id is stored once.

`BillingProofs`: `TypeCorrect`, `SettledOnceHolds`, `OverlapHolds`, `OverviewHolds`,
`ClosedHolds`. The invariant says of each call what it may rely on (`CallOK`): the
entries it will add are not in the ledger, what it has summed has every entry that
was committed as it began (`floor`) and none that is neither committed nor its own,
and a scan it settles is still reserved; and of each pair of calls that they do not
settle one scan (`Apart`), which the row lock and the second look at the row give.
Ledger entries are never removed, so what was committed stays so. For
`ClosedMonthSettles` it adds that a closed month is past (`ClosedInv`), so that of
the calls that begin after the closing only a backfill can be about it.

`OnboardingProofs`: `TypeCorrect`, `FoundHolds`, `CountHolds`, `ConsumedHolds`, for
any sessions and callers and finitely many subscriptions. The invariant says that a
callback that has read `STARTED` under its lock may rely on it (`LockOf`), that a
session is `VERIFYING` until its one verification ends (`SessionOf`, `Apart`), and
that a verification that runs alone has every active row of the consent among those
it marks (`MarksOf`), since no other can write one meanwhile; overlapping ones add
what they found to `recent`.

`AuditRunProofs`: `TypeCorrect`, `OutcomeAccounted`, `ResultStands`,
`NoLateAttempt`, for any number of checks, modules and retries. The invariant says
that every section the audit has passed is stored (`Stored`) and its parts settled
(`PartsSettled`), that only an interrupted audit has an aborted signal
(`AbortEnds`), that an attempt that waits may be repeated (`WaitingMayRetry`), and
that rounds that were given up to the last had a module that gave up in it
(`LastRoundGaveUp`). `NextActs` reduces the actions to what they do to each
variable, once for all of these.

`ModuleAuditProofs`: `TypeCorrect`, `UnreadHolds`, `WorseHolds`, `PassHolds`,
`AlarmHolds`, and `PostureMonotone`, `RollupIsWorst` and `KpiMonotone` on the
functions of `status-semantics.js` and `kpi-engine.js`, for any estate, any number
of subscriptions and rows and any caps. Rows are kept in order (`RowsInOrder`: what
was taken is a prefix), so a query that ends as complete has taken them all; then
`PassMeansNoError` shows, scanner by scanner, that a recorded error excludes PASS. A
verdict that is not an exception is the one computed from reads that do not change
any more (`Decided`), which lets `WorseHolds` compare it with the posture after one
more finding or error.

`PassHolds` (`PassIsEarned`) and `AlarmHolds` (`AlarmIsReal`) tie that verdict to
the estate, and rest on what each scanner makes of a resource, proved listing by
listing. `DefectIsFound`: all the properties of a defect being bad, in the forms the
scanner compares with, puts the resource on a list with a FAILED check. So a posture
of PASS, which by `PassMeansNoError` leaves no error and by `PassMeansNoCheck` no
failed check, leaves no resource that was read with a defect; `UnreadNeverPasses`
says that all were read, and `DefectsAreFields` that what was read are the facts,
unless a swallowed request hid them. The two exceptions are part of the property: a
flaw is found unless the request that reads it was swallowed (`Hidden`) or a
property of it is `unlisted` (`Unrecognized`). Without them it is `PassedTextsHold`,
which `verdict_forms` violates. The two directory modules have no posture, so
`UnreadNeverPasses` and `PassIsEarned` say nothing of them. `ScannersProofs` has the
other half, `GoodFindsNothing`: a resource with nothing wrong is on no list, so a
flawless estate wholly read has no finding, and no KPI alerts on none, since every
coverage threshold is at most 100 % and every risk threshold at least one
(`KpisBounded`). It also turns the tables of `Scanners`, which are CASE expressions,
into the equalities these proofs use.

Every safety property of a passing run is a theorem. Only model-checked: the
liveness properties under fairness (`PublishedScanEnds`, `SentOrExhausted`,
`RequestAnswered`, `SessionsSettle`, `AuditEnds`), which are out of the prover's
reach, and the three expected violations.

## Not modelled, and the plan

Not modelled:

- the connection pool and the tenant context of a pooled connection
  (`db-context.js`, row security): what a released connection carries over is inside
  `node-postgres`;
- the network guard and the web checks (ranges of addresses, answers of one host):
  pure functions and I/O;
- authentication, the signing of the onboarding state, the single sign-on request: a
  check of one request;
- texts, scores, details and evidence of findings, the scorecard, result sanitizing,
  storage and PDF reports;
- prices, rounding and manual adjustments of billing; the periods and the dry run of
  retention;
- the resource preflight's count, which is a refusal of `ScanWorker`;
- migrations, the frontend demonstration, Terraform.

Plans of tenants do not change in `ScanRequest`. The `scan_blocked_quota` ledger
entry is rolled back by the exception that follows it
(`billing-service.js:133-135`), so it never exists. Several onboarding sessions and
several modules of one scan are not composed: they share no state but the rows
`Onboarding` has and the result `AuditRun` has.

Next, in this order:

1. The pool: connections, transactions and tenant context, with the clients that
   `outbox-service.js:120` releases.
2. The decision order of the network guard, with answers of DNS that change between
   check and use.
