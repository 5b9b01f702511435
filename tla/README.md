# A TLA+ model of the billing-validation control plane

This directory models the part of the repository that decides who may act on a
shared test environment, and checks it: with TLC on small instances, and with
TLAPS for every value of the constants where a proof was within reach. Paths
below are relative to the repository.

## The system

The control plane runs one *billing validation attempt* after another against an
environment: a Supabase preview project and a Stripe TEST account. A workflow
run collects evidence, a second run rechecks it, and every effect it leaves
behind is accounted for before somebody else gets the environment. Runs die, are
cancelled, are rerun, and may come back late. The control store, a Postgres
database, is the only thing that all of them share.

| Component | Source | State it keeps | Operations |
|---|---|---|---|
| Attempt store | `src/attempts/store.mjs`, `postgres-store.mjs`, `prepare.mjs`, `schema.sql`, `migrations/` | tables: attempts, fixture leases, resource locks, lease history, retention reservations and receipts, Stripe intents and receipts, fixture claims, cleanup receipts; the fence sequence | `prepare`, `reconcileReservation`, `assertFence`, `beginStripeIntent`, `reconcileStripeIntent`, `handoffStripeIntentRecovery`, `fixtureMutation`, `fixtureMutationWithReservation`, `renew`, `transition`, `resumeRecheck`, `cleanup` |
| Transaction locking | `store.mjs` over `postgres-store.mjs` | advisory locks of open transactions | the lock order of each operation |
| Lease renewal, external fencing | `src/attempts/lock.mjs` | three timers, a local deadline, a request in the air | `withRenewingLease`, `withStripeIntent`, `withExternalFence` |
| Control-store bootstrap | `src/attempts/migrations.mjs`, `control-store-*.mjs`, `runtime-privileges.mjs` | migration ledger, roles and grants | apply, verify |
| Stripe mutations | `src/billing/contracts.mjs`, `src/runtime/stripe.mjs` | none of its own; intents in the store | `mutateProvider`, `runStripeMutation`, `reconcileStripeIntent` |
| Fixture publication | `src/billing/fixture-run.mjs`, `fixtures.mjs` | the published set, the latch of an unresolved mutation | `publish` |
| Cleanup | `src/billing/cleanup.mjs` | none of its own | list, mutate through intents, observe again, release |
| Billing scenarios, observations, witnesses, 3DS | `src/billing/*.mjs` | the evidence of one case | `runThreeDsCase`: observe, ask, observe again, judge |
| Authorization | `src/authorization/*.mjs`, `src/github/candidate*.mjs`, `authorize-local-collector.yml` | a one-use challenge with a life; the candidate, its CI and main at GitHub | create, dispatch, emit, attest, verify, consume |
| Operator transport | `src/operator/*.mjs` | one active request with nonce and timer, issued capabilities | `issue`, `acceptSignal`, `verify`, `close`; `runCollect` |
| Runner supervisor | `runner/supervisor-internal.mjs`, `activation*.mjs`, `process-boundary.mjs` | latches for the display and for failed teardown, containers, timers | `runSupervisedRunner`: activate, set up, wait, tear down |
| Egress proxy | `runner/egress-proxy.mjs` | tunnels | connect, close |
| Readers of GitHub, Vercel, Supabase | `src/github/*.mjs`, `src/runtime/*.mjs` | none | read and validate |
| Evidence, results, workflows | `src/contracts/*.mjs`, `runner/billing-result-*.mjs`, `.github/workflows/` | none | validate, sign, verify |

They interact in three ways. *Through the store:* the collector prepares an
attempt, keeps its lease alive with `withRenewingLease`, wraps each Stripe call
in an intent and each fixture write in a claim, and hands the attempt to the
recheck run by moving it to `collected`. The recheck run gets a fence of its own
with `resumeRecheck`. When a run dies with a Stripe call whose outcome is
unknown, a recovery run gets a read-only fence with
`handoffStripeIntentRecovery`. Cleanup, or a takeover by the next `prepare`, ends
the attempt. *Through people:* an operator dispatches workflows with what a
challenge presents, selects runs, clicks buttons of the collector's panel and
resends webhooks by hand, late, twice or wrongly. *Through systems that go on
moving:* GitHub, Stripe, the application's database and the Docker daemon are
read and written one request at a time.

What is hard here: an expired lease does not mean a dead run; a call may arrive
long after its run lost the environment; an attempt holds two resources and may
lose one of them; a provider call may have happened without anyone knowing; the
clock is read before locks are waited for; operations take up to a dozen locks; no
observation of another system is atomic; a killed command may still be carried
out; the operator answers a question that has been given up.
`PROJECT.json` lists each hazard at the line where it bites.

What makes each component correct, in a sentence each: the store, that two live
owners never share a resource and that superseded owners, unresolved effects and
read-only fences stay what they are; the locking, that operations are as good as
atomic and do not stop each other; renewal, that work never outlasts its lease;
the transport, that a signal resolves only the request it is meant for, and a
capability is good once; the supervisor, that everything set up is torn down and
a failed teardown stops later runs; fixture publication and cleanup, that an
effect of unknown fate stops everything that would build on it; authorization,
that a challenge is consumed once, alive and for its own context.

## The modules

### AttemptStore

One variable per table, one action per operation, the whole transaction in one
step. `Fenced(a, f)` is `assertFencedOwner`: the lease row of the attempt's key
carries the attempt and the fence, is live by the database clock, and both lock
rows agree with it on attempt, fence, expiry and owner run. `Prepare` is the
admission of a new attempt id, fresh or as a takeover: capacity
(`retentionCapacity`), agreement of every expired row in the way
(`PriorRowsAgree`), and for each prior owner `GivesWay`: no intent in flight, run
over, reservation settled. `PrepareReplay` is `prepare` of a known id.
`Reassign` is what `resumeRecheck` and `handoffStripeIntentRecovery` share: a new
fence, owner run and expiry in the lease and in both locks.

Three things surround the store. `Tick` is the database clock, `RunEnds` makes
a run terminal with its runner removed, and any fence granted so far may be
presented at any moment by anybody. `prepare` reads the clock before it waits for
locks, so its `now` may be up to `MaxLockWait` old when it commits; the other
operations read it under their locks.

What is abstracted:

- A refusal is no step: the code throws, the transaction rolls back.
- `verifyRecovery` and its relatives, which ask GitHub whether a run is terminal
  and its runner gone, are external and answer truthfully (`run \in ended`). That
  a takeover's hook also reports `cleanupComplete` is part of that answer.
- Evidence artifacts, resource ids, digests, deployment identity and the
  candidate sha are compared by the code for equality with what the attempt was
  admitted with. No property tells their values apart and they are left out;
  the workflow run, environment and key, which are also compared, are kept.
- `fixture_lease_history` keeps the rows that grant a fence. The rows of renewals
  and releases are written and never read by an operation.
- `fixtureWrites` and `told` are not tables: they record who wrote fixtures under
  which fence and which run was answered with which, so that properties can
  speak of them.

### FencedHold

The abstract specification of the attempt store: what it promises about the
resources, without lease rows, lock rows, clocks and quotas. An attempt is admitted
to all it needs at once, and once; it acts only under the fence it was last granted;
its hold is handed over, or ended by whoever is admitted next, only when its run is
over, and ended only with no operation in doubt; who is in the way of an admission
loses its hold as a whole. AttemptStore implements it under the mapping `Hold`:

| FencedHold | AttemptStore |
|---|---|
| `hold[a]` | `HoldOf(a)`: fence and run of the lease row, while the lease row and both locks are the attempt's; `None` as soon as one of the three is not |
| `issued` | `fenceSeq` |
| `needs[a]` | the project and the account of the attempt's row |
| `pending[a]` | the operations with an intent and no receipt |
| `acts` | attempt and fence of every intent, receipt, claim, fixture write and cleanup |
| `Admit`, `HandOver`, `LetGo` | `Prepare`, `Reassign` (both handoffs), `Cleanup` |
| `Begin`, `Resolve`, `Act` | `BeginStripeIntent`, `ReconcileStripeIntent`, the two fixture mutations |

Renewals, transitions, settlements, replays and the clock keep its state: an expiry
ends no hold. What the mapping hides is where the work is. A takeover of one of an
attempt's two resources leaves its lease row behind, and a takeover under the same
key can meet a lease row whose locks are gone; in both the abstract hold has to come
out right.

### StoreLocking

What stands behind the atomic steps. Each transaction runs the lock program of
its operation, one advisory lock at a time in the order of the code, may wait, be
refused between any two locks, be picked as a deadlock victim, or commit. Only
the owners of lock rows and the set of admitted attempts are kept of the data,
since they decide which locks a takeover takes. `renew` stands for every
operation with the same locks (`assertFence`, `fixtureMutation`, the reads), and
`transition` for `resumeRecheck`. `DeadlockVictim` finds its cycle by the
transitive closure of who waits for whom; `EveryDeadlockHasPrepare` says the same
by sets, since a set each of whose members waits for another of them contains a
cycle, and every cycle is one (`Circle`).

### RenewingLease

`withRenewingLease`: the confirmation of the fence, the local deadline, the
renewal timer, the race of a renewal with its own timeout, the abort, the
`finally` that clears the timers. Times are what is left of them. The store is
seen from outside: a request is served at any moment or never (`FallsSilent`),
its answer is taken up at any later moment, and once the lease has run out
somebody else may be granted the resources (`TakenOver`). Timers fire up to
`MaxLag` late. An earlier change of owner, `resumeRecheck` or a recovery handoff,
needs a run that is over, so it cannot meet supervised work. The tolerance of one
millisecond in `setDeadline`, there for floating-point, is dropped. Between
`fail` and the `finally` block lie only microtasks, so they are one step.

### RunnerSupervisor

A call is a sequence of stages, `Activation \o Building \o Teardown`, one per
external command or callback of `runSupervisedRunner`, in the order of the code.
`DockerStep` sends a command, has the daemon carry it out (`Execute`) and checks
what the code inspects (`Verified`). A command whose CLI was killed by an abort or
a timeout (`CliKilled`), or by the death of the supervisor (`Crash`), stays with
the daemon, which may carry it out at any later time (`DaemonCatchesUp`).
`proc.active` and `proc.unverified` are the module variables `activeDisplay` and
`cleanupUnverified`, lost with the process. Teardown lists and removes containers
and networks, stops the display and latches if anything failed; timers are not
armed any more there. The operator may select any run; what a run attests is the
challenge it was dispatched with (`Dispatched`). Labels, image digests, mounts
and container policy are compared for equality with constants and left out.

### LocalAuthorization

The station's challenge, the hosted run of `authorize-local-collector.yml`
(`HostedScript`) and the station's verification (`VerifyScript`), each a sequence
of single reads of a GitHub that moves: main, the pull request's head and base,
CI attempts, reruns of the workflow. `attested` is what the attestation service
has signed. `clock` is true and monotonic time; the station's wall clock may be
set off by an element of `Drifts` at any time, and the code uses each where the
model does. An abort or the deadline rejects the caller of
`verifyLocalAuthorization`; the work behind it goes on until it next asks
(`Fresh`). `held` and `atGh` record what was true at the moment of a read.

### OperatorTransport and ThreeDsCollection

OperatorTransport is one request at a time: `Issue`, the page that shows it, the
operator's `Click`, the signal on the wire, `AcceptSignal`, timeout, failing
publication, disconnection and `Close`. The number of a request stands for its
nonce. `clicked` keeps which buttons were pressed while the request was active.

ThreeDsCollection extends it with one run of `runCollect` and `runThreeDsCase`.
`Script[case]` lists the stages; an observation is several stages with a set of
reads each, taken in any order (`Promise.all`). A refusal ends the collection,
except inside the two `try` blocks (`Refused`). Amounts, ids, areas and sanitising
are left out: `OneEffect` stands for one matching settlement with exactly the
expected grants.

`world` is Stripe and the application: paid or not, deliveries not yet answered,
receipts, the inbox row, the effects. What arrived (`Deliver`) the application
settles (`Settle`), marks in its inbox (`MarkInbox`) and answers (`Acknowledge`)
in steps of their own, in any order, not at all, or twice; nobody knows that
application, so none of it is promised. One thing is: an inbox row once marked
processed stays so, though it may be dated anew.

Two clocks are involved. `now` is the database's, which dates receipts, processing
and snapshots. The checkpoint of a resend is the controller's `Date.now()`
(`financial.mjs:167`), and is compared as it stands with the dates of new receipts
(`financial.mjs:216`, `319`) and of the processing (`131`). `Checkpoint` takes it as
`now - lag`, with any `lag` up to `MaxLag` behind or ahead. No property rests on the
other comparisons of dates, that nothing precedes the attempt or follows the
observation: they only refuse, as any read may, and are left out. What follows:

- With the controller's clock behind (`lag > 0`) a Stripe retry from before the
  confirmation counts as fresh, though the comment above the line
  (`financial.mjs:164-166`) says that starting the clock there prevents it.
  `PassedReplayIsFresh` and the corresponding part of `PassedDelayedWasDelayed`
  speak of `lag <= 0` only; for `lag = 1` TLC finds the stale receipt that passes.
- The effects are read before the operator is asked and after he confirmed, not at
  the checkpoint. An application that settles early and marks the row only when the
  resend arrives passes the delayed case. The property claims what the code
  establishes: no effect was read before, one in the end, and receipt and processing
  came after the checkpoint.

### FixturePublication, ProviderCleanup and IntentLog

FixturePublication is `openCase` and `publish`: the latch, the claim, the insert, the
commit, the read-back, and a collector that restarts with a fresh namespace and no
latch, so that only the claim in the store is left. It has one `publish` at a time,
as every caller has.

Claim and row are in two projects (`postgres-store.mjs:724` demands it). The row is
inserted by the publisher while the control store's transaction with the claim is open
(`store.mjs:714-766`), and each can be there without the other: the transaction
commits even if the insert failed, and after an insert the connection may break
(`ConnectionLost`), the COMMIT may fail or its answer get lost (`CommitFixture`), or the
collector may die (`Restart`, anywhere). `sent` are the inserts that reached the
application's project: the row is there or may come, claimed or not.

`UnconfirmedRowEndsCase` therefore says two things of a row that nobody confirmed: its
process publishes nothing after it, whatever became of the transaction; and if its
claim was committed nobody does. It does not say the latter of a row whose claim
was rolled back, because there the code has nothing left to go by: a collector
started afterwards finds no claim, draws a new namespace and publishes again, and
`fixtureRowsUsed` does not count the row that remains. What the repository sets against
it are the flags an injected adapter asserts of itself, `transactionalFence` and
`transactionalReservation` (`supabase.mjs:180-187`); the publisher is handed a frozen
attestation, not the transaction, so a flag is all there is, and the model trusts none.

ProviderCleanup extends it with the provider's side of the same attempt:
`mutateProvider`, `runStripeMutation`, `withStripeIntent` and
`reconcileStripeIntent` step by step, called by `replayCheckoutRequest` while
collecting and by `cleanupOwnedResources` for each open resource. `stripe.flying`
are mutations whose call failed and that Stripe may yet carry out. Of the store it
keeps what these calls see: the fence (`held`, `recovery` or `lost`), the state,
the intents, the release; AttemptStore is where those are modelled in full.

IntentLog is the abstract specification: operations are logged before they have an
effect, once, settled only when the effect is there, and the log is closed when
all is settled, after which nothing has an effect. ProviderCleanup implements it
under the mapping `Log`: logged are the operations with an intent, effected those
Stripe carried out, settled the reconciled ones, closed a released lease.

## Runs

| Run | Configuration | What it checks |
|---|---|---|
| `takeover` | 2 attempts, 1 key, 2 accounts, 2 runs, 1 Stripe operation | `TypeOK`, `UnresolvedIntentKeepsOwnership`, `CleanedMeansAccountedFor`, `ImplementsFencedHold` |
| `shared_account` | 3 attempts, 2 projects on one Stripe account | `SharedResourceExclusion`, `SupersededAttemptFrozen` |
| `recovery` | 1 attempt, 2 runs and a rerun of the first, Stripe and fixtures | `RecoveryFenceNeverWrites`, `ClaimsCarryAdmissionFence`, `FenceToldOnlyToGrantee` |
| `retention` | 3 attempts one after another, two policies, two usages, failing writers | `CapacityWithinQuota`, `ClaimedRowsAreReserved` |
| `locking` | any 2 operations at once over crossed environments, every initial ownership | `EveryDeadlockHasPrepare`, `TakeoverExcludesPriorOwner` |
| `renewing_lease` | lease of 5, renewed every 3, timers up to 2 late | `WorkIsCovered`, `SettledCallIsQuiet`, `UncoveredWorkEnds` |
| `supervisor` | 2 calls, a run dispatched for each, 1 death of the process, 1 stranger on a network | `TypeOK`, `OneRunnerAtATime`, `OrphanRunnerLatches`, `OnlyAttestedCallsBuild`, `RunnerStartsAmongKnownPeers`, `RunnerSeesOwnDisplay`, `EveryCallEnds` |
| `authorization` | 1 challenge, 2 candidates, 1 hosted run that may be rerun, 2 verifications at once | `TypeOK`, `OneReceiptPerChallenge`, `ReceiptAtCurrentControl`, `ReceiptIsYoung`, `ReceiptForOwnDispatch`, `PrerequisitesHeldTogether`, `AbortedCallNeverConsumes` |
| `collection` | 1 collection of each of six kinds of case, 2 deliveries, clocks up to 1 apart | `TypeOK`, `SettledByOwnCause`, `AbortYieldsNoResult`, `ResultReadUnderFence`, `PassedReplayIsFresh`, `PassedDelayedWasDelayed` |
| `provider_cleanup` | 2 kinds of fixture in a project of their own, 1 restart, 2 Stripe resources, 2 cleanup calls | `TypeOK`, `UnconfirmedRowEndsCase`, `ReleasedLeavesNothing`, and the refinement `ImplementsIntentLog` |
| `cleaned_capacity` | 1 attempt | violated: `CleanedCapacityReleasable` |
| `orphaned_intents` | 1 attempt, 1 Stripe operation | violated: `OrphanedIntentsCanBeHandedOff` |

Each property has a mutant in `PROJECT.json`: a plausible slip in the code under
which TLC finds the property violated.

### Bounds

- `MaxClock = 2` with leases of length 1: a lease runs out, and what follows it
  runs out or is renewed. Expiry is compared with the clock only, so longer
  leases add no new order of events.
- `MaxFence` is 3 or 4: an admission, a change of owner and one more. The store
  never compares fences by order, only for equality. `fixture_lease_fence_seq`
  itself ends at 2^48-1 with a refusal, which is what `MaxFence` does.
- `MaxLockWait = 1` lets a lease expire, or be renewed, between the clock reading
  of `prepare` and its commit. It is 0 where time is not the question.
- Two transactions in `locking`. Deadlocks of two are found; that no larger circle
  does without a `prepare` is left to the proof. The four attempts are chosen so
  that each new one meets both admitted ones.
- Symmetry: attempts; runs where no rerun is among them; accounts; projects with a
  key each. No liveness is checked under symmetry.
- `MaxAge` in RenewingLease caps the age of a request and the time since expiry at
  a length no timer can reach.

- `supervisor`: the challenge lives 1 tick, the timeout is 2, so either timer can be
  the one that ends a call. Two calls suffice for what one leaves to the next; one
  death lets the second call begin in a new process.
- `authorization`: `MaxMoves = 2` lets a base or an attempt move between two reads
  and back between the next two; `TTL = 1` tick puts every step before or after
  the expiry; a drift of -1 makes the wall clock run behind by one lifetime. The
  tolerated minute (`Skew`) is 0, small beside the lifetime.
- `collection`: `MaxSignals = 1` is the number of signals on the wire, enough for one
  of a request that was given up to arrive while the next is active; the theorem
  `OwnCause` covers any number. `MaxDeliveries = 2`: a first delivery and a retry or
  resend. One tick of time orders a receipt before, in or after the checkpoint's
  millisecond, and `MaxLag = 1` moves the checkpoint by that much either way.
- `provider_cleanup`: two resources, so that a cleanup can stop between two
  mutations; a second call meets what the first one left.

Deadlock is checked in `renewing_lease` only. The other runs stop when the clock,
the fences or another bound has run out, and when all transactions, calls or the
collection have ended.

### Fairness

Two modules assume any. RenewingLease: time passes, and a timer that is due fires
(`WF` of `Tick` and of `Timers`). Node's event loop promises both. Nothing is
assumed of the store, the network or the work, which is the point of
`UncoveredWorkEnds`. The call that waits for `assertFence` before the work has no
timeout, and the property does not speak of it.

RunnerSupervisor: time passes, a timer fires, an abort that was signalled makes
the step it meets fail, teardown steps end (each is a command with a timeout of
its own in `process-boundary.mjs`), and the two steps that are not given the
signal, the display's start and the registration token, return. The first comes
back once the process is spawned. The second is the caller's callback and the code
does not bound it: `EveryCallEnds` holds for a callback that answers or fails, and
not otherwise. Nothing is assumed of the operator, the runner or the daemon.

The other modules make no fairness assumption and state no liveness: callers,
operators and providers may stop for ever.

### What the code does and the documents do not say

`cleaned_capacity`: `cleanup` deletes the lease row; `reconcileReservation`
demands it. An attempt that is cleaned up before it is settled holds its reserved
capacity for good. The collector's specification has a cleanup persist the
receipt and only then release lease and reservation.

`orphaned_intents`: a run that dies in `collecting` with an intent in flight
leaves an attempt that no operation accepts any more: its lease has expired, so it
cannot be cancelled; the handoff wants a terminal state; takeover and recheck
refuse unresolved intents. The plan promises a handoff for orphaned intents after
the prior run is terminal, with no condition on the attempt's state.

Behaviours that are in the models, or were met on the way, and that no property
judges:

- After a recheck run moves its attempt to `complete`, its fence may write again (a
  design document says so). A takeover under another key leaves the old key's
  expired lease row behind, and that key then refuses admissions.
- The timer of the activation challenge is not cleared when the challenge is
  consumed, so no runner lives longer than 20 minutes after its call began,
  whatever `timeoutMs` says.
- A `docker create` whose CLI was killed may be carried out after the teardown has
  listed the resources. The leftover does not latch the supervisor; it is not
  running, and the stale resource check of the next call finds it.
- The acceptance of a signal clears whatever the operator's page shows, also the
  next request, which can then only time out.
- The replay case compares the database before and after the resend only. A
  delivery applied twice before the first of the two reads passes.
- The resend's clock starts when the operator has confirmed. An operator who
  resends and then confirms has the receipt counted as too early, unless the
  controller's clock is behind the database's, when Stripe's own retries count too.
- A fixture row whose claim was rolled back stands in the way of nothing: see
  FixturePublication.
- Two `publish` calls of one case at once would share one latch.
- Under a recovery fence `cleanupOwnedResources` cannot complete: it may begin no
  intent and run no fixtures transaction. An operation with an intent, even a
  reconciled one, cannot be begun again.
- A resource or row that appears after the last look of a cleanup is left behind,
  and the synthetic fixture rows are in none of the tables it looks at.
- `cleanupOwnedResources` asks for a terminal state only at the end, in
  `store.cleanup`, after it has mutated the resources. It always returns
  `fixtureReusable` and `databaseBaselineRestored` as false.
- `observeFinancialEvidence` calls `readWebhookInbox` and `readWebhookReceipts` with
  an event id where the Supabase reader demands a bound record, and the expired
  checkout case retrieves a type the Stripe reader does not know. The tests inject
  readers of the other signature.
- `renderControlStoreMigrationBundle` sets the role of the owner whose grant the
  bootstrap has revoked; somebody has to grant it again in between.

## Proofs

Every invariant and action property of the passing runs, and both refinements, is a
theorem: it holds for all sets of attempts, keys, environments, runs, calls,
transactions and resources, all quotas, durations and bounds. The proofs assume
what the modules name: numbers are natural and durations positive
(`NumericAssumption`, `RenewalAssumption`, `TransportAssumption` and the like);
projects are not accounts, every key has a project (`ResourceAssumption`); a
usage counts one attempt (`UsageAssumption`); the absent row is no row
(`NoneAssumption`); a lock on a resource is named by its type and id, so
accounts and projects differ (`ResourceAssumption` of StoreLocking); calls,
fixture kinds and owned resources are finitely many; a dispatched run serves one
call (`SupervisorAssumption`). TLC evaluates each of them in the runs.

**AttemptStoreProofs.** `TypeCorrect`; the inductive invariant `Ownership`; and
`Exclusion`: live leases never share a resource. Exclusion is not inductive: it
rests on the lock table, so `Ownership` adds that a live lease holds both of its
locks with its own fence and expiry (`LiveLeaseHoldsLocks`), that leases, locks and
history refer to admitted attempts (`References`), that a lock carries the latest
grant of its resource (`LockCarriesLatestGrant`), and that an attempt displaced
from a resource is cleaned up (`DisplacedIsCleaned`). A renewal or handoff of one
attempt cannot touch another's locks, because it is only granted to the owner of
both. From it follow `OwnershipMoves` and `Fencing`, nothing is recorded for a
superseded attempt: such an attempt does not own one of its locks, so no fenced
operation accepts it, and takeovers that would rewrite its row find it cleaned
up. `FenceTold` and `ClaimFences` need that a lease carries a fence the history
granted to its attempt and owner run (`LeasesGranted`), by the event its row says.

`ExclusiveHold` is the refinement of FencedHold, one lemma per kind of step. Rewriting
or dropping the rows of an owner changes no other hold (`OtherHoldsStay`): another
attempt under the same key does not own the lease row, and one that shares a resource
does not own that lock. `HoldAdmits` is the step of `prepare`: whoever holds a resource
it wants is a prior owner and gave way, and loses its hold with the lock; whoever has
the wanted key without sharing a resource had no hold before, since one of the wanted
locks carries its lease (`PriorRowsAgree`) and would be one it needs (`References`). A
receipt always answers an intent (`ReceiptsAnswerIntents`), so an operation just begun
is in doubt. `OwnershipMoves` says the same of single locks: a lock passes from fence
to fence only when the run that had it is over.

**AttemptStoreEffectsProofs.** `UnresolvedIntentsPin`: an unresolved intent keeps
its attempt in possession; the only steps that take a lock or a lease from
somebody, takeover and cleanup, ask for resolved intents first.
`CleanedAccounted`. `RecoveryReadsOnly`, by an invariant (`RecoveryMarked`) that a
lease with a recovery fence is marked `recoveryOnly`, and that fences are granted
once. `ClaimsPaid`: a claim and the rows it uses change in one step, and a claim
adds no more fixtures than rows. `QuotaKept`: the usage of a scope is a sum over its
reservations by a recursive function, about which no prover knows anything. The
section on sums proves by induction over finite sets (well-foundedness of the
strict subset order, and a smallest counterexample) that the function exists, that
its value does not depend on the order of summation (`SumSplit`), and what adding or
lowering a term does. The strengthening is that all open reservations of a scope
were admitted under one policy (`OnePolicyPerScope`), so the quota that was checked
by the newest admission is that of all.

**StoreLockingProofs.** `DeadlocksHavePrepare`: `Queued` says that a transaction
holds exactly the locks of its program up to where it is, and no lock is held
twice. Each program but that of `prepare` is `Ordered`: the attempt first, then
locks that are private to the attempt in any order, and shared ones in rising
levels (account, project, lease, retention, the rest). Whoever has a private lock
of an attempt has the attempt, so two transactions that have theirs wait for each
other only at shared locks, and whom one waits for is further up than itself
(`DepthRises`). The deepest member of a circle would contradict that.
`TakeoverExcludes`: an admission locks the row of another attempt only as the owner
of its account or project (`PrepareShape`), which it has by then; that attempt
would need the same lock. The strengthening (`Admissions`) is that lock rows are
owned by attempts that need them, and that an admission has its resources by its
position, which needs in turn that its program, which depends on rows it reads
under its locks, does not change any more once it has them (`ProgramStays`).
`ReadsStayed` is the atomicity this buys: as long as a transaction goes on, the owner
of each resource it has locked, and whether an attempt it has locked has a row, stay
what they were (`ReadsStayUntilCommit`, an action property stated with its proof), since
whoever changes either has that lock itself (`MoverHolds`). It is why AttemptStore may
read and write these two tables in one step; the other tables are taken on their
locks alone.

**RenewingLeaseProofs.** `WorkCovered`: the invariant adds that what a pending
answer promises, less the age of its request, is still left in the store.
`SettledQuiet`. Two theorems are the safety half of `UncoveredWorkEnds`. `WorkWatched`:
supervised work always has its deadline armed, and either the next renewal, at most an
interval away, or the wait for the one in the air, which is over no later than the
deadline (`Watched`). `WorkOutlastsByLag`: work is aborted at the latest `MaxLag`, the lateness of
a timer, after the end of its lease. What the prover cannot add is that time passes.

**RunnerSupervisorProofs.** `Inv` joins what the properties say with what the
daemon may still do. `OneRunner` is not inductive, since a killed command line may
start a container later: `OneHoused` says that at most one call has a runner
container or a command under way that creates one, and that none has while another
call builds, because the stale resource check sees every container and each call
leaves at most one command behind (`OneLeftOver`). `OrphanLatches` needs to know who
answers for a runner at each stage of the teardown (`Answers`); `AttestedBuilds`
that nothing of a call exists before its run was looked up and verified
(`AttestedFirst`); `OwnDisplayOnly` that the display was probed before the runner
and is bound as long as its call is active; `KnownPeers` that a stranger from before
the last look stops the call there.

**LocalAuthorizationProofs.** GitHub, the attestations and the consumption of
challenges only grow (`Grows`). `VerInv` says stage by stage what a verification has
established. `CurrentControl` squeezes main and the run's attempt between the reads
before and after the attestation was verified. `PrerequisitesTogether` says of a
hosted run that, if what it read did not hold together, something has moved since,
which the second read must see. `AtMostOneReceipt` is that consumption and
settlement are one step of one verification (`OneConsumer`).

**ThreeDsCollectionProofs.** The transport's invariant: a request is active exactly
if it is the active one, and a signal on the wire for it was clicked for it
(`SignalsWereClicked`). The scripts of the cases are sequences; what the proofs need of
their order is computed once (`Ordered`). `ReadUnderFence`: a fence that is current
covers all reads so far. `SinceCheckpoint` ties what a read may show as new to what
arrived since the operator's confirmation, as long as the controller's clock is not
behind; `NoEffectRead` carries over the checkpoint that no effect was read before it;
`Judged` is what a passing judgement has established. The application's steps are free
(`WorldMoves`), so nothing in the argument depends on their order.

**ProviderCleanupProofs.** `UnconfirmedEnds`: of the rows of the running process only the
last one sent may be unconfirmed, and then the process is latched and done with it, or
reads back this very row (`UnconfirmedIsGuarded`). A later process has another
namespace, and sends only if the claim is its own or there is none yet, so no row it
sends follows a claimed one. `NothingLeft`: from the second observation on nothing is open
but what came late (`ObservedClean`). `WriteAhead`: every step of the specification is
a step of IntentLog under the mapping, or leaves the log alone; what it rests on is
that whatever Stripe did or may do has its intent, is not sent twice, and receipts are
for things done (`EffectsAreLogged`).

Only model-checked are `UncoveredWorkEnds` and `EveryCallEnds`, as liveness (fairness
and `ENABLED`) is beyond the prover, and the two properties of the documents that the
code violates. RECURSIVE operators are not used, and the closure in `DeadlockVictim` is
not reasoned about: no proof depends on who is chosen as a victim.

## Not modelled, and the plan

`PROJECT.json` says for each component whether it is modelled and why not.

- *Bootstrap, migrations and privileges*: rendering of pinned SQL that an operator
  executes in one transaction, and catalogue queries that verify the result.
- *HTTP clients and readers* of Stripe, Supabase, Vercel and GitHub: requests and
  validation of answers. Where a module reads through them, the read is one step
  that may fail.
- *Evidence, dispatch and result contracts, recheck snapshots*: stateless
  validation, canonical serialisation and signatures of an external tool.
- *The egress proxy*: each connection is resolved, compared with a constant
  allowlist and connected, and shares nothing with another.
- *The scenarios of the 43 cases* other than 3-D Secure: stubs that refuse.
  `reconcileFinancialCase` and `collectCiEvidence` are called by tests only.
- `withExternalFence`: a check of the fence before a callback.
- `validate-billing.yml`: a job graph whose last jobs are stubs that fail.

What comes next: in RunnerSupervisor, the safety half of `EveryCallEnds`, that a call
never goes back a stage and that each stage is bounded by a timer or by a command
with a timeout of its own; in StoreLocking, the contents of the other tables under
their locks, as `ReadsStayUntilCommit` has it for the owners and the rows.
