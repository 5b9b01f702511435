---------------------------- MODULE AttemptStore ----------------------------
(***************************************************************************)
(* The attempt store of the billing-validation control plane               *)
(* (src/attempts/store.mjs over src/attempts/postgres-store.mjs).          *)
(*                                                                         *)
(* An attempt is one collection run against an environment: a Supabase     *)
(* project and a Stripe TEST account.  Admission (prepare) reserves        *)
(* retention capacity, takes the lease of a fixture key and one lock per   *)
(* shared resource, all under one fence drawn from a sequence.  Every      *)
(* later operation presents its attempt and its fence and is refused       *)
(* unless the lease and both locks still carry that fence.                 *)
(*                                                                         *)
(* Each operation is one database transaction whose advisory locks (the    *)
(* attempt, both resources, the key) are held until commit, so it is one   *)
(* atomic action here; a refusal rolls back and is no step.  Callers are   *)
(* not trusted with time: any fence granted so far may be presented at any *)
(* moment, by a live run or by a delayed call of a run that ended.         *)
(***************************************************************************)
EXTENDS Integers, FiniteSets, FiniteSetsExt

CONSTANTS
    Attempts,     \* attempt ids
    Keys,         \* fixture keys (projectRef, suite, fixtureKey)
    Projects,     \* Supabase project refs
    Accounts,     \* Stripe account ids
    KeyProject,   \* the projectRef of each key
    Runs,         \* attempts of workflow runs (runId, runAttempt)
    RunId,        \* the runId of each
    Operations,   \* Stripe operation names
    Cases,        \* billing case ids
    Namespaces,   \* fixture namespaces
    FixtureIds,   \* fixture ids
    Policies,     \* quota limits a caller may present
    Usages,       \* usage vectors a caller may project or retain
    TTLs,         \* lease durations a caller may ask for
    MaxLockWait,  \* how old the clock reading of prepare may be at commit
    MaxClock,     \* bound on the database clock
    MaxFence,     \* last value of the fence sequence
    None          \* the absent row

QuotaKeys == {"attempts", "databaseRows", "authUsers", "stripeObjects"}

FixtureKinds == {"catalog", "billing_identity"}

WriterOutcomes == {"written", "failed"}

ASSUME NumericAssumption ==
    /\ MaxLockWait \in Nat /\ MaxClock \in Nat /\ MaxFence \in Nat
    /\ TTLs \subseteq Nat \ {0}

ASSUME ResourceAssumption ==
    /\ Projects \cap Accounts = {}
    /\ KeyProject \in [Keys -> Projects]

(* validateRetentionConfiguration: every quota is at least 1, every usage   *)
(* counts exactly one attempt.                                              *)
ASSUME UsageAssumption ==
    /\ Policies \subseteq [QuotaKeys -> Nat \ {0}]
    /\ Usages \subseteq [QuotaKeys -> Nat]
    /\ \A u \in Usages : u["attempts"] = 1

VARIABLES
    clock,           \* the database clock, clock_timestamp()
    fenceSeq,        \* fixture_lease_fence_seq
    row,             \* attempts
    lease,           \* standalone_fixture_leases
    lock,            \* standalone_resource_locks
    history,         \* fixture_lease_history, the rows that grant a fence
    reservation,     \* retention_reservations and the rows used of each
    receipt,         \* retention_receipts
    intents,         \* stripe_intents
    stripeReceipts,  \* stripe_receipts
    caseClaims,      \* fixture_case_claims
    fixtureClaims,   \* fixture_resource_claims
    cleanupReceipts, \* cleanup_receipts
    fixtureWrites,   \* who has written fixtures, under which fence
    told,            \* which run was answered with which fence
    ended            \* runs that are terminal with their runner removed

ownership == <<fenceSeq, row, lease, lock, history, told>>
ledger == <<reservation, receipt>>
effects == <<intents, stripeReceipts, caseClaims, fixtureClaims, fixtureWrites>>
vars == <<clock, ownership, ledger, effects, cleanupReceipts, ended>>

Resources == Projects \cup Accounts
Environments == [project : Projects, account : Accounts]
Terminal == {"complete", "cancelled", "timed_out"}
States == {"collecting", "collected", "rechecking"} \cup Terminal
Grants == {"acquired", "takeover", "recheck_handoff", "recovery_handoff"}

Row == [key : Keys, environment : Environments, workflow : Runs, state : States,
        cleanupStatus : {"pending", "complete"}]
Lease == [attempt : Attempts, fence : Nat, expiresAt : Nat, run : Runs,
          recoveryOnly : BOOLEAN]
Lock == [attempt : Attempts, fence : Nat, expiresAt : Nat, run : Runs]
Event == [attempt : Attempts, fence : Nat, run : Runs,
          event : Grants]
Reservation == [quotas : Policies, projection : Usages, rowsUsed : Nat]
Receipt == [fence : Nat, retained : Usages]

ASSUME NoneAssumption ==
    /\ None \notin Row /\ None \notin Lease /\ None \notin Lock
    /\ None \notin Reservation /\ None \notin Receipt
    /\ None \notin [fence : Nat, run : Runs]

(***************************************************************************)
(* Reading the store                                                       *)
(***************************************************************************)

\* The two rows of the lock table an environment needs (resourceKeys).
ResourceKeys(env) == {env.project, env.account}

\* The lease row of the attempt's key, whoever owns it.
LeaseOf(a) == lease[row[a].key]

OwnsLease(a) == row[a] # None /\ LeaseOf(a) # None /\ LeaseOf(a).attempt = a

\* Mutant: looks at the Supabase lock and forgets the Stripe one.
ProjectOwnerOnly(a) ==
    lock[row[a].environment.project] =
        [attempt |-> a, fence |-> LeaseOf(a).fence,
         expiresAt |-> LeaseOf(a).expiresAt, run |-> LeaseOf(a).run]

\* assertResourceOwner: both locks carry the attempt and agree with the lease
\* on fence, expiry and owner run.
ResourceOwner(a) ==
    \A r \in ResourceKeys(row[a].environment) :
        lock[r] = [attempt |-> a, fence |-> LeaseOf(a).fence,
                   expiresAt |-> LeaseOf(a).expiresAt, run |-> LeaseOf(a).run]

\* assertFencedOwner: the fence presented is the lease's, the lease is live and
\* the attempt still owns both resources.
Fenced(a, f) ==
    /\ OwnsLease(a)
    /\ LeaseOf(a).fence = f
    /\ LeaseOf(a).expiresAt > clock
    /\ ResourceOwner(a)

\* hasInFlightStripeIntent: an intent without a receipt.
Resolved(i) ==
    \E s \in stripeReceipts : s.attempt = i.attempt /\ s.operation = i.operation

InFlight(a) == \E i \in intents : i.attempt = a /\ ~Resolved(i)

\* getRetentionUsage: a settled attempt counts what it retained, an unsettled
\* one what it projected, within one (project, account) scope.
InScope(env) == {a \in Attempts : reservation[a] # None /\ row[a].environment = env}

Usage(a, q) ==
    IF receipt[a] # None THEN receipt[a].retained[q] ELSE reservation[a].projection[q]

Used(env, q) == MapThenSumSet(LAMBDA a : Usage(a, q), InScope(env))

\* Mutant: an unsettled reservation holds no capacity.
HasCapacityCommitted(env, quotas, projection) ==
    /\ \A a \in InScope(env) : reservation[a].quotas = quotas
    /\ \A q \in QuotaKeys :
          MapThenSumSet(LAMBDA a : Usage(a, q), {a \in InScope(env) : receipt[a] # None})
              + projection[q] <= quotas[q]

\* retentionCapacity: one policy per scope, and room for the projection.
HasCapacity(env, quotas, projection) ==
    /\ \A a \in InScope(env) : reservation[a].quotas = quotas
    /\ \A q \in QuotaKeys : Used(env, q) + projection[q] <= quotas[q]

(***************************************************************************)
(* Admission                                                               *)
(***************************************************************************)

\* The attempts whose rows stand in the way of admission to key k and env.
PriorOwners(k, env) ==
    {lock[r].attempt : r \in {x \in ResourceKeys(env) : lock[x] # None}}
        \cup (IF lease[k] # None THEN {lease[k].attempt} ELSE {})

\* An expired lock is recoverable only while its owner's lease row agrees with
\* it, and an expired lease only while one of the locks still carries it.
PriorRowsAgree(k, env, now) ==
    /\ lease[k] # None => lease[k].expiresAt <= now
    /\ \A r \in ResourceKeys(env) : lock[r] # None =>
          /\ lock[r].expiresAt <= now
          /\ OwnsLease(lock[r].attempt)
          /\ LeaseOf(lock[r].attempt).fence = lock[r].fence
          /\ LeaseOf(lock[r].attempt).expiresAt = lock[r].expiresAt
          /\ LeaseOf(lock[r].attempt).run = lock[r].run
    /\ lease[k] # None =>
          /\ row[lease[k].attempt].key = k
          /\ \E r \in ResourceKeys(env) :
                /\ lock[r] # None
                /\ lock[r].attempt = lease[k].attempt
                /\ lock[r].fence = lease[k].fence

\* Mutants: a prior owner gives way with a provider effect in the air, while its
\* run may still be alive, or with its capacity unsettled.
GivesWayInFlight(p) ==
    LeaseOf(p).run \in ended /\ reservation[p] # None /\ receipt[p] # None

GivesWayRunning(p) == ~InFlight(p) /\ reservation[p] # None /\ receipt[p] # None

GivesWayUnsettled(p) == ~InFlight(p) /\ LeaseOf(p).run \in ended

\* A prior owner gives way only when its provider effects are resolved, its run
\* is over (verifyRecovery) and its reservation is settled.
GivesWay(p) ==
    /\ ~InFlight(p)
    /\ LeaseOf(p).run \in ended
    /\ reservation[p] # None /\ receipt[p] # None

\* Mutant: the duration is taken off the clock instead of added to it.
ExpiryBefore(now, ttl) == now - ttl

ExpiryAfter(now, ttl) == now + ttl

\* The clock readings a transaction that commits now may have taken before it
\* waited for its locks.
EarlierReadings == {n \in 0 .. clock : n + MaxLockWait >= clock}

\* prepare of a new attempt id, fresh or as a takeover of expired owners.
Prepare(a, k, env, run, ttl, quotas, projection, now) ==
    LET fence == fenceSeq + 1 IN
    /\ row[a] = None
    /\ env.project = KeyProject[k]
    /\ HasCapacity(env, quotas, projection)
    /\ PriorRowsAgree(k, env, now)
    /\ \A p \in PriorOwners(k, env) : GivesWay(p)
    /\ fenceSeq < MaxFence
    /\ fenceSeq' = fence
    /\ row' = [x \in Attempts |->
          IF x = a
          THEN [key |-> k, environment |-> env, workflow |-> run, state |-> "collecting",
                cleanupStatus |-> "pending"]
          ELSE IF x \in PriorOwners(k, env)
          THEN [row[x] EXCEPT !.cleanupStatus = "complete"]
          ELSE row[x]]
    /\ lease' = [lease EXCEPT ![k] =
          [attempt |-> a, fence |-> fence, expiresAt |-> ExpiryAfter(now, ttl), run |-> run,
           recoveryOnly |-> FALSE]]
    /\ lock' = [r \in Resources |->
          IF r \in ResourceKeys(env)
          THEN [attempt |-> a, fence |-> fence, expiresAt |-> ExpiryAfter(now, ttl), run |-> run]
          ELSE lock[r]]
    /\ history' = history \cup
          {[attempt |-> a, fence |-> fence, run |-> run,
            event |-> IF lease[k] # None THEN "takeover" ELSE "acquired"]}
    /\ reservation' = [reservation EXCEPT ![a] =
          [quotas |-> quotas, projection |-> projection, rowsUsed |-> 0]]
    /\ told' = told \cup {<<run, fence>>}
    /\ UNCHANGED <<clock, receipt, effects, cleanupReceipts, ended>>

\* Mutant: answers the admitted run whoever holds the lease by now.
PrepareReplayToAnyone(a, run, quotas, projection, now) ==
    /\ row[a] # None
    /\ row[a].workflow = run
    /\ OwnsLease(a)
    /\ LeaseOf(a).expiresAt > now
    /\ ResourceOwner(a)
    /\ told' = told \cup {<<run, LeaseOf(a).fence>>}
    /\ UNCHANGED <<clock, fenceSeq, row, lease, lock, history, ledger, effects,
                   cleanupReceipts, ended>>

\* prepare of an attempt id that exists, with the identity it was admitted
\* under: a live collecting owner is answered with its fence again.
PrepareReplay(a, run, quotas, projection, now) ==
    /\ row[a] # None
    /\ row[a].workflow = run
    /\ OwnsLease(a)
    /\ LeaseOf(a).expiresAt > now
    /\ row[a].state = "collecting"
    /\ LeaseOf(a).run = run
    /\ ResourceOwner(a)
    /\ reservation[a] # None
    /\ reservation[a].quotas = quotas
    /\ reservation[a].projection = projection
    /\ receipt[a] = None
    /\ told' = told \cup {<<run, LeaseOf(a).fence>>}
    /\ UNCHANGED <<clock, fenceSeq, row, lease, lock, history, ledger, effects,
                   cleanupReceipts, ended>>

\* reconcileReservation: settles the reservation while the attempt still has
\* the lease of its key, live or expired.  The receipt carries that fence.
ReconcileReservation(a, retained) ==
    /\ reservation[a] # None
    /\ OwnsLease(a)
    /\ receipt[a] = None
    /\ \A q \in QuotaKeys : retained[q] <= reservation[a].projection[q]
    /\ \E h \in history : h.attempt = a /\ h.fence = LeaseOf(a).fence
    /\ receipt' = [receipt EXCEPT ![a] =
          [fence |-> LeaseOf(a).fence, retained |-> retained]]
    /\ UNCHANGED <<clock, ownership, reservation, effects, cleanupReceipts, ended>>

(***************************************************************************)
(* Stripe intents                                                          *)
(***************************************************************************)

\* Mutant: only the state keeps a recovery run from writing.
MayWriteByState(a) == row[a].state # "rechecking"

MayWrite(a) == row[a].state # "rechecking" /\ ~LeaseOf(a).recoveryOnly

BeginStripeIntent(a, f, op) ==
    /\ Fenced(a, f)
    /\ MayWrite(a)
    /\ \A i \in intents : ~(i.attempt = a /\ i.operation = op)
    /\ intents' = intents \cup {[attempt |-> a, operation |-> op, fence |-> f]}
    /\ UNCHANGED <<clock, ownership, ledger, stripeReceipts, caseClaims, fixtureClaims,
                   fixtureWrites, cleanupReceipts, ended>>

\* A rechecking attempt only reconciles intents begun under an earlier fence.
ReconcileStripeIntent(a, f, i) ==
    /\ Fenced(a, f)
    /\ i.attempt = a
    /\ ~(row[a].state = "rechecking" /\ i.fence = f)
    /\ ~Resolved(i)
    /\ stripeReceipts' = stripeReceipts \cup
          {[attempt |-> a, operation |-> i.operation, fence |-> f]}
    /\ UNCHANGED <<clock, ownership, ledger, intents, caseClaims, fixtureClaims,
                   fixtureWrites, cleanupReceipts, ended>>

\* Gives the attempt a new fence, owner run and expiry in its lease and in both
\* of its locks, as resumeRecheck and handoffStripeIntentRecovery do.
Reassign(a, run, ttl, recoveryOnly, event) ==
    LET fence == fenceSeq + 1 IN
    /\ fenceSeq < MaxFence
    /\ fenceSeq' = fence
    /\ lease' = [lease EXCEPT ![row[a].key] =
          [attempt |-> a, fence |-> fence, expiresAt |-> ExpiryAfter(clock, ttl), run |-> run,
           recoveryOnly |-> recoveryOnly]]
    /\ lock' = [r \in Resources |->
          IF r \in ResourceKeys(row[a].environment)
          THEN [attempt |-> a, fence |-> fence, expiresAt |-> ExpiryAfter(clock, ttl), run |-> run]
          ELSE lock[r]]
    /\ history' = history \cup
          {[attempt |-> a, fence |-> fence, run |-> run, event |-> event]}
    /\ row' = [row EXCEPT ![a].state = "rechecking"]
    /\ told' = told \cup {<<run, fence>>}
    /\ UNCHANGED <<clock, ledger, effects, cleanupReceipts, ended>>

\* The attempts whose state lets a recovery run take over their intents.
RecoverableState(a) ==
    row[a].state \in Terminal \cup {"rechecking"} /\ row[a].cleanupStatus # "complete"

HandoffStripeIntentRecovery(a, f, run, ttl) ==
    /\ row[a] # None
    /\ RecoverableState(a)
    /\ OwnsLease(a)
    /\ LeaseOf(a).fence = f
    /\ ResourceOwner(a)
    /\ InFlight(a) \/ (LeaseOf(a).recoveryOnly /\ \A c \in cleanupReceipts : c.attempt # a)
    /\ reservation[a] # None /\ receipt[a] = None
    /\ LeaseOf(a).run \in ended
    /\ run # LeaseOf(a).run
    /\ Reassign(a, run, ttl, TRUE, "recovery_handoff")

(***************************************************************************)
(* Fixtures                                                                *)
(***************************************************************************)

FixtureMutation(a, f) ==
    /\ Fenced(a, f)
    /\ MayWrite(a)
    /\ fixtureWrites' = fixtureWrites \cup {[attempt |-> a, fence |-> f]}
    /\ UNCHANGED <<clock, ownership, ledger, intents, stripeReceipts, caseClaims,
                   fixtureClaims, cleanupReceipts, ended>>

\* claimFixtureCase: the first claim of a case fixes its fence and namespace;
\* a kind is claimed once per case and a fixture id once ever.
Claimable(a, f, c, ns, kind, fixture) ==
    /\ \A x \in caseClaims : x.attempt = a /\ x.case = c => x.fence = f /\ x.namespace = ns
    /\ \A x \in fixtureClaims :
          /\ ~(x.attempt = a /\ x.case = c /\ x.kind = kind)
          /\ x.fixture # fixture

\* Mutants: claims stay open after the collection, and only the rows of the
\* request at hand are compared with the projection.
MayClaimAfterwards(a) == row[a].state # "rechecking" /\ ~LeaseOf(a).recoveryOnly

RowsAvailableEachTime(a, rows) == rows <= reservation[a].projection["databaseRows"]

MayClaim(a) == row[a].state = "collecting" /\ ~LeaseOf(a).recoveryOnly

RowsAvailable(a, rows) ==
    reservation[a].rowsUsed + rows <= reservation[a].projection["databaseRows"]

\* The claim and the rows used are committed even when the writer fails.
FixtureMutationWithReservation(a, f, rows, c, ns, kind, fixture, outcome) ==
    /\ Fenced(a, f)
    /\ MayClaim(a)
    /\ reservation[a] # None /\ receipt[a] = None
    /\ RowsAvailable(a, rows)
    /\ Claimable(a, f, c, ns, kind, fixture)
    /\ caseClaims' = caseClaims \cup
          {[attempt |-> a, case |-> c, namespace |-> ns, fence |-> f]}
    /\ fixtureClaims' = fixtureClaims \cup
          {[attempt |-> a, case |-> c, kind |-> kind, fixture |-> fixture]}
    /\ reservation' = [reservation EXCEPT ![a].rowsUsed = @ + rows]
    /\ fixtureWrites' = IF outcome = "written"
                        THEN fixtureWrites \cup {[attempt |-> a, fence |-> f]}
                        ELSE fixtureWrites
    /\ UNCHANGED <<clock, ownership, receipt, intents, stripeReceipts, cleanupReceipts, ended>>

(***************************************************************************)
(* The life of an attempt                                                  *)
(***************************************************************************)

Renew(a, f, ttl) ==
    /\ Fenced(a, f)
    /\ lease' = [lease EXCEPT ![row[a].key].expiresAt = ExpiryAfter(clock, ttl)]
    /\ lock' = [r \in Resources |->
          IF r \in ResourceKeys(row[a].environment)
          THEN [lock[r] EXCEPT !.expiresAt = ExpiryAfter(clock, ttl)]
          ELSE lock[r]]
    /\ UNCHANGED <<clock, fenceSeq, row, history, told, ledger, effects, cleanupReceipts, ended>>

transitions ==
    ({"collecting"} \X {"collected", "cancelled", "timed_out"})
        \cup ({"collected"} \X {"cancelled", "timed_out"})
        \cup ({"rechecking"} \X {"complete", "cancelled", "timed_out"})

Transition(a, f, to) ==
    /\ Fenced(a, f)
    /\ <<row[a].state, to>> \in transitions
    /\ row' = [row EXCEPT ![a].state = to]
    /\ UNCHANGED <<clock, fenceSeq, lease, lock, history, told, ledger, effects,
                   cleanupReceipts, ended>>

\* Mutant: trusts the lease row and never looks at the resource locks.
ResumeRecheckByLease(a, run, ttl) ==
    /\ row[a] # None
    /\ row[a].state = "collected"
    /\ OwnsLease(a)
    /\ ~InFlight(a)
    /\ LeaseOf(a).run \in ended
    /\ RunId[run] # RunId[row[a].workflow]
    /\ Reassign(a, run, ttl, LeaseOf(a).recoveryOnly, "recheck_handoff")

\* A rerun of the collecting run does not count as a recheck run.
ResumeRecheck(a, run, ttl) ==
    /\ row[a] # None
    /\ row[a].state = "collected"
    /\ OwnsLease(a)
    /\ ResourceOwner(a)
    /\ ~InFlight(a)
    /\ LeaseOf(a).run \in ended
    /\ RunId[run] # RunId[row[a].workflow]
    /\ Reassign(a, run, ttl, LeaseOf(a).recoveryOnly, "recheck_handoff")

Cleanup(a, f) ==
    /\ Fenced(a, f)
    /\ row[a].state \in Terminal
    /\ row[a].cleanupStatus = "pending"
    /\ ~InFlight(a)
    /\ reservation[a] # None
    /\ \A c \in cleanupReceipts : c.attempt # a
    /\ cleanupReceipts' = cleanupReceipts \cup {[attempt |-> a, fence |-> f]}
    /\ row' = [row EXCEPT ![a].cleanupStatus = "complete"]
    /\ lease' = [lease EXCEPT ![row[a].key] = None]
    /\ lock' = [r \in Resources |->
          IF r \in ResourceKeys(row[a].environment) THEN None ELSE lock[r]]
    /\ UNCHANGED <<clock, fenceSeq, history, told, ledger, effects, ended>>

(***************************************************************************)
(* The environment: runs end, time passes.                                 *)
(***************************************************************************)

RunEnds(run) ==
    /\ run \notin ended
    /\ ended' = ended \cup {run}
    /\ UNCHANGED <<clock, ownership, ledger, effects, cleanupReceipts>>

Tick ==
    /\ clock < MaxClock
    /\ clock' = clock + 1
    /\ UNCHANGED <<ownership, ledger, effects, cleanupReceipts, ended>>

Init ==
    /\ clock = 0
    /\ fenceSeq = 0
    /\ row = [a \in Attempts |-> None]
    /\ lease = [k \in Keys |-> None]
    /\ lock = [r \in Resources |-> None]
    /\ history = {}
    /\ reservation = [a \in Attempts |-> None]
    /\ receipt = [a \in Attempts |-> None]
    /\ intents = {} /\ stripeReceipts = {}
    /\ caseClaims = {} /\ fixtureClaims = {}
    /\ cleanupReceipts = {} /\ fixtureWrites = {}
    /\ told = {} /\ ended = {}

Fences == 1 .. fenceSeq

Admission ==
    \E a \in Attempts, run \in Runs, quotas \in Policies, projection \in Usages,
       now \in EarlierReadings :
        \/ \E k \in Keys, env \in Environments, ttl \in TTLs :
              Prepare(a, k, env, run, ttl, quotas, projection, now)
        \/ PrepareReplay(a, run, quotas, projection, now)

Settlement ==
    \E a \in Attempts, retained \in Usages : ReconcileReservation(a, retained)

Provider ==
    \E a \in Attempts, f \in Fences :
        \/ \E op \in Operations : BeginStripeIntent(a, f, op)
        \/ \E i \in intents : ReconcileStripeIntent(a, f, i)
        \/ \E run \in Runs, ttl \in TTLs : HandoffStripeIntentRecovery(a, f, run, ttl)

\* Requests for more rows than the projection holds are refused outright.
RowRequests(a) ==
    IF reservation[a] = None THEN {} ELSE 1 .. reservation[a].projection["databaseRows"]

Fixture ==
    \E a \in Attempts, f \in Fences :
        \/ FixtureMutation(a, f)
        \/ \E c \in Cases, ns \in Namespaces, kind \in FixtureKinds,
              fixture \in FixtureIds, rows \in RowRequests(a), outcome \in WriterOutcomes :
              FixtureMutationWithReservation(a, f, rows, c, ns, kind, fixture, outcome)

Life ==
    \/ \E a \in Attempts, f \in Fences :
        \/ \E ttl \in TTLs : Renew(a, f, ttl)
        \/ \E to \in States : Transition(a, f, to)
        \/ Cleanup(a, f)
    \/ \E a \in Attempts, run \in Runs, ttl \in TTLs : ResumeRecheck(a, run, ttl)

Surroundings == Tick \/ \E run \in Runs : RunEnds(run)

Next == Admission \/ Settlement \/ Provider \/ Fixture \/ Life \/ Surroundings

Spec == Init /\ [][Next]_vars

(***************************************************************************)
(* Properties                                                              *)
(***************************************************************************)

\* The tables hold rows of their types.
TypeOK ==
    /\ clock \in Nat /\ fenceSeq \in Nat
    /\ row \in [Attempts -> Row \cup {None}]
    /\ lease \in [Keys -> Lease \cup {None}]
    /\ lock \in [Resources -> Lock \cup {None}]
    /\ history \subseteq Event
    /\ reservation \in [Attempts -> Reservation \cup {None}]
    /\ receipt \in [Attempts -> Receipt \cup {None}]
    /\ intents \subseteq [attempt : Attempts, operation : Operations, fence : Nat]
    /\ stripeReceipts \subseteq [attempt : Attempts, operation : Operations, fence : Nat]
    /\ caseClaims \subseteq
          [attempt : Attempts, case : Cases, namespace : Namespaces, fence : Nat]
    /\ fixtureClaims \subseteq
          [attempt : Attempts, case : Cases, kind : FixtureKinds, fixture : FixtureIds]
    /\ cleanupReceipts \subseteq [attempt : Attempts, fence : Nat]
    /\ fixtureWrites \subseteq [attempt : Attempts, fence : Nat]
    /\ told \subseteq Runs \X Nat
    /\ ended \subseteq Runs

\* Mutual exclusion on what the store protects: two leases that are live at the
\* same moment never belong to attempts that share a Supabase project or a
\* Stripe account, whatever keys they were taken under.
Live(k) == lease[k] # None /\ lease[k].expiresAt > clock

SharedResourceExclusion ==
    \A k1, k2 \in Keys : k1 # k2 /\ Live(k1) /\ Live(k2) =>
        ResourceKeys(row[lease[k1].attempt].environment)
            \cap ResourceKeys(row[lease[k2].attempt].environment) = {}

\* An attempt is superseded once another attempt was granted one of its
\* resources under a later fence than any it was ever granted itself.
Superseded(a) ==
    /\ row[a] # None
    /\ \E h \in history :
          /\ h.attempt # a
          /\ ResourceKeys(row[a].environment)
                \cap ResourceKeys(row[h.attempt].environment) # {}
          /\ \A g \in history : g.attempt = a => g.fence < h.fence

OfAttempt(S, a) == {x \in S : x.attempt = a}

\* Everything the store records of an attempt.
Footprint(a) ==
    <<row[a], reservation[a], receipt[a], OfAttempt(intents, a),
      OfAttempt(stripeReceipts, a), OfAttempt(caseClaims, a),
      OfAttempt(fixtureClaims, a), OfAttempt(fixtureWrites, a),
      OfAttempt(cleanupReceipts, a), OfAttempt(history, a)>>

\* Fencing: nothing is ever recorded again for a superseded attempt.  A delayed
\* call of its run, or of a run its fence was handed to, is always refused, even
\* where only one of its two resources was taken over and its own lease row is
\* still in place.
SupersededAttemptFrozen ==
    [][\A a \in Attempts : Superseded(a) => Footprint(a)' = Footprint(a)]_vars

\* An ambiguous provider effect pins its owner: while an attempt has an intent
\* without a receipt it keeps the lease row of its key and both of its resource
\* locks, under one fence, however long ago the lease expired.
UnresolvedIntentKeepsOwnership ==
    \A a \in Attempts : InFlight(a) => OwnsLease(a) /\ ResourceOwner(a)

\* An attempt counts as cleaned up only when every provider effect it began is
\* resolved and there is evidence for it: its own cleanup receipt, or a settled
\* reservation where a takeover closed it.
CleanedMeansAccountedFor ==
    \A a \in Attempts : row[a] # None /\ row[a].cleanupStatus = "complete" =>
        /\ ~InFlight(a)
        /\ receipt[a] # None \/ OfAttempt(cleanupReceipts, a) # {}

\* The hold of an attempt: its lease row and both of its locks, under one fence.
HoldOf(a) ==
    IF OwnsLease(a) /\ ResourceOwner(a)
    THEN [fence |-> LeaseOf(a).fence, run |-> LeaseOf(a).run]
    ELSE None

NeedsOf(a) == IF row[a] = None THEN {} ELSE ResourceKeys(row[a].environment)

PendingOf(a) ==
    {op \in Operations : \E i \in intents : i.attempt = a /\ i.operation = op /\ ~Resolved(i)}

\* What an attempt has done under a fence.
Acts == intents \cup stripeReceipts \cup caseClaims \cup fixtureWrites \cup cleanupReceipts

Hold == INSTANCE FencedHold WITH
    hold    <- [a \in Attempts |-> HoldOf(a)],
    issued  <- fenceSeq,
    needs   <- [a \in Attempts |-> NeedsOf(a)],
    pending <- [a \in Attempts |-> PendingOf(a)],
    acts    <- {<<x.attempt, x.fence>> : x \in Acts}

\* Refinement: leases, lock rows and intents together are one exclusive, fenced hold
\* per attempt.  Taking over one of the two resources of an attempt ends its hold
\* as a whole, and is possible only once the run that has it is terminal with its
\* runner removed and none of its provider effects is in doubt; expiry alone never
\* moves anything, a handoff keeps both resources together, and nothing is recorded
\* under a fence that is not the current one (prepare, resumeRecheck,
\* handoffStripeIntentRecovery, assertFencedOwner, cleanup).
ImplementsFencedHold == Hold!Spec

\* A fence handed out by an intent recovery reads and reconciles: no Stripe
\* intent, fixture write or fixture claim ever carries it, whatever renewals
\* and transitions follow.
RecoveryFenceNeverWrites ==
    \A h \in history : h.event = "recovery_handoff" =>
        \A w \in intents \cup fixtureWrites \cup caseClaims :
            ~(w.attempt = h.attempt /\ w.fence = h.fence)

\* Fixtures are claimed by the collection itself: every case claim carries the
\* fence its attempt was admitted with.
ClaimsCarryAdmissionFence ==
    \A c \in caseClaims : \E h \in history :
        /\ h.attempt = c.attempt /\ h.fence = c.fence
        /\ h.event \in {"acquired", "takeover"}

\* A replayed prepare reveals a fence only to the run that fence was granted to.
FenceToldOnlyToGrantee ==
    \A t \in told : \E h \in history :
        h.run = t[1] /\ h.fence = t[2]

\* What is retained and what is reserved in one (project, account) scope never
\* exceeds the quotas its attempts were admitted under.
CapacityWithinQuota ==
    \A env \in Environments : \A a \in InScope(env) : \A q \in QuotaKeys :
        Used(env, q) <= reservation[a].quotas[q]

\* Every claimed fixture is paid for by at least one reserved database row, and
\* the rows used stay within the attempt's projection.
ClaimedRowsAreReserved ==
    \A a \in Attempts : reservation[a] # None =>
        /\ Cardinality(OfAttempt(fixtureClaims, a)) <= reservation[a].rowsUsed
        /\ reservation[a].rowsUsed <= reservation[a].projection["databaseRows"]

(***************************************************************************)
(* What the repository's documents say of the store, and the store does    *)
(* not do.                                                                 *)
(***************************************************************************)

\* Once an attempt is cleaned up, the capacity it still holds can be released:
\* the store would accept the settlement of its reservation.
CleanedCapacityReleasable ==
    \A a \in Attempts :
        row[a] # None /\ row[a].cleanupStatus = "complete" /\ receipt[a] = None =>
            OwnsLease(a)

\* The unresolved intents of a run that is over, and whose lease has run out,
\* can be handed to a recovery run.
OrphanedIntentsCanBeHandedOff ==
    \A a \in Attempts :
        /\ InFlight(a) /\ OwnsLease(a) /\ receipt[a] = None
        /\ LeaseOf(a).expiresAt <= clock /\ LeaseOf(a).run \in ended
        => RecoverableState(a)
=============================================================================
