------------------------- MODULE AttemptStoreProofs -------------------------
(***************************************************************************)
(* Proofs about AttemptStore for any set of attempts, keys, resources and  *)
(* runs, any quotas, durations and bounds: ownership and what it excludes, *)
(* and what fencing gives.  Ownership moves only from runs that ended, a   *)
(* superseded attempt is frozen, a fence reaches only its grantee, and all *)
(* of it together implements one fenced hold per attempt (FencedHold).     *)
(***************************************************************************)
EXTENDS AttemptStore, TLAPS

(***************************************************************************)
(* Types                                                                   *)
(***************************************************************************)

\* An environment needs two rows of the lock table, both of known resources.
LEMMA ResourceKeysType ==
    \A env \in Environments : ResourceKeys(env) \subseteq Resources
BY DEF Environments, ResourceKeys, Resources

\* The attempts a new admission displaces are admitted attempts: prepare refuses
\* when the row of a lock's or a lease's owner is missing.
LEMMA PriorOwnersAdmitted ==
    ASSUME TypeOK, NEW k \in Keys, NEW env \in Environments, NEW now \in Nat,
           PriorRowsAgree(k, env, now)
    PROVE  \A p \in PriorOwners(k, env) : p \in Attempts /\ row[p] \in Row
<1>1. \A r \in ResourceKeys(env) : lock[r] # None =>
          lock[r].attempt \in Attempts /\ row[lock[r].attempt] \in Row
  BY ResourceKeysType DEF TypeOK, PriorRowsAgree, OwnsLease, Lock
<1>2. lease[k] # None => lease[k].attempt \in Attempts /\ row[lease[k].attempt] \in Row
  BY <1>1 DEF PriorRowsAgree
<1> QED
  BY <1>1, <1>2 DEF PriorOwners

\* The tables are empty, hence typed, at the start.
LEMMA TypeInit == Init => TypeOK
BY NumericAssumption DEF Init, TypeOK

\* prepare writes typed rows.
LEMMA TypePrepare ==
    ASSUME TypeOK, NEW a \in Attempts, NEW k \in Keys, NEW env \in Environments,
           NEW run \in Runs, NEW ttl \in TTLs, NEW quotas \in Policies,
           NEW projection \in Usages, NEW now \in EarlierReadings,
           Prepare(a, k, env, run, ttl, quotas, projection, now)
    PROVE  TypeOK'
<1>1. now \in Nat /\ now + ttl \in Nat /\ fenceSeq + 1 \in Nat
  BY NumericAssumption DEF EarlierReadings, TypeOK
<1>2. row' \in [Attempts -> Row \cup {None}]
  <2>1. \A p \in PriorOwners(k, env) : p \in Attempts /\ row[p] \in Row
    BY <1>1, PriorOwnersAdmitted DEF Prepare
  <2>2. [key |-> k, environment |-> env, workflow |-> run, state |-> "collecting",
         cleanupStatus |-> "pending"] \in Row
    BY DEF Row, States
  <2>3. \A p \in PriorOwners(k, env) : [row[p] EXCEPT !.cleanupStatus = "complete"] \in Row
    BY <2>1 DEF Row
  <2> QED
    BY <2>2, <2>3 DEF Prepare, TypeOK
<1>3. lease' \in [Keys -> Lease \cup {None}]
  BY <1>1 DEF Prepare, TypeOK, Lease, ExpiryAfter
<1>4. lock' \in [Resources -> Lock \cup {None}]
  BY <1>1 DEF Prepare, TypeOK, Lock, ExpiryAfter
<1>5. history' \subseteq Event
  BY <1>1 DEF Prepare, TypeOK, Event, Grants
<1>6. reservation' \in [Attempts -> Reservation \cup {None}]
  BY DEF Prepare, TypeOK, Reservation
<1> QED
  BY <1>1, <1>2, <1>3, <1>4, <1>5, <1>6 DEF Prepare, TypeOK, effects

\* resumeRecheck and handoffStripeIntentRecovery write typed rows.
LEMMA TypeReassign ==
    ASSUME TypeOK, NEW a \in Attempts, row[a] # None, NEW run \in Runs, NEW ttl \in TTLs,
           NEW recoveryOnly \in BOOLEAN, NEW event \in Grants,
           Reassign(a, run, ttl, recoveryOnly, event)
    PROVE  TypeOK'
<1>1. clock + ttl \in Nat /\ fenceSeq + 1 \in Nat
  BY NumericAssumption DEF TypeOK
<1>2. row' \in [Attempts -> Row \cup {None}]
  BY DEF Reassign, TypeOK, Row, States
<1>3. lease' \in [Keys -> Lease \cup {None}]
  BY <1>1 DEF Reassign, TypeOK, Lease, ExpiryAfter
<1>4. lock' \in [Resources -> Lock \cup {None}]
  BY <1>1 DEF Reassign, TypeOK, Lock, ExpiryAfter
<1>5. history' \subseteq Event
  BY <1>1 DEF Reassign, TypeOK, Event
<1> QED
  BY <1>1, <1>2, <1>3, <1>4, <1>5 DEF Reassign, TypeOK, ledger, effects

\* renew writes typed rows.
LEMMA TypeRenew ==
    ASSUME TypeOK, NEW a \in Attempts, NEW f \in Fences, NEW ttl \in TTLs, Renew(a, f, ttl)
    PROVE  TypeOK'
<1>1. clock + ttl \in Nat
  BY NumericAssumption DEF TypeOK
<1>2. row[a] \in Row /\ row[a].key \in Keys /\ lease[row[a].key] \in Lease
  BY DEF Renew, Fenced, OwnsLease, LeaseOf, TypeOK, Row
<1>3. lease' \in [Keys -> Lease \cup {None}]
  BY <1>1, <1>2 DEF Renew, TypeOK, Lease, ExpiryAfter
<1>4. \A r \in ResourceKeys(row[a].environment) : lock[r] \in Lock
  BY <1>2 DEF Renew, Fenced, ResourceOwner, LeaseOf, Lock, Lease
<1>5. lock' \in [Resources -> Lock \cup {None}]
  BY <1>1, <1>4 DEF Renew, TypeOK, Lock, ExpiryAfter
<1> QED
  BY <1>3, <1>5 DEF Renew, TypeOK, ledger, effects

\* Every step writes rows of the types of its tables.
LEMMA TypeNext == ASSUME TypeOK, [Next]_vars PROVE TypeOK'
<1>1. CASE UNCHANGED vars
  BY <1>1 DEF vars, ownership, ledger, effects, TypeOK
<1>2. CASE Admission
  <2>1. ASSUME NEW a \in Attempts, NEW run \in Runs, NEW quotas \in Policies,
               NEW projection \in Usages, NEW now \in EarlierReadings,
               PrepareReplay(a, run, quotas, projection, now)
        PROVE  TypeOK'
    <3>1. LeaseOf(a).fence \in Nat
      BY <2>1 DEF PrepareReplay, OwnsLease, LeaseOf, TypeOK, Row, Lease
    <3> QED
      BY <2>1, <3>1 DEF PrepareReplay, TypeOK, ledger, effects
  <2> QED
    BY <1>2, <2>1, TypePrepare DEF Admission
<1>3. CASE Settlement
  <2> PICK a \in Attempts, retained \in Usages : ReconcileReservation(a, retained)
    BY <1>3 DEF Settlement
  <2>1. LeaseOf(a).fence \in Nat
    BY DEF ReconcileReservation, OwnsLease, LeaseOf, TypeOK, Row, Lease
  <2> QED
    BY <2>1 DEF ReconcileReservation, TypeOK, Receipt, ownership, effects
<1>4. CASE Provider
  <2> PICK a \in Attempts, f \in Fences :
        \/ \E op \in Operations : BeginStripeIntent(a, f, op)
        \/ \E i \in intents : ReconcileStripeIntent(a, f, i)
        \/ \E run \in Runs, ttl \in TTLs : HandoffStripeIntentRecovery(a, f, run, ttl)
    BY <1>4 DEF Provider
  <2>1. f \in Nat
    BY DEF Fences, TypeOK
  <2>2. ASSUME NEW op \in Operations, BeginStripeIntent(a, f, op) PROVE TypeOK'
    BY <2>1, <2>2 DEF BeginStripeIntent, TypeOK, ownership, ledger
  <2>3. ASSUME NEW i \in intents, ReconcileStripeIntent(a, f, i) PROVE TypeOK'
    BY <2>1, <2>3 DEF ReconcileStripeIntent, TypeOK, ownership, ledger
  <2>4. ASSUME NEW run \in Runs, NEW ttl \in TTLs, HandoffStripeIntentRecovery(a, f, run, ttl)
        PROVE  TypeOK'
    BY <2>4, TypeReassign DEF HandoffStripeIntentRecovery, Grants
  <2> QED
    BY <2>2, <2>3, <2>4
<1>5. CASE Fixture
  <2> PICK a \in Attempts, f \in Fences :
        \/ FixtureMutation(a, f)
        \/ \E c \in Cases, ns \in Namespaces, kind \in FixtureKinds,
              fixture \in FixtureIds, rows \in RowRequests(a), outcome \in WriterOutcomes :
              FixtureMutationWithReservation(a, f, rows, c, ns, kind, fixture, outcome)
    BY <1>5 DEF Fixture
  <2>1. f \in Nat
    BY DEF Fences, TypeOK
  <2>2. CASE FixtureMutation(a, f)
    BY <2>1, <2>2 DEF FixtureMutation, TypeOK, ownership, ledger
  <2>3. ASSUME NEW c \in Cases, NEW ns \in Namespaces, NEW kind \in FixtureKinds,
               NEW fixture \in FixtureIds, NEW outcome \in WriterOutcomes, NEW rows \in Nat,
               FixtureMutationWithReservation(a, f, rows, c, ns, kind, fixture, outcome)
        PROVE  TypeOK'
    <3>1. reservation' \in [Attempts -> Reservation \cup {None}]
      BY <2>3 DEF FixtureMutationWithReservation, TypeOK, Reservation
    <3> QED
      BY <2>1, <2>3, <3>1 DEF FixtureMutationWithReservation, TypeOK, ownership
  <2>4. RowRequests(a) \subseteq Nat
    BY UsageAssumption DEF RowRequests, TypeOK, Reservation, QuotaKeys
  <2> QED
    BY <2>2, <2>3, <2>4
<1>6. CASE Life
  <2>1. ASSUME NEW a \in Attempts, NEW f \in Fences, NEW to \in States, Transition(a, f, to)
        PROVE  TypeOK'
    <3>1. row' \in [Attempts -> Row \cup {None}]
      BY <2>1 DEF Transition, Fenced, OwnsLease, TypeOK, Row
    <3> QED
      BY <2>1, <3>1 DEF Transition, TypeOK, ledger, effects
  <2>2. ASSUME NEW a \in Attempts, NEW f \in Fences, Cleanup(a, f) PROVE TypeOK'
    <3>1. f \in Nat
      BY DEF Fences, TypeOK
    <3>2. row' \in [Attempts -> Row \cup {None}]
      BY <2>2 DEF Cleanup, Fenced, OwnsLease, TypeOK, Row
    <3>3. lease' \in [Keys -> Lease \cup {None}] /\ lock' \in [Resources -> Lock \cup {None}]
      BY <2>2 DEF Cleanup, TypeOK
    <3>4. cleanupReceipts' \subseteq [attempt : Attempts, fence : Nat]
      BY <2>2, <3>1 DEF Cleanup, TypeOK
    <3> QED
      BY <2>2, <3>2, <3>3, <3>4 DEF Cleanup, TypeOK, ledger, effects
  <2>3. ASSUME NEW a \in Attempts, NEW run \in Runs, NEW ttl \in TTLs, ResumeRecheck(a, run, ttl)
        PROVE  TypeOK'
    <3>1. LeaseOf(a).recoveryOnly \in BOOLEAN
      BY <2>3 DEF ResumeRecheck, OwnsLease, LeaseOf, TypeOK, Row, Lease
    <3> QED
      BY <2>3, <3>1, TypeReassign DEF ResumeRecheck, Grants
  <2> QED
    BY <1>6, <2>1, <2>2, <2>3, TypeRenew DEF Life
<1>7. CASE Surroundings
  BY <1>7 DEF Surroundings, Tick, RunEnds, TypeOK, ownership, ledger, effects
<1> QED
  BY <1>1, <1>2, <1>3, <1>4, <1>5, <1>6, <1>7 DEF Next

\* In every reachable state each table holds rows of its type: no operation of
\* the store leaves a half-written or ill-formed lease, lock or ledger entry.
THEOREM TypeCorrect == Spec => []TypeOK
BY TypeInit, TypeNext, PTL DEF Spec

(***************************************************************************)
(* Ownership                                                               *)
(*                                                                         *)
(* Mutual exclusion is not inductive by itself: a lease row may outlive    *)
(* the locks it was granted with.  The invariant below says what ties the  *)
(* lease table, the lock table, the history and the attempts together.     *)
(***************************************************************************)

Cleaned(a) == row[a] # None /\ row[a].cleanupStatus = "complete"

\* The attempt has lost a resource it was admitted to.
Displaced(a) ==
    /\ row[a] # None
    /\ \E r \in ResourceKeys(row[a].environment) : lock[r] = None \/ lock[r].attempt # a

References ==
    /\ \A k \in Keys : lease[k] # None =>
          row[lease[k].attempt] # None /\ row[lease[k].attempt].key = k
    /\ \A h \in history : row[h.attempt] # None /\ h.fence <= fenceSeq
    /\ \A r \in Resources : lock[r] # None =>
          row[lock[r].attempt] # None /\ r \in ResourceKeys(row[lock[r].attempt].environment)

LiveLeaseHoldsLocks == \A k \in Keys : Live(k) => ResourceOwner(lease[k].attempt)

\* Losing a resource and being cleaned up are the same thing, and an attempt that
\* lost one but kept its lease row is settled.
DisplacedIsCleaned ==
    \A a \in Attempts :
        /\ Cleaned(a) => Displaced(a)
        /\ Displaced(a) => Cleaned(a)
        /\ Displaced(a) /\ OwnsLease(a) => receipt[a] # None

LockCarriesLatestGrant ==
    \A r \in Resources : lock[r] # None =>
        /\ \E h \in history : h.attempt = lock[r].attempt /\ h.fence = lock[r].fence
        /\ \A h \in history : r \in ResourceKeys(row[h.attempt].environment) =>
              h.fence <= lock[r].fence

Ownership ==
    TypeOK /\ References /\ LiveLeaseHoldsLocks /\ DisplacedIsCleaned /\ LockCarriesLatestGrant

(***************************************************************************)
(* The steps, by what they do to ownership                                 *)
(***************************************************************************)

AdmitStep ==
    \E a \in Attempts, k \in Keys, env \in Environments, run \in Runs, ttl \in TTLs,
       quotas \in Policies, projection \in Usages, now \in EarlierReadings :
        Prepare(a, k, env, run, ttl, quotas, projection, now)

ReassignStep ==
    \E a \in Attempts, run \in Runs, ttl \in TTLs, recoveryOnly \in BOOLEAN, event \in Grants :
        /\ OwnsLease(a)
        /\ ResourceOwner(a)
        /\ LeaseOf(a).run \in ended
        /\ event = "recovery_handoff" => recoveryOnly
        /\ Reassign(a, run, ttl, recoveryOnly, event)

RenewStep == \E a \in Attempts, f \in Fences, ttl \in TTLs : Renew(a, f, ttl)

TransitionStep == \E a \in Attempts, f \in Fences, to \in States : Transition(a, f, to)

CleanupStep == \E a \in Attempts, f \in Fences : Cleanup(a, f)

QuietStep ==
    /\ UNCHANGED <<fenceSeq, row, lease, lock, history>>
    /\ clock <= clock'
    /\ \A a \in Attempts : receipt[a] # None => receipt'[a] # None

\* Provider effects leave reservations, claims and fixtures alone, and the other
\* steps in the life of an attempt only ever add cleanup receipts to that.
LEMMA ProviderKeeps ==
    ASSUME Provider
    PROVE  UNCHANGED <<reservation, receipt, caseClaims, fixtureClaims, fixtureWrites>>
<1> PICK a \in Attempts, f \in Fences :
        \/ \E op \in Operations : BeginStripeIntent(a, f, op)
        \/ \E i \in intents : ReconcileStripeIntent(a, f, i)
        \/ \E run \in Runs, ttl \in TTLs : HandoffStripeIntentRecovery(a, f, run, ttl)
  BY DEF Provider
<1>1. ASSUME NEW op \in Operations, BeginStripeIntent(a, f, op)
      PROVE  UNCHANGED <<reservation, receipt, caseClaims, fixtureClaims, fixtureWrites>>
  BY <1>1 DEF BeginStripeIntent, ledger
<1>2. ASSUME NEW i \in intents, ReconcileStripeIntent(a, f, i)
      PROVE  UNCHANGED <<reservation, receipt, caseClaims, fixtureClaims, fixtureWrites>>
  BY <1>2 DEF ReconcileStripeIntent, ledger
<1>3. ASSUME NEW run \in Runs, NEW ttl \in TTLs, HandoffStripeIntentRecovery(a, f, run, ttl)
      PROVE  UNCHANGED <<reservation, receipt, caseClaims, fixtureClaims, fixtureWrites>>
  <2>1. Reassign(a, run, ttl, TRUE, "recovery_handoff")
    BY <1>3 DEF HandoffStripeIntentRecovery
  <2> QED
    BY <2>1 DEF Reassign, ledger, effects
<1> QED
  BY <1>1, <1>2, <1>3

LEMMA LifeKeeps ==
    ASSUME Life
    PROVE  UNCHANGED <<ledger, effects>> /\ cleanupReceipts \subseteq cleanupReceipts'
<1>1. ASSUME NEW a \in Attempts, NEW f \in Fences, NEW ttl \in TTLs, Renew(a, f, ttl)
      PROVE  UNCHANGED <<ledger, effects>> /\ cleanupReceipts \subseteq cleanupReceipts'
  BY <1>1 DEF Renew
<1>2. ASSUME NEW a \in Attempts, NEW f \in Fences, NEW to \in States, Transition(a, f, to)
      PROVE  UNCHANGED <<ledger, effects>> /\ cleanupReceipts \subseteq cleanupReceipts'
  BY <1>2 DEF Transition
<1>3. ASSUME NEW a \in Attempts, NEW f \in Fences, Cleanup(a, f)
      PROVE  UNCHANGED <<ledger, effects>> /\ cleanupReceipts \subseteq cleanupReceipts'
  BY <1>3 DEF Cleanup
<1>4. ASSUME NEW a \in Attempts, NEW run \in Runs, NEW ttl \in TTLs, ResumeRecheck(a, run, ttl)
      PROVE  UNCHANGED <<ledger, effects>> /\ cleanupReceipts \subseteq cleanupReceipts'
  <2>1. Reassign(a, run, ttl, LeaseOf(a).recoveryOnly, "recheck_handoff")
    BY <1>4 DEF ResumeRecheck
  <2> QED
    BY <2>1 DEF Reassign
<1> QED
  BY <1>1, <1>2, <1>3, <1>4 DEF Life

\* Every step admits, reassigns, renews, transitions, cleans up, or leaves the
\* leases, the locks and the attempts alone.
LEMMA StepCases ==
    ASSUME TypeOK, [Next]_vars
    PROVE  AdmitStep \/ ReassignStep \/ RenewStep \/ TransitionStep \/ CleanupStep \/ QuietStep
<1>1. CASE UNCHANGED vars
  BY <1>1 DEF vars, ownership, ledger, QuietStep, TypeOK
<1>2. CASE Admission
  BY <1>2 DEF Admission, AdmitStep, PrepareReplay, QuietStep, TypeOK, ledger
<1>3. CASE Settlement
  <2> PICK a \in Attempts, retained \in Usages : ReconcileReservation(a, retained)
    BY <1>3 DEF Settlement
  <2>1. \A b \in Attempts : receipt[b] # None => receipt'[b] # None
    BY DEF ReconcileReservation, TypeOK
  <2> QED
    BY <2>1 DEF ReconcileReservation, QuietStep, TypeOK, ownership
<1>4. CASE Provider
  <2>1. ASSUME NEW a \in Attempts, NEW f \in Fences, NEW run \in Runs, NEW ttl \in TTLs,
               HandoffStripeIntentRecovery(a, f, run, ttl)
        PROVE  ReassignStep
    BY <2>1 DEF HandoffStripeIntentRecovery, ReassignStep, Grants
  <2> QED
    BY <1>4, <2>1
       DEF Provider, BeginStripeIntent, ReconcileStripeIntent, QuietStep, TypeOK, ownership, ledger
<1>5. CASE Fixture
  BY <1>5 DEF Fixture, FixtureMutation, FixtureMutationWithReservation, QuietStep, TypeOK,
              ownership, ledger
<1>6. CASE Life
  <2>1. ASSUME NEW a \in Attempts, NEW run \in Runs, NEW ttl \in TTLs, ResumeRecheck(a, run, ttl)
        PROVE  ReassignStep
    <3>1. LeaseOf(a).recoveryOnly \in BOOLEAN
      BY <2>1 DEF ResumeRecheck, OwnsLease, LeaseOf, TypeOK, Row, Lease
    <3>2. "recheck_handoff" \in Grants
      BY DEF Grants
    <3> QED
      BY <2>1, <3>1, <3>2 DEF ResumeRecheck, ReassignStep
  <2> QED
    BY <1>6, <2>1 DEF Life, RenewStep, TransitionStep, CleanupStep
<1>7. CASE Surroundings
  BY <1>7 DEF Surroundings, Tick, RunEnds, QuietStep, TypeOK, ownership, ledger
<1> QED
  BY <1>1, <1>2, <1>3, <1>4, <1>5, <1>6, <1>7 DEF Next

\* A quiet step keeps the ownership invariant: time only expires leases.
LEMMA OwnershipQuiet == ASSUME Ownership, TypeOK', QuietStep PROVE Ownership'
<1> USE DEF QuietStep
<1>1. References'
  BY DEF Ownership, References
<1>2. LiveLeaseHoldsLocks'
  BY DEF Ownership, TypeOK, Lease, LiveLeaseHoldsLocks, Live, ResourceOwner, LeaseOf
<1>3. DisplacedIsCleaned'
  BY DEF Ownership, DisplacedIsCleaned, Displaced, Cleaned, OwnsLease, LeaseOf
<1>4. LockCarriesLatestGrant'
  BY DEF Ownership, LockCarriesLatestGrant
<1> QED
  BY <1>1, <1>2, <1>3, <1>4 DEF Ownership

\* A fenced transition changes the state of an attempt that owns its resources.
LEMMA OwnershipTransition == ASSUME Ownership, TypeOK', TransitionStep PROVE Ownership'
<1> PICK a \in Attempts, f \in Fences, to \in States : Transition(a, f, to)
  BY DEF TransitionStep
<1>1. row[a] \in Row
  BY DEF Transition, Fenced, OwnsLease, Ownership, TypeOK
<1>2. \A x \in Attempts :
        /\ row'[x] = None <=> row[x] = None
        /\ row[x] # None => /\ row'[x].key = row[x].key
                            /\ row'[x].environment = row[x].environment
                            /\ row'[x].cleanupStatus = row[x].cleanupStatus
  BY <1>1, NoneAssumption DEF Transition, Ownership, TypeOK, Row
<1>3. UNCHANGED <<clock, fenceSeq, lease, lock, history, receipt>>
  BY DEF Transition, ledger
<1>4. References'
  BY <1>2, <1>3 DEF Ownership, TypeOK, Lease, Lock, Event, References
<1>5. LiveLeaseHoldsLocks'
  BY <1>2, <1>3
     DEF Ownership, TypeOK, Lease, References, LiveLeaseHoldsLocks, Live, ResourceOwner, LeaseOf
<1>6. DisplacedIsCleaned'
  BY <1>2, <1>3 DEF Ownership, DisplacedIsCleaned, Displaced, Cleaned, OwnsLease, LeaseOf
<1>7. LockCarriesLatestGrant'
  BY <1>2, <1>3 DEF Ownership, TypeOK, Event, References, LockCarriesLatestGrant
<1> QED
  BY <1>4, <1>5, <1>6, <1>7 DEF Ownership

\* An attempt that owns its resources shares none of them with the owner of
\* another live lease.
LEMMA OwnersAreDisjoint ==
    ASSUME TypeOK, References, LiveLeaseHoldsLocks, NEW a \in Attempts, row[a] # None,
           ResourceOwner(a), NEW k \in Keys, k # row[a].key, Live(k)
    PROVE  /\ lease[k].attempt \in Attempts /\ lease[k].attempt # a
           /\ row[lease[k].attempt].key = k
           /\ \A r \in ResourceKeys(row[lease[k].attempt].environment) :
                 /\ r \notin ResourceKeys(row[a].environment)
                 /\ lock[r] = [attempt |-> lease[k].attempt, fence |-> lease[k].fence,
                               expiresAt |-> lease[k].expiresAt, run |-> lease[k].run]
<1>1. lease[k] # None /\ lease[k] \in Lease /\ lease[k].attempt \in Attempts
  BY DEF TypeOK, Live, Lease
<1>2. row[lease[k].attempt] # None /\ row[lease[k].attempt].key = k
  BY <1>1 DEF References
<1>3. \A r \in ResourceKeys(row[lease[k].attempt].environment) :
        lock[r] = [attempt |-> lease[k].attempt, fence |-> lease[k].fence,
                   expiresAt |-> lease[k].expiresAt, run |-> lease[k].run]
  BY <1>2 DEF LiveLeaseHoldsLocks, ResourceOwner, LeaseOf
<1>4. \A r \in ResourceKeys(row[a].environment) : lock[r].attempt = a
  BY DEF ResourceOwner
<1> QED
  BY <1>1, <1>2, <1>3, <1>4

\* renew moves the expiry of the lease and of both locks together.
LEMMA OwnershipRenew == ASSUME Ownership, TypeOK', RenewStep PROVE Ownership'
<1> PICK a \in Attempts, f \in Fences, ttl \in TTLs : Renew(a, f, ttl)
  BY DEF RenewStep
<1> DEFINE key == row[a].key
<1> DEFINE res == ResourceKeys(row[a].environment)
<1>1. /\ row[a] \in Row /\ row[a] # None /\ key \in Keys /\ res \subseteq Resources
      /\ lease[key] \in Lease /\ lease[key].attempt = a /\ ResourceOwner(a)
  BY ResourceKeysType DEF Renew, Fenced, OwnsLease, LeaseOf, Ownership, TypeOK, Row
<1>2. UNCHANGED <<clock, fenceSeq, row, history, receipt>>
  BY DEF Renew, ledger
<1>3. /\ lease'[key] \in Lease /\ lease'[key].attempt = a
      /\ lease'[key].fence = lease[key].fence /\ lease'[key].run = lease[key].run
      /\ lease'[key].expiresAt = ExpiryAfter(clock, ttl)
      /\ \A k \in Keys : k # key => lease'[k] = lease[k]
  <2>1. ExpiryAfter(clock, ttl) \in Nat
    BY NumericAssumption DEF Ownership, TypeOK, ExpiryAfter
  <2>2. lease' = [lease EXCEPT ![key].expiresAt = ExpiryAfter(clock, ttl)]
    BY DEF Renew
  <2> QED
    BY <1>1, <2>1, <2>2 DEF Ownership, TypeOK, Lease
<1>4. /\ \A r \in res : /\ lock[r].attempt = a /\ lock[r] # None /\ lock'[r] # None
                        /\ lock'[r] = [attempt |-> a, fence |-> lease[key].fence,
                              expiresAt |-> ExpiryAfter(clock, ttl), run |-> lease[key].run]
      /\ \A r \in Resources : r \notin res => lock'[r] = lock[r]
  <2>1. \A r \in res : lock[r] = [attempt |-> a, fence |-> lease[key].fence,
                              expiresAt |-> lease[key].expiresAt, run |-> lease[key].run]
    BY <1>1 DEF ResourceOwner, LeaseOf
  <2>2. \A r \in res : lock[r] \in Lock
    BY <1>1, <2>1 DEF Lock, Lease
  <2>3. \A r \in res : lock'[r] = [lock[r] EXCEPT !.expiresAt = ExpiryAfter(clock, ttl)]
    BY <1>1 DEF Renew
  <2>4. \A r \in res : lock'[r] = [attempt |-> a, fence |-> lease[key].fence,
                              expiresAt |-> ExpiryAfter(clock, ttl), run |-> lease[key].run]
    BY <2>1, <2>3
  <2>5. \A r \in res : lock'[r] \in Lock
    BY <1>1, <1>3, <2>4 DEF Lock, Lease
  <2>6. \A r \in Resources : r \notin res => lock'[r] = lock[r]
    BY DEF Renew
  <2> QED
    BY <2>1, <2>2, <2>4, <2>5, <2>6, NoneAssumption
<1>5. References'
  <2>1. \A k \in Keys : lease'[k] # None =>
          row'[lease'[k].attempt] # None /\ row'[lease'[k].attempt].key = k
    BY <1>1, <1>2, <1>3, NoneAssumption DEF Ownership, References
  <2>2. \A r \in Resources : lock'[r] # None =>
          row'[lock'[r].attempt] # None /\ r \in ResourceKeys(row'[lock'[r].attempt].environment)
    BY <1>1, <1>2, <1>4 DEF Ownership, References
  <2> QED
    BY <1>2, <2>1, <2>2 DEF Ownership, References
<1>6. LiveLeaseHoldsLocks'
  <2> SUFFICES ASSUME NEW k \in Keys, Live(k)' PROVE ResourceOwner(lease[k].attempt)'
    BY DEF LiveLeaseHoldsLocks
  <2>1. CASE k = key
    BY <2>1, <1>1, <1>2, <1>3, <1>4 DEF ResourceOwner, LeaseOf
  <2>2. CASE k # key
    <3>1. Live(k) /\ lease'[k] = lease[k]
      BY <2>2, <1>2, <1>3 DEF Live
    <3> DEFINE b == lease[k].attempt
    <3>2. /\ b \in Attempts /\ row[b].key = k
          /\ \A r \in ResourceKeys(row[b].environment) :
                /\ r \notin res
                /\ lock[r] = [attempt |-> b, fence |-> lease[k].fence,
                              expiresAt |-> lease[k].expiresAt, run |-> lease[k].run]
      BY <2>2, <3>1, <1>1, OwnersAreDisjoint DEF Ownership
    <3>3. row[b] # None /\ ResourceKeys(row[b].environment) \subseteq Resources
      BY <3>1, ResourceKeysType DEF Ownership, References, TypeOK, Live, Lease, Row
    <3>4. \A r \in ResourceKeys(row[b].environment) : lock'[r] = lock[r]
      BY <3>2, <3>3, <1>4
    <3> QED
      BY <3>1, <3>2, <3>4, <1>2 DEF ResourceOwner, LeaseOf
  <2> QED
    BY <2>1, <2>2
<1>7. DisplacedIsCleaned'
  <2>1. \A x \in Attempts : Displaced(x)' <=> Displaced(x)
    BY <1>2, <1>4, ResourceKeysType DEF Displaced, Ownership, TypeOK, Row
  <2>2. \A x \in Attempts : OwnsLease(x)' => OwnsLease(x)
    BY <1>1, <1>2, <1>3, NoneAssumption DEF OwnsLease, LeaseOf, Ownership, TypeOK, Row
  <2> QED
    BY <1>2, <2>1, <2>2 DEF Ownership, DisplacedIsCleaned, Cleaned
<1>8. LockCarriesLatestGrant'
  <2>1. \A r \in Resources : lock'[r] # None => /\ lock[r] # None
                                                /\ lock'[r].attempt = lock[r].attempt
                                                /\ lock'[r].fence = lock[r].fence
    BY <1>1, <1>4 DEF ResourceOwner, LeaseOf
  <2> QED
    BY <1>2, <2>1 DEF Ownership, LockCarriesLatestGrant
<1> QED
  BY <1>5, <1>6, <1>7, <1>8 DEF Ownership

\* What a handoff writes: the state of its attempt, its lease row and both its locks.
HandoffWritten(a, run, expiry, recoveryOnly) ==
    /\ row[a] \in Row /\ row[a] # None
    /\ row[a].key \in Keys /\ ResourceKeys(row[a].environment) \subseteq Resources
    /\ \A x \in Attempts :
         /\ row'[x] = None <=> row[x] = None
         /\ row[x] # None => /\ row'[x].key = row[x].key
                             /\ row'[x].environment = row[x].environment
                             /\ row'[x].cleanupStatus = row[x].cleanupStatus
    /\ lease'[row[a].key] = [attempt |-> a, fence |-> fenceSeq + 1,
          expiresAt |-> expiry, run |-> run, recoveryOnly |-> recoveryOnly]
    /\ \A k \in Keys : k # row[a].key => lease'[k] = lease[k]
    /\ \A r \in ResourceKeys(row[a].environment) :
         /\ lock'[r] = [attempt |-> a, fence |-> fenceSeq + 1,
                        expiresAt |-> expiry, run |-> run]
         /\ lock'[r] # None /\ lock'[r].attempt = a /\ lock[r] # None /\ lock[r].attempt = a
    /\ \A r \in Resources : r \notin ResourceKeys(row[a].environment) => lock'[r] = lock[r]

\* resumeRecheck and handoffStripeIntentRecovery write this of their attempt.
LEMMA HandoffWrites ==
    ASSUME Ownership, NEW a \in Attempts, NEW run \in Runs, NEW ttl \in TTLs,
           NEW recoveryOnly \in BOOLEAN, NEW event \in Grants,
           OwnsLease(a), ResourceOwner(a), Reassign(a, run, ttl, recoveryOnly, event)
    PROVE  HandoffWritten(a, run, ExpiryAfter(clock, ttl), recoveryOnly)
<1> DEFINE key == row[a].key
<1> DEFINE res == ResourceKeys(row[a].environment)
<1> DEFINE fence == fenceSeq + 1
<1> DEFINE expiry == ExpiryAfter(clock, ttl)
<1>1. row[a] \in Row /\ row[a] # None /\ key \in Keys /\ res \subseteq Resources
  BY ResourceKeysType DEF OwnsLease, Ownership, TypeOK, Row
<1>2. fenceSeq \in Nat /\ fence \in Nat /\ expiry \in Nat
  BY NumericAssumption DEF Ownership, TypeOK, ExpiryAfter
<1>3. \A x \in Attempts :
        /\ row'[x] = None <=> row[x] = None
        /\ row[x] # None => /\ row'[x].key = row[x].key
                            /\ row'[x].environment = row[x].environment
                            /\ row'[x].cleanupStatus = row[x].cleanupStatus
  <2>1. row' = [row EXCEPT ![a].state = "rechecking"]
    BY DEF Reassign
  <2> QED
    BY <1>1, <2>1, NoneAssumption DEF Ownership, TypeOK, Row, States
<1>4. /\ lease'[key] = [attempt |-> a, fence |-> fence, expiresAt |-> expiry, run |-> run,
                        recoveryOnly |-> recoveryOnly]
      /\ \A k \in Keys : k # key => lease'[k] = lease[k]
  BY <1>1 DEF Reassign, Ownership, TypeOK
<1>5. /\ \A r \in res : lock'[r] = [attempt |-> a, fence |-> fence, expiresAt |-> expiry,
                                    run |-> run]
      /\ \A r \in Resources : r \notin res => lock'[r] = lock[r]
  BY <1>1 DEF Reassign
<1>6. \A r \in res : lock'[r] # None /\ lock'[r].attempt = a /\ lock[r] # None /\ lock[r].attempt = a
  <2>1. \A r \in res : lock'[r] \in Lock
    BY <1>2, <1>5 DEF Lock
  <2>2. lease[key] \in Lease
    BY <1>1 DEF OwnsLease, LeaseOf, Ownership, TypeOK
  <2>3. \A r \in res : lock[r] \in Lock /\ lock[r].attempt = a
    BY <1>1, <2>2 DEF ResourceOwner, LeaseOf, Lock, Lease
  <2> QED
    BY <2>1, <2>3, <1>5, NoneAssumption
<1> QED
  BY <1>1, <1>3, <1>4, <1>5, <1>6 DEF HandoffWritten

\* A recheck or recovery handoff moves an attempt that owns its resources to a
\* new fence; no other attempt is touched.
LEMMA OwnershipReassign == ASSUME Ownership, TypeOK', ReassignStep PROVE Ownership'
<1> PICK a \in Attempts, run \in Runs, ttl \in TTLs, recoveryOnly \in BOOLEAN, event \in Grants :
        /\ OwnsLease(a)
        /\ ResourceOwner(a)
        /\ Reassign(a, run, ttl, recoveryOnly, event)
  BY DEF ReassignStep
<1> DEFINE key == row[a].key
<1> DEFINE res == ResourceKeys(row[a].environment)
<1> DEFINE fence == fenceSeq + 1
<1> DEFINE expiry == ExpiryAfter(clock, ttl)
<1>0. HandoffWritten(a, run, expiry, recoveryOnly)
  BY HandoffWrites
<1>1. row[a] \in Row /\ row[a] # None /\ key \in Keys /\ res \subseteq Resources
  BY <1>0 DEF HandoffWritten
<1>2. fenceSeq \in Nat /\ fence \in Nat /\ expiry \in Nat
  BY NumericAssumption DEF Ownership, TypeOK, ExpiryAfter
<1>3. UNCHANGED <<clock, receipt>> /\ fenceSeq' = fence
  BY DEF Reassign, ledger
<1>4. \A x \in Attempts :
        /\ row'[x] = None <=> row[x] = None
        /\ row[x] # None => /\ row'[x].key = row[x].key
                            /\ row'[x].environment = row[x].environment
                            /\ row'[x].cleanupStatus = row[x].cleanupStatus
  BY <1>0 DEF HandoffWritten
<1>5. /\ lease'[key] = [attempt |-> a, fence |-> fence, expiresAt |-> expiry, run |-> run,
                        recoveryOnly |-> recoveryOnly]
      /\ \A k \in Keys : k # key => lease'[k] = lease[k]
  BY <1>0 DEF HandoffWritten
<1>6. /\ \A r \in res : lock'[r] = [attempt |-> a, fence |-> fence, expiresAt |-> expiry,
                                    run |-> run]
      /\ \A r \in Resources : r \notin res => lock'[r] = lock[r]
  BY <1>0 DEF HandoffWritten
<1>7. \A r \in res : lock'[r] # None /\ lock'[r].attempt = a /\ lock[r] # None /\ lock[r].attempt = a
  BY <1>0 DEF HandoffWritten
<1>8. history' = history \cup {[attempt |-> a, fence |-> fence, run |-> run, event |-> event]}
  BY DEF Reassign
<1>9. References'
  <2>1. \A k \in Keys : lease'[k] # None =>
          row'[lease'[k].attempt] # None /\ row'[lease'[k].attempt].key = k
    BY <1>1, <1>4, <1>5 DEF Ownership, TypeOK, Lease, References
  <2>2. \A h \in history' : row'[h.attempt] # None /\ h.fence <= fenceSeq'
    BY <1>1, <1>2, <1>3, <1>4, <1>8 DEF Ownership, TypeOK, Event, References
  <2>3. \A r \in Resources : lock'[r] # None =>
          row'[lock'[r].attempt] # None /\ r \in ResourceKeys(row'[lock'[r].attempt].environment)
    <3>1. \A r \in Resources : lock[r] # None => lock[r].attempt \in Attempts
      BY DEF Ownership, TypeOK, Lock
    <3> QED
      BY <1>1, <1>4, <1>6, <1>7, <3>1 DEF Ownership, References
  <2> QED
    BY <2>1, <2>2, <2>3 DEF References
<1>10. LiveLeaseHoldsLocks'
  <2> SUFFICES ASSUME NEW k \in Keys, Live(k)' PROVE ResourceOwner(lease[k].attempt)'
    BY DEF LiveLeaseHoldsLocks
  <2>1. CASE k = key
    BY <2>1, <1>1, <1>4, <1>5, <1>6 DEF ResourceOwner, LeaseOf
  <2>2. CASE k # key
    <3>1. Live(k) /\ lease'[k] = lease[k]
      BY <2>2, <1>3, <1>5 DEF Live
    <3> DEFINE b == lease[k].attempt
    <3>2. /\ b \in Attempts /\ row[b].key = k
          /\ \A r \in ResourceKeys(row[b].environment) :
                /\ r \notin res
                /\ lock[r] = [attempt |-> b, fence |-> lease[k].fence,
                              expiresAt |-> lease[k].expiresAt, run |-> lease[k].run]
      BY <2>2, <3>1, <1>1, OwnersAreDisjoint DEF Ownership
    <3>3. row[b] # None /\ ResourceKeys(row[b].environment) \subseteq Resources
      BY <3>1, ResourceKeysType DEF Ownership, References, TypeOK, Live, Lease, Row
    <3>4. \A r \in ResourceKeys(row[b].environment) : lock'[r] = lock[r]
      BY <3>2, <3>3, <1>6
    <3> QED
      BY <3>1, <3>2, <3>3, <3>4, <1>4 DEF ResourceOwner, LeaseOf
  <2> QED
    BY <2>1, <2>2
<1>11. DisplacedIsCleaned'
  <2>1. \A x \in Attempts : Displaced(x)' <=> Displaced(x)
    BY <1>1, <1>4, <1>6, <1>7, ResourceKeysType DEF Displaced, Ownership, TypeOK, Row
  <2>2. \A x \in Attempts : Cleaned(x)' <=> Cleaned(x)
    BY <1>4 DEF Cleaned
  <2>3. \A x \in Attempts : OwnsLease(x)' => OwnsLease(x)
    BY <1>1, <1>4, <1>5, NoneAssumption DEF OwnsLease, LeaseOf, Ownership, TypeOK, Row
  <2> QED
    BY <1>3, <2>1, <2>2, <2>3 DEF Ownership, DisplacedIsCleaned
<1>12. LockCarriesLatestGrant'
  <2> SUFFICES ASSUME NEW r \in Resources, lock'[r] # None
               PROVE  /\ \E h \in history' : h.attempt = lock'[r].attempt /\ h.fence = lock'[r].fence
                      /\ \A h \in history' : r \in ResourceKeys(row'[h.attempt].environment) =>
                            h.fence <= lock'[r].fence
    BY DEF LockCarriesLatestGrant
  <2>1. CASE r \in res
    <3>1. lock'[r].attempt = a /\ lock'[r].fence = fence
      BY <2>1, <1>6
    <3>2. \E h \in history' : h.attempt = a /\ h.fence = fence
      <4> DEFINE grant == [attempt |-> a, fence |-> fence, run |-> run, event |-> event]
      <4>1. grant \in history'
        BY <1>8
      <4>2. grant.attempt = a /\ grant.fence = fence
        OBVIOUS
      <4> QED
        BY <4>1, <4>2
    <3>3. \A h \in history' : h.fence <= fence
      BY <1>3, <1>9 DEF References
    <3> QED
      BY <3>1, <3>2, <3>3
  <2>2. CASE r \notin res
    <3>1. \A h \in history : h.attempt \in Attempts /\ row[h.attempt] # None
      BY DEF Ownership, TypeOK, Event, References
    <3>2. row'[a].environment = row[a].environment
      BY <1>1, <1>4
    <3> QED
      BY <2>2, <3>1, <3>2, <1>4, <1>6, <1>8 DEF Ownership, LockCarriesLatestGrant
  <2> QED
    BY <2>1, <2>2
<1> QED
  BY <1>9, <1>10, <1>11, <1>12 DEF Ownership

\* cleanup releases the lease and both locks of an attempt that owns them.
LEMMA OwnershipCleanup == ASSUME Ownership, TypeOK', CleanupStep PROVE Ownership'
<1> PICK a \in Attempts, f \in Fences : Cleanup(a, f)
  BY DEF CleanupStep
<1> DEFINE key == row[a].key
<1> DEFINE res == ResourceKeys(row[a].environment)
<1>1. /\ row[a] \in Row /\ row[a] # None /\ key \in Keys /\ res \subseteq Resources
      /\ ResourceOwner(a)
  BY ResourceKeysType DEF Cleanup, Fenced, OwnsLease, Ownership, TypeOK, Row
<1>2. UNCHANGED <<clock, fenceSeq, history, receipt>>
  BY DEF Cleanup, ledger
<1>3. /\ \A x \in Attempts :
           /\ row'[x] = None <=> row[x] = None
           /\ row[x] # None => /\ row'[x].key = row[x].key
                               /\ row'[x].environment = row[x].environment
           /\ x # a => row'[x] = row[x]
      /\ row'[a].cleanupStatus = "complete"
  BY <1>1, NoneAssumption DEF Cleanup, Ownership, TypeOK, Row
<1>4. lease'[key] = None /\ \A k \in Keys : k # key => lease'[k] = lease[k]
  BY <1>1 DEF Cleanup, Ownership, TypeOK
<1>5. /\ \A r \in res : lock'[r] = None /\ lock[r].attempt = a
      /\ \A r \in Resources : r \notin res => lock'[r] = lock[r]
  BY <1>1 DEF Cleanup, ResourceOwner
<1>6. References'
  BY <1>2, <1>3, <1>4, <1>5 DEF Ownership, TypeOK, Lease, Lock, Event, References
<1>7. LiveLeaseHoldsLocks'
  <2> SUFFICES ASSUME NEW k \in Keys, Live(k)' PROVE ResourceOwner(lease[k].attempt)'
    BY DEF LiveLeaseHoldsLocks
  <2>1. k # key /\ Live(k) /\ lease'[k] = lease[k]
    BY <1>2, <1>4 DEF Live
  <2> DEFINE b == lease[k].attempt
  <2>2. /\ b \in Attempts /\ row[b].key = k
        /\ \A r \in ResourceKeys(row[b].environment) :
              /\ r \notin res
              /\ lock[r] = [attempt |-> b, fence |-> lease[k].fence,
                            expiresAt |-> lease[k].expiresAt, run |-> lease[k].run]
    BY <2>1, <1>1, OwnersAreDisjoint DEF Ownership
  <2>3. row[b] # None /\ ResourceKeys(row[b].environment) \subseteq Resources
    BY <2>1, ResourceKeysType DEF Ownership, References, TypeOK, Live, Lease, Row
  <2>4. \A r \in ResourceKeys(row[b].environment) : lock'[r] = lock[r]
    BY <2>2, <2>3, <1>5
  <2> QED
    BY <2>1, <2>2, <2>3, <2>4, <1>3 DEF ResourceOwner, LeaseOf
<1>8. DisplacedIsCleaned'
  <2>1. \A x \in Attempts : x # a => (Displaced(x)' <=> Displaced(x))
    BY <1>3, <1>5, ResourceKeysType DEF Displaced, Ownership, TypeOK, Row
  <2>2. Displaced(a)' /\ Cleaned(a)' /\ ~OwnsLease(a)'
    BY <1>1, <1>3, <1>4, <1>5 DEF Displaced, Cleaned, OwnsLease, LeaseOf, ResourceKeys
  <2>3. \A x \in Attempts : OwnsLease(x)' => OwnsLease(x)
    BY <1>1, <1>3, <1>4 DEF OwnsLease, LeaseOf, Ownership, TypeOK, Row
  <2> QED
    BY <1>2, <1>3, <2>1, <2>2, <2>3 DEF Ownership, DisplacedIsCleaned, Cleaned
<1>9. LockCarriesLatestGrant'
  BY <1>2, <1>3, <1>5 DEF Ownership, TypeOK, Event, References, LockCarriesLatestGrant
<1> QED
  BY <1>6, <1>7, <1>8, <1>9 DEF Ownership

\* What admission writes: the attempt's own rows, and the mark on each attempt in
\* its way, which is admitted, settled and somebody else.
AdmissionWritten(a, key, env, run, expiry) ==
    /\ \A p \in PriorOwners(key, env) :
         p \in Attempts /\ row[p] \in Row /\ row[p] # None /\ receipt[p] # None
    /\ \A x \in Attempts : x # a =>
         /\ row'[x] = None <=> row[x] = None
         /\ row[x] # None => /\ row'[x].key = row[x].key
                             /\ row'[x].environment = row[x].environment
         /\ x \notin PriorOwners(key, env) => row'[x] = row[x]
    /\ \A p \in PriorOwners(key, env) : p # a /\ row'[p].cleanupStatus = "complete"
    /\ row'[a] # None /\ row'[a].key = key /\ row'[a].environment = env
    /\ row'[a].cleanupStatus = "pending"
    /\ lease'[key] = [attempt |-> a, fence |-> fenceSeq + 1,
                      expiresAt |-> expiry, run |-> run,
                      recoveryOnly |-> FALSE]
    /\ \A k \in Keys : k # key => lease'[k] = lease[k]
    /\ \A r \in ResourceKeys(env) :
         /\ lock'[r] = [attempt |-> a, fence |-> fenceSeq + 1,
                        expiresAt |-> expiry, run |-> run]
         /\ lock'[r] # None /\ lock'[r].attempt = a
    /\ \A r \in Resources : r \notin ResourceKeys(env) => lock'[r] = lock[r]

\* prepare writes this of the attempt it admits.
LEMMA AdmissionWrites ==
    ASSUME Ownership, NEW a \in Attempts, NEW key \in Keys, NEW env \in Environments,
           NEW run \in Runs, NEW ttl \in TTLs, NEW quotas \in Policies,
           NEW projection \in Usages, NEW now \in EarlierReadings,
           Prepare(a, key, env, run, ttl, quotas, projection, now)
    PROVE  AdmissionWritten(a, key, env, run, ExpiryAfter(now, ttl))
<1> DEFINE res == ResourceKeys(env)
<1> DEFINE fence == fenceSeq + 1
<1> DEFINE expiry == ExpiryAfter(now, ttl)
<1> DEFINE priors == PriorOwners(key, env)
<1>1. now \in Nat /\ fence \in Nat /\ expiry \in Nat
  BY NumericAssumption DEF Ownership, TypeOK, EarlierReadings, ExpiryAfter
<1>2. row[a] = None /\ res \subseteq Resources /\ PriorRowsAgree(key, env, now)
  BY ResourceKeysType DEF Prepare
<1>3. \A p \in priors : p \in Attempts /\ row[p] \in Row /\ row[p] # None /\ receipt[p] # None
  BY <1>1, <1>2, PriorOwnersAdmitted, NoneAssumption DEF Prepare, GivesWay, Ownership
<1>4. /\ \A x \in Attempts : x # a =>
           /\ row'[x] = None <=> row[x] = None
           /\ row[x] # None => /\ row'[x].key = row[x].key
                               /\ row'[x].environment = row[x].environment
           /\ x \notin priors => row'[x] = row[x]
      /\ \A p \in priors : p # a /\ row'[p].cleanupStatus = "complete"
      /\ row'[a] # None /\ row'[a].key = key /\ row'[a].environment = env
      /\ row'[a].cleanupStatus = "pending"
  <2> DEFINE admitted == [key |-> key, environment |-> env, workflow |-> run,
                          state |-> "collecting", cleanupStatus |-> "pending"]
  <2>1. row' = [x \in Attempts |->
          IF x = a THEN admitted
          ELSE IF x \in priors THEN [row[x] EXCEPT !.cleanupStatus = "complete"]
          ELSE row[x]]
    BY DEF Prepare
  <2>2. admitted \in Row
    BY DEF Row, States
  <2>3. \A p \in priors : p # a
    BY <1>2, <1>3
  <2>4. \A p \in priors : row'[p] = [row[p] EXCEPT !.cleanupStatus = "complete"]
    BY <1>3, <2>1, <2>3
  <2>5. \A p \in priors : /\ row'[p] \in Row /\ row'[p].cleanupStatus = "complete"
                           /\ row'[p].key = row[p].key
                           /\ row'[p].environment = row[p].environment
    <3> SUFFICES ASSUME NEW p \in priors
                 PROVE  /\ row'[p] \in Row /\ row'[p].cleanupStatus = "complete"
                        /\ row'[p].key = row[p].key
                        /\ row'[p].environment = row[p].environment
      OBVIOUS
    <3>1. row[p] \in Row /\ row'[p] = [row[p] EXCEPT !.cleanupStatus = "complete"]
      BY <1>3, <2>4
    <3> QED
      BY <3>1 DEF Row
  <2>6. row'[a] = admitted
    BY <2>1
  <2> QED
    BY <1>3, <2>1, <2>2, <2>3, <2>5, <2>6, NoneAssumption
<1>5. /\ lease'[key] = [attempt |-> a, fence |-> fence, expiresAt |-> expiry, run |-> run,
                        recoveryOnly |-> FALSE]
      /\ \A k \in Keys : k # key => lease'[k] = lease[k]
  BY DEF Prepare, Ownership, TypeOK
<1>6. /\ \A r \in res : lock'[r] = [attempt |-> a, fence |-> fence, expiresAt |-> expiry,
                                    run |-> run]
      /\ \A r \in res : lock'[r] # None /\ lock'[r].attempt = a
      /\ \A r \in Resources : r \notin res => lock'[r] = lock[r]
  <2>1. \A r \in res : lock'[r] = [attempt |-> a, fence |-> fence, expiresAt |-> expiry,
                                    run |-> run]
    BY <1>2 DEF Prepare
  <2>2. \A r \in res : lock'[r] \in Lock
    BY <1>1, <2>1 DEF Lock
  <2>3. \A r \in Resources : r \notin res => lock'[r] = lock[r]
    BY DEF Prepare
  <2> QED
    BY <2>1, <2>2, <2>3, NoneAssumption
<1> QED
  BY <1>3, <1>4, <1>5, <1>6 DEF AdmissionWritten

\* Admission of a new attempt.  Whoever stands in the way has expired by a clock
\* reading that is not ahead of the clock, agrees with its lease row, is settled
\* and is marked cleaned up in the same transaction.
LEMMA OwnershipPrepare == ASSUME Ownership, TypeOK', AdmitStep PROVE Ownership'
<1> PICK a \in Attempts, key \in Keys, env \in Environments, run \in Runs, ttl \in TTLs,
         quotas \in Policies, projection \in Usages, now \in EarlierReadings :
        Prepare(a, key, env, run, ttl, quotas, projection, now)
  BY DEF AdmitStep
<1> DEFINE res == ResourceKeys(env)
<1> DEFINE fence == fenceSeq + 1
<1> DEFINE expiry == ExpiryAfter(now, ttl)
<1> DEFINE priors == PriorOwners(key, env)
<1>0. AdmissionWritten(a, key, env, run, expiry)
  BY AdmissionWrites
<1>1. /\ now \in Nat /\ now <= clock /\ clock \in Nat
      /\ fenceSeq \in Nat /\ fence \in Nat /\ expiry \in Nat
  BY NumericAssumption DEF Ownership, TypeOK, EarlierReadings, ExpiryAfter
<1>2. row[a] = None /\ res \subseteq Resources /\ PriorRowsAgree(key, env, now)
  BY ResourceKeysType DEF Prepare
<1>3. \A p \in priors : p \in Attempts /\ row[p] \in Row /\ row[p] # None /\ receipt[p] # None
  BY <1>0 DEF AdmissionWritten
<1>4. UNCHANGED <<clock, receipt>> /\ fenceSeq' = fence
  BY DEF Prepare
<1>5. /\ \A x \in Attempts : x # a =>
           /\ row'[x] = None <=> row[x] = None
           /\ row[x] # None => /\ row'[x].key = row[x].key
                               /\ row'[x].environment = row[x].environment
           /\ x \notin priors => row'[x] = row[x]
      /\ \A p \in priors : p # a /\ row'[p].cleanupStatus = "complete"
      /\ row'[a] # None /\ row'[a].key = key /\ row'[a].environment = env
      /\ row'[a].cleanupStatus = "pending"
  BY <1>0 DEF AdmissionWritten
<1>6. /\ lease'[key] = [attempt |-> a, fence |-> fence, expiresAt |-> expiry, run |-> run,
                        recoveryOnly |-> FALSE]
      /\ \A k \in Keys : k # key => lease'[k] = lease[k]
  BY <1>0 DEF AdmissionWritten
<1>7. /\ \A r \in res : lock'[r] = [attempt |-> a, fence |-> fence, expiresAt |-> expiry,
                                    run |-> run]
      /\ \A r \in res : lock'[r] # None /\ lock'[r].attempt = a
      /\ \A r \in Resources : r \notin res => lock'[r] = lock[r]
  BY <1>0 DEF AdmissionWritten
<1>8. PICK event \in Grants :
        history' = history \cup {[attempt |-> a, fence |-> fence, run |-> run, event |-> event]}
  <2> DEFINE event == IF lease[key] # None THEN "takeover" ELSE "acquired"
  <2>1. event \in Grants
    BY DEF Grants
  <2>2. history' = history \cup
          {[attempt |-> a, fence |-> fence, run |-> run, event |-> event]}
    BY DEF Prepare
  <2> QED
    BY <2>1, <2>2
<1>9. References'
  <2>1. \A k \in Keys : lease'[k] # None =>
          row'[lease'[k].attempt] # None /\ row'[lease'[k].attempt].key = k
    BY <1>2, <1>5, <1>6 DEF Ownership, TypeOK, Lease, References
  <2>2. \A h \in history : h.attempt \in Attempts /\ h.attempt # a /\ row'[h.attempt] # None
                          /\ h.fence \in Nat /\ h.fence <= fenceSeq
    BY <1>2, <1>5 DEF Ownership, TypeOK, Event, References
  <2>3. \A h \in history' : row'[h.attempt] # None /\ h.fence <= fenceSeq'
    BY <1>1, <1>4, <1>5, <1>8, <2>2
  <2>4. \A r \in Resources : lock[r] # None => lock[r].attempt \in Attempts /\ lock[r].attempt # a
    BY <1>2 DEF Ownership, TypeOK, Lock, References
  <2>5. \A r \in Resources : lock'[r] # None =>
          row'[lock'[r].attempt] # None /\ r \in ResourceKeys(row'[lock'[r].attempt].environment)
    BY <1>5, <1>7, <2>4 DEF Ownership, References
  <2> QED
    BY <2>1, <2>3, <2>5 DEF References
<1>10. LiveLeaseHoldsLocks'
  <2> SUFFICES ASSUME NEW k \in Keys, Live(k)' PROVE ResourceOwner(lease[k].attempt)'
    BY DEF LiveLeaseHoldsLocks
  <2>1. CASE k = key
    BY <2>1, <1>5, <1>6, <1>7 DEF ResourceOwner, LeaseOf
  <2>2. CASE k # key
    <3>1. Live(k) /\ lease'[k] = lease[k]
      BY <2>2, <1>4, <1>6 DEF Live
    <3> DEFINE b == lease[k].attempt
    <3>2. b \in Attempts /\ row[b] # None /\ row[b].key = k /\ b # a
      BY <3>1, <1>2 DEF Live, Ownership, References, TypeOK, Lease
    <3>3. /\ ResourceKeys(row[b].environment) \subseteq Resources
          /\ row'[b].key = k /\ row'[b].environment = row[b].environment
      BY <3>2, <1>5, ResourceKeysType DEF Ownership, TypeOK, Row
    <3>4. \A r \in ResourceKeys(row[b].environment) :
            lock[r] = [attempt |-> b, fence |-> lease[k].fence,
                       expiresAt |-> lease[k].expiresAt, run |-> lease[k].run]
      BY <3>1, <3>2 DEF Ownership, LiveLeaseHoldsLocks, ResourceOwner, LeaseOf
    <3>5. lease[k].expiresAt \in Nat /\ lease[k].expiresAt > clock
      BY <3>1 DEF Live, Ownership, TypeOK, Lease
    <3>6. \A r \in ResourceKeys(row[b].environment) : r \notin res
      <4> SUFFICES ASSUME NEW r \in ResourceKeys(row[b].environment), r \in res PROVE FALSE
        OBVIOUS
      <4>1. lock[r] \in Lock /\ lock[r].expiresAt = lease[k].expiresAt
        BY <3>1, <3>2, <3>4 DEF Lock, Live, Ownership, TypeOK, Lease
      <4>2. lock[r].expiresAt <= now
        BY <4>1, <1>2, NoneAssumption DEF PriorRowsAgree
      <4> QED
        BY <4>1, <4>2, <3>5, <1>1
    <3>7. \A r \in ResourceKeys(row[b].environment) : lock'[r] = lock[r]
      BY <3>3, <3>6, <1>7
    <3> QED
      BY <3>1, <3>3, <3>4, <3>7 DEF ResourceOwner, LeaseOf
  <2> QED
    BY <2>1, <2>2
<1>11. DisplacedIsCleaned'
  <2> SUFFICES ASSUME NEW x \in Attempts
               PROVE  /\ Cleaned(x)' => Displaced(x)'
                      /\ Displaced(x)' => Cleaned(x)'
                      /\ Displaced(x)' /\ OwnsLease(x)' => receipt'[x] # None
    BY DEF DisplacedIsCleaned
  <2>1. CASE x = a
    BY <2>1, <1>5, <1>7 DEF Cleaned, Displaced
  <2>2. CASE x \in priors
    <3>1. Cleaned(x)' /\ receipt'[x] # None /\ row[x] # None
      BY <2>2, <1>3, <1>4, <1>5 DEF Cleaned
    <3>2. \E r \in res : lock[r] # None /\ lock[r].attempt = x
      BY <2>2, <1>2 DEF PriorOwners, PriorRowsAgree
    <3>3. PICK r \in res : lock[r] # None /\ lock[r].attempt = x
      BY <3>2
    <3>4. x # a
      BY <3>1, <1>2
    <3>5. r \in ResourceKeys(row[x].environment)
      BY <3>3, <1>2 DEF Ownership, References
    <3> QED
      BY <3>1, <3>4, <3>5, <1>5, <1>7 DEF Displaced
  <2>3. CASE x # a /\ x \notin priors
    <3>1. row'[x] = row[x]
      BY <2>3, <1>5
    <3>2. \A r \in res : lock[r] = None \/ lock[r].attempt # x
      BY <2>3 DEF PriorOwners
    <3>3. row[x] # None => ResourceKeys(row[x].environment) \subseteq Resources
      BY ResourceKeysType DEF Ownership, TypeOK, Row
    <3>4. Displaced(x)' <=> Displaced(x)
      BY <2>3, <3>1, <3>2, <3>3, <1>7 DEF Displaced
    <3>5. OwnsLease(x)' => OwnsLease(x)
      BY <2>3, <3>1, <1>6 DEF OwnsLease, LeaseOf, Ownership, TypeOK, Row
    <3> QED
      BY <3>1, <3>4, <3>5, <1>4 DEF Ownership, DisplacedIsCleaned, Cleaned
  <2> QED
    BY <2>1, <2>2, <2>3
<1>12. LockCarriesLatestGrant'
  <2> SUFFICES ASSUME NEW r \in Resources, lock'[r] # None
               PROVE  /\ \E h \in history' : h.attempt = lock'[r].attempt /\ h.fence = lock'[r].fence
                      /\ \A h \in history' : r \in ResourceKeys(row'[h.attempt].environment) =>
                            h.fence <= lock'[r].fence
    BY DEF LockCarriesLatestGrant
  <2>1. CASE r \in res
    <3>1. lock'[r].attempt = a /\ lock'[r].fence = fence
      BY <2>1, <1>7
    <3>2. \E h \in history' : h.attempt = a /\ h.fence = fence
      <4> DEFINE grant == [attempt |-> a, fence |-> fence, run |-> run, event |-> event]
      <4>1. grant \in history'
        BY <1>8
      <4>2. grant.attempt = a /\ grant.fence = fence
        OBVIOUS
      <4> QED
        BY <4>1, <4>2
    <3>3. \A h \in history' : h.fence <= fence
      BY <1>4, <1>9 DEF References
    <3> QED
      BY <3>1, <3>2, <3>3
  <2>2. CASE r \notin res
    <3>1. \A h \in history : /\ h.attempt \in Attempts /\ h.attempt # a
                             /\ row'[h.attempt].environment = row[h.attempt].environment
      BY <1>2, <1>5 DEF Ownership, TypeOK, Event, References
    <3>2. lock'[r] = lock[r]
      BY <2>2, <1>7
    <3>3. \A h \in history' : h \in history \/ (h.attempt = a /\ row'[h.attempt].environment = env)
      BY <1>5, <1>8
    <3> QED
      BY <2>2, <3>1, <3>2, <3>3, <1>8 DEF Ownership, LockCarriesLatestGrant
  <2> QED
    BY <2>1, <2>2
<1> QED
  BY <1>9, <1>10, <1>11, <1>12 DEF Ownership

\* At the start nobody owns anything.
LEMMA OwnershipInit == Init => Ownership
<1> SUFFICES ASSUME Init PROVE Ownership
  OBVIOUS
<1>1. TypeOK
  BY TypeInit
<1>2. References /\ LiveLeaseHoldsLocks
  BY DEF Init, References, LiveLeaseHoldsLocks, Live
<1>3. DisplacedIsCleaned /\ LockCarriesLatestGrant
  BY DEF Init, DisplacedIsCleaned, Cleaned, Displaced, LockCarriesLatestGrant
<1> QED
  BY <1>1, <1>2, <1>3 DEF Ownership

\* The ownership invariant is inductive.
LEMMA OwnershipNext == ASSUME Ownership, [Next]_vars PROVE Ownership'
<1>1. TypeOK /\ TypeOK'
  BY TypeNext DEF Ownership
<1> QED
  BY <1>1, StepCases, OwnershipPrepare, OwnershipReassign, OwnershipRenew, OwnershipTransition,
     OwnershipCleanup, OwnershipQuiet

\* The lease table, the lock table, the history and the attempts agree in every
\* reachable state.
THEOREM OwnershipInvariant == Spec => []Ownership
BY OwnershipInit, OwnershipNext, PTL DEF Spec

\* Mutual exclusion for every number of attempts, keys and resources: two live
\* leases never share a Supabase project or a Stripe account.
THEOREM Exclusion == Spec => []SharedResourceExclusion
<1>1. Ownership => SharedResourceExclusion
  <2> SUFFICES ASSUME Ownership, NEW k1 \in Keys, NEW k2 \in Keys, k1 # k2, Live(k1), Live(k2)
               PROVE  ResourceKeys(row[lease[k1].attempt].environment)
                          \cap ResourceKeys(row[lease[k2].attempt].environment) = {}
    BY DEF SharedResourceExclusion
  <2>1. /\ lease[k1].attempt \in Attempts /\ row[lease[k1].attempt] # None
        /\ row[lease[k1].attempt].key = k1
    BY DEF Live, Ownership, References, TypeOK, Lease
  <2>2. ResourceOwner(lease[k1].attempt)
    BY DEF Ownership, LiveLeaseHoldsLocks
  <2> QED
    BY <2>1, <2>2, OwnersAreDisjoint DEF Ownership
<1> QED
  BY <1>1, OwnershipInvariant, PTL

\* What a displaced attempt lacks: the locks every fenced operation asks for.
LEMMA DisplacedOwnsNothing ==
    ASSUME Ownership, NEW a \in Attempts, Displaced(a)
    PROVE  /\ row[a] \in Row /\ row[a] # None /\ row[a].cleanupStatus = "complete"
           /\ ~(OwnsLease(a) /\ ResourceOwner(a))
           /\ OwnsLease(a) => receipt[a] # None
<1>1. row[a] \in Row /\ row[a] # None
  BY DEF Displaced, Ownership, TypeOK
<1>2. row[a].cleanupStatus = "complete" /\ (OwnsLease(a) => receipt[a] # None)
  BY DEF Ownership, DisplacedIsCleaned, Cleaned
<1>3. ~(OwnsLease(a) /\ ResourceOwner(a))
  <2> SUFFICES ASSUME OwnsLease(a), ResourceOwner(a) PROVE FALSE
    OBVIOUS
  <2>1. LeaseOf(a) \in Lease
    BY <1>1 DEF OwnsLease, LeaseOf, Ownership, TypeOK, Row
  <2>2. \A r \in ResourceKeys(row[a].environment) : lock[r] \in Lock /\ lock[r].attempt = a
    BY <2>1 DEF ResourceOwner, Lock, Lease
  <2> QED
    BY <2>2, NoneAssumption DEF Displaced
<1> QED
  BY <1>1, <1>2, <1>3

(***************************************************************************)
(* Ownership moves                                                         *)
(***************************************************************************)

\* Admission moves a lock only from an owner that gave way.
LEMMA AdmissionMovesFromEnded ==
    ASSUME Ownership, AdmitStep, NEW r \in Resources, lock[r] # None,
           lock'[r] # lock[r]
    PROVE  lock[r].run \in ended
<1> PICK a \in Attempts, k \in Keys, env \in Environments, run \in Runs, ttl \in TTLs,
         quotas \in Policies, projection \in Usages, now \in EarlierReadings :
        Prepare(a, k, env, run, ttl, quotas, projection, now)
  BY DEF AdmitStep
<1>1. r \in ResourceKeys(env)
  BY DEF Prepare
<1>2. lock[r].attempt \in PriorOwners(k, env)
  BY <1>1 DEF PriorOwners
<1>3. LeaseOf(lock[r].attempt).run = lock[r].run
  BY <1>1 DEF Prepare, PriorRowsAgree
<1> QED
  BY <1>2, <1>3 DEF Prepare, GivesWay

\* A handoff moves the locks of an attempt whose owner run is over.
LEMMA ReassignMovesFromEnded ==
    ASSUME Ownership, ReassignStep, NEW r \in Resources, lock'[r] # lock[r]
    PROVE  lock[r].run \in ended
<1> PICK a \in Attempts, run \in Runs, ttl \in TTLs, recoveryOnly \in BOOLEAN, event \in Grants :
        /\ OwnsLease(a)
        /\ ResourceOwner(a)
        /\ LeaseOf(a).run \in ended
        /\ Reassign(a, run, ttl, recoveryOnly, event)
  BY DEF ReassignStep
<1>1. r \in ResourceKeys(row[a].environment)
  BY DEF Reassign
<1> QED
  BY <1>1 DEF ResourceOwner

\* renew extends a lock under the fence it carries.
LEMMA RenewKeepsFences ==
    ASSUME Ownership, RenewStep, NEW r \in Resources, lock[r] # None
    PROVE  lock'[r].fence = lock[r].fence
<1> PICK a \in Attempts, f \in Fences, ttl \in TTLs : Renew(a, f, ttl)
  BY DEF RenewStep
<1> QED
  BY DEF Renew, Ownership, TypeOK, Lock

\* A resource passes from one fence to the next only when the run that held it
\* is terminal and its runner is removed: expiry alone never moves ownership.
OwnershipMovesOnlyFromEndedRuns ==
    [][\A r \in Resources :
          lock[r] # None /\ lock[r]' # None /\ lock[r]'.fence # lock[r].fence =>
              lock[r].run \in ended]_vars

\* Ownership moves from ended runs only, for every number of runs and resources.
THEOREM OwnershipMoves == Spec => OwnershipMovesOnlyFromEndedRuns
<1> DEFINE Moves ==
      \A r \in Resources :
          lock[r] # None /\ lock[r]' # None /\ lock[r]'.fence # lock[r].fence =>
              lock[r].run \in ended
<1>1. ASSUME Ownership, [Next]_vars PROVE Moves
  <2> SUFFICES ASSUME NEW r \in Resources, lock[r] # None, lock'[r] # None,
                      lock'[r].fence # lock[r].fence
               PROVE  lock[r].run \in ended
    OBVIOUS
  <2>1. lock'[r] # lock[r]
    OBVIOUS
  <2>2. CASE AdmitStep
    BY <1>1, <2>1, <2>2, AdmissionMovesFromEnded
  <2>3. CASE ReassignStep
    BY <1>1, <2>1, <2>3, ReassignMovesFromEnded
  <2>4. CASE RenewStep
    BY <1>1, <2>4, RenewKeepsFences
  <2>5. CASE TransitionStep \/ QuietStep
    BY <2>1, <2>5 DEF TransitionStep, Transition, QuietStep
  <2>6. CASE CleanupStep
    <3> PICK a \in Attempts, f \in Fences : Cleanup(a, f)
      BY <2>6 DEF CleanupStep
    <3>1. lock' = [x \in Resources |->
            IF x \in ResourceKeys(row[a].environment) THEN None ELSE lock[x]]
      BY DEF Cleanup
    <3> QED
      BY <2>1, <3>1
  <2> QED
    BY <1>1, <2>2, <2>3, <2>4, <2>5, <2>6, StepCases DEF Ownership
<1>2. ASSUME Ownership, [Next]_vars PROVE [Moves]_vars
  BY <1>1, <1>2
<1> QED
  BY <1>2, OwnershipInvariant, PTL DEF Spec, OwnershipMovesOnlyFromEndedRuns

(***************************************************************************)
(* Superseded attempts                                                     *)
(***************************************************************************)

\* A later grant to somebody else has taken a lock from the attempt.
LEMMA SupersededIsDisplaced ==
    ASSUME Ownership, NEW a \in Attempts, Superseded(a)
    PROVE  Displaced(a)
<1> SUFFICES ASSUME ~Displaced(a) PROVE FALSE
  OBVIOUS
<1>1. PICK h \in history :
        /\ h.attempt # a
        /\ ResourceKeys(row[a].environment) \cap ResourceKeys(row[h.attempt].environment) # {}
        /\ \A g \in history : g.attempt = a => g.fence < h.fence
  BY DEF Superseded
<1>2. PICK r \in ResourceKeys(row[a].environment) : r \in ResourceKeys(row[h.attempt].environment)
  BY <1>1
<1>3. r \in Resources /\ lock[r] # None /\ lock[r].attempt = a
  BY <1>2, ResourceKeysType DEF Superseded, Displaced, Ownership, TypeOK, Row
<1>4. PICK g \in history : g.attempt = a /\ g.fence = lock[r].fence
  BY <1>3 DEF Ownership, LockCarriesLatestGrant
<1>5. h.fence <= lock[r].fence
  BY <1>2, <1>3 DEF Ownership, LockCarriesLatestGrant
<1>6. g.fence \in Nat /\ h.fence \in Nat
  BY DEF Ownership, TypeOK, Event
<1> QED
  BY <1>1, <1>4, <1>5, <1>6

\* Recording something of one attempt adds nothing to what is recorded of another.
LEMMA OthersUnaffected ==
    ASSUME NEW S, NEW e, NEW a, e.attempt # a
    PROVE  OfAttempt(S \cup {e}, a) = OfAttempt(S, a)
BY DEF OfAttempt

\* Admission of another attempt writes nothing of a displaced one: its row is
\* already marked.
LEMMA FrozenPrepare ==
    ASSUME Ownership, NEW a \in Attempts, Displaced(a), AdmitStep
    PROVE  Footprint(a)' = Footprint(a)
<1> PICK x \in Attempts, k \in Keys, env \in Environments, run \in Runs, ttl \in TTLs,
         quotas \in Policies, projection \in Usages, now \in EarlierReadings :
        Prepare(x, k, env, run, ttl, quotas, projection, now)
  BY DEF AdmitStep
<1>1. x # a
  BY DEF Prepare, Displaced
<1>2. row'[a] = row[a]
  <2>1. [row[a] EXCEPT !.cleanupStatus = "complete"] = row[a]
    BY DisplacedOwnsNothing DEF Row
  <2>2. row'[a] = IF a \in PriorOwners(k, env)
                  THEN [row[a] EXCEPT !.cleanupStatus = "complete"] ELSE row[a]
    BY <1>1 DEF Prepare
  <2> QED
    BY <2>1, <2>2
<1>3. reservation'[a] = reservation[a]
  BY <1>1 DEF Prepare, Ownership, TypeOK
<1>4. OfAttempt(history', a) = OfAttempt(history, a)
  <2> DEFINE grant == [attempt |-> x, fence |-> fenceSeq + 1, run |-> run,
                       event |-> IF lease[k] # None THEN "takeover" ELSE "acquired"]
  <2>1. history' = history \cup {grant}
    BY DEF Prepare
  <2>2. grant.attempt # a
    BY <1>1
  <2> HIDE DEF grant
  <2> QED
    BY <2>1, <2>2, OthersUnaffected
<1>5. UNCHANGED <<receipt, effects, cleanupReceipts>>
  BY DEF Prepare
<1> QED
  BY <1>2, <1>3, <1>4, <1>5 DEF Footprint, effects, OfAttempt

\* A handoff of another attempt writes nothing of a displaced one.
LEMMA FrozenReassign ==
    ASSUME Ownership, NEW a \in Attempts, Displaced(a), ReassignStep
    PROVE  Footprint(a)' = Footprint(a)
<1> PICK x \in Attempts, run \in Runs, ttl \in TTLs, recoveryOnly \in BOOLEAN, event \in Grants :
        /\ OwnsLease(x)
        /\ ResourceOwner(x)
        /\ Reassign(x, run, ttl, recoveryOnly, event)
  BY DEF ReassignStep
<1>1. x # a
  BY DisplacedOwnsNothing
<1>2. row'[a] = row[a]
  BY <1>1 DEF Reassign, Ownership, TypeOK
<1>3. OfAttempt(history', a) = OfAttempt(history, a)
  <2> DEFINE grant == [attempt |-> x, fence |-> fenceSeq + 1, run |-> run, event |-> event]
  <2>1. history' = history \cup {grant}
    BY DEF Reassign
  <2>2. grant.attempt # a
    BY <1>1
  <2> HIDE DEF grant
  <2> QED
    BY <2>1, <2>2, OthersUnaffected
<1>4. UNCHANGED <<ledger, effects, cleanupReceipts>>
  BY DEF Reassign
<1> QED
  BY <1>2, <1>3, <1>4 DEF Footprint, effects, ledger, OfAttempt

\* A Stripe intent is begun or reconciled only by an owner.
LEMMA FrozenProvider ==
    ASSUME Ownership, NEW a \in Attempts, Displaced(a), Provider
    PROVE  Footprint(a)' = Footprint(a)
<1> PICK x \in Attempts, f \in Fences :
      \/ \E op \in Operations : BeginStripeIntent(x, f, op)
      \/ \E i \in intents : ReconcileStripeIntent(x, f, i)
      \/ \E run \in Runs, ttl \in TTLs : HandoffStripeIntentRecovery(x, f, run, ttl)
  BY DEF Provider
<1>1. ASSUME NEW op \in Operations, BeginStripeIntent(x, f, op)
      PROVE  Footprint(a)' = Footprint(a)
  <2> DEFINE intent == [attempt |-> x, operation |-> op, fence |-> f]
  <2>1. intent.attempt # a
    BY <1>1, DisplacedOwnsNothing DEF BeginStripeIntent, Fenced
  <2>2. intents' = intents \cup {intent}
    BY <1>1 DEF BeginStripeIntent
  <2> HIDE DEF intent
  <2>3. OfAttempt(intents', a) = OfAttempt(intents, a)
    BY <2>1, <2>2, OthersUnaffected
  <2>4. UNCHANGED <<row, ledger, stripeReceipts, caseClaims, fixtureClaims, fixtureWrites,
                    cleanupReceipts, history>>
    BY <1>1 DEF BeginStripeIntent, ownership
  <2> QED
    BY <2>3, <2>4 DEF Footprint, ledger, OfAttempt
<1>2. ASSUME NEW i \in intents, ReconcileStripeIntent(x, f, i)
      PROVE  Footprint(a)' = Footprint(a)
  <2> DEFINE answer == [attempt |-> x, operation |-> i.operation, fence |-> f]
  <2>1. answer.attempt # a
    BY <1>2, DisplacedOwnsNothing DEF ReconcileStripeIntent, Fenced
  <2>2. stripeReceipts' = stripeReceipts \cup {answer}
    BY <1>2 DEF ReconcileStripeIntent
  <2> HIDE DEF answer
  <2>3. OfAttempt(stripeReceipts', a) = OfAttempt(stripeReceipts, a)
    BY <2>1, <2>2, OthersUnaffected
  <2>4. UNCHANGED <<row, ledger, intents, caseClaims, fixtureClaims, fixtureWrites,
                    cleanupReceipts, history>>
    BY <1>2 DEF ReconcileStripeIntent, ownership
  <2> QED
    BY <2>3, <2>4 DEF Footprint, ledger, OfAttempt
<1>3. ASSUME NEW run \in Runs, NEW ttl \in TTLs, HandoffStripeIntentRecovery(x, f, run, ttl)
      PROVE  Footprint(a)' = Footprint(a)
  BY <1>3, FrozenReassign DEF HandoffStripeIntentRecovery, ReassignStep, Grants
<1> QED
  BY <1>1, <1>2, <1>3

\* Fixtures are written and claimed only by an owner.
LEMMA FrozenFixture ==
    ASSUME Ownership, NEW a \in Attempts, Displaced(a), Fixture
    PROVE  Footprint(a)' = Footprint(a)
<1> PICK x \in Attempts, f \in Fences :
      \/ FixtureMutation(x, f)
      \/ \E c \in Cases, ns \in Namespaces, kind \in FixtureKinds,
            fixture \in FixtureIds, rows \in RowRequests(x), outcome \in WriterOutcomes :
            FixtureMutationWithReservation(x, f, rows, c, ns, kind, fixture, outcome)
  BY DEF Fixture
<1> DEFINE write == [attempt |-> x, fence |-> f]
<1>1. x # a
  BY DisplacedOwnsNothing DEF FixtureMutation, FixtureMutationWithReservation, Fenced
<1>2. OfAttempt(fixtureWrites \cup {write}, a) = OfAttempt(fixtureWrites, a)
  <2>1. write.attempt # a
    BY <1>1
  <2> HIDE DEF write
  <2> QED
    BY <2>1, OthersUnaffected
<1>3. CASE FixtureMutation(x, f)
  <2>1. fixtureWrites' = fixtureWrites \cup {write}
    BY <1>3 DEF FixtureMutation
  <2>2. UNCHANGED <<row, ledger, intents, stripeReceipts, caseClaims, fixtureClaims,
                    cleanupReceipts, history>>
    BY <1>3 DEF FixtureMutation, ownership
  <2> QED
    BY <1>2, <2>1, <2>2 DEF Footprint, ledger, OfAttempt
<1>4. ASSUME NEW c \in Cases, NEW ns \in Namespaces, NEW kind \in FixtureKinds,
             NEW fixture \in FixtureIds, NEW rows \in RowRequests(x), NEW outcome \in WriterOutcomes,
             FixtureMutationWithReservation(x, f, rows, c, ns, kind, fixture, outcome)
      PROVE  Footprint(a)' = Footprint(a)
  <2> DEFINE case == [attempt |-> x, case |-> c, namespace |-> ns, fence |-> f]
  <2> DEFINE claim == [attempt |-> x, case |-> c, kind |-> kind, fixture |-> fixture]
  <2>1. case.attempt # a /\ claim.attempt # a
    BY <1>1
  <2>2. /\ caseClaims' = caseClaims \cup {case}
        /\ fixtureClaims' = fixtureClaims \cup {claim}
    BY <1>4 DEF FixtureMutationWithReservation
  <2>3. reservation'[a] = reservation[a]
    BY <1>1, <1>4 DEF FixtureMutationWithReservation, Ownership, TypeOK
  <2>4. fixtureWrites' = fixtureWrites \cup {write} \/ fixtureWrites' = fixtureWrites
    BY <1>4 DEF FixtureMutationWithReservation
  <2>5. UNCHANGED <<row, receipt, intents, stripeReceipts, cleanupReceipts, history>>
    BY <1>4 DEF FixtureMutationWithReservation, ownership
  <2> HIDE DEF case, claim, write
  <2>6. OfAttempt(caseClaims', a) = OfAttempt(caseClaims, a)
    BY <2>1, <2>2, OthersUnaffected
  <2>7. OfAttempt(fixtureClaims', a) = OfAttempt(fixtureClaims, a)
    BY <2>1, <2>2, OthersUnaffected
  <2>8. OfAttempt(fixtureWrites', a) = OfAttempt(fixtureWrites, a)
    BY <1>2, <2>4
  <2> QED
    BY <2>3, <2>5, <2>6, <2>7, <2>8 DEF Footprint, OfAttempt
<1> QED
  BY <1>3, <1>4

\* The remaining steps touch the attempt that makes them, or none.
LEMMA FrozenLife ==
    ASSUME Ownership, NEW a \in Attempts, Displaced(a), Life
    PROVE  Footprint(a)' = Footprint(a)
<1>1. ASSUME NEW x \in Attempts, NEW f \in Fences, NEW ttl \in TTLs, Renew(x, f, ttl)
      PROVE  Footprint(a)' = Footprint(a)
  BY <1>1 DEF Renew, Footprint, ledger, effects, OfAttempt
<1>2. ASSUME NEW x \in Attempts, NEW f \in Fences, NEW to \in States, Transition(x, f, to)
      PROVE  Footprint(a)' = Footprint(a)
  <2>1. x # a
    BY <1>2, DisplacedOwnsNothing DEF Transition, Fenced
  <2>2. row'[a] = row[a]
    BY <1>2, <2>1 DEF Transition, Ownership, TypeOK
  <2> QED
    BY <1>2, <2>2 DEF Transition, Footprint, ledger, effects, OfAttempt
<1>3. ASSUME NEW x \in Attempts, NEW f \in Fences, Cleanup(x, f)
      PROVE  Footprint(a)' = Footprint(a)
  <2> DEFINE done == [attempt |-> x, fence |-> f]
  <2>1. x # a
    BY <1>3, DisplacedOwnsNothing DEF Cleanup, Fenced
  <2>2. row'[a] = row[a]
    BY <1>3, <2>1 DEF Cleanup, Ownership, TypeOK
  <2>3. done.attempt # a
    BY <2>1
  <2>4. cleanupReceipts' = cleanupReceipts \cup {done}
    BY <1>3 DEF Cleanup
  <2> HIDE DEF done
  <2>5. OfAttempt(cleanupReceipts', a) = OfAttempt(cleanupReceipts, a)
    BY <2>3, <2>4, OthersUnaffected
  <2>6. UNCHANGED <<history, ledger, effects>>
    BY <1>3 DEF Cleanup
  <2> QED
    BY <2>2, <2>5, <2>6 DEF Footprint, ledger, effects, OfAttempt
<1>4. ASSUME NEW x \in Attempts, NEW run \in Runs, NEW ttl \in TTLs, ResumeRecheck(x, run, ttl)
      PROVE  Footprint(a)' = Footprint(a)
  <2>1. LeaseOf(x).recoveryOnly \in BOOLEAN
    BY <1>4 DEF ResumeRecheck, OwnsLease, LeaseOf, Ownership, TypeOK, Row, Lease
  <2>2. ReassignStep
    <3>1. "recheck_handoff" \in Grants
      BY DEF Grants
    <3> QED
      BY <1>4, <2>1, <3>1 DEF ResumeRecheck, ReassignStep
  <2> QED
    BY <2>2, FrozenReassign
<1> QED
  BY <1>1, <1>2, <1>3, <1>4 DEF Life

\* Fencing, for every number of attempts and runs: after a later grant of one of
\* its resources, no call on behalf of an attempt leaves a trace in the store.
THEOREM Fencing == Spec => SupersededAttemptFrozen
<1> DEFINE Frozen == \A a \in Attempts : Superseded(a) => Footprint(a)' = Footprint(a)
<1>1. ASSUME Ownership, [Next]_vars PROVE Frozen
  <2> SUFFICES ASSUME NEW a \in Attempts, Superseded(a) PROVE Footprint(a)' = Footprint(a)
    OBVIOUS
  <2>1. Displaced(a)
    BY <1>1, SupersededIsDisplaced
  <2>2. CASE UNCHANGED vars
    BY <2>2 DEF vars, ownership, ledger, effects, Footprint, OfAttempt
  <2>3. CASE Admission
    <3>1. CASE AdmitStep
      BY <1>1, <2>1, <3>1, FrozenPrepare
    <3>2. ASSUME NEW x \in Attempts, NEW run \in Runs, NEW quotas \in Policies,
                 NEW projection \in Usages, NEW now \in EarlierReadings,
                 PrepareReplay(x, run, quotas, projection, now)
          PROVE  Footprint(a)' = Footprint(a)
      BY <3>2 DEF PrepareReplay, Footprint, ledger, effects, OfAttempt
    <3> QED
      BY <2>3, <3>1, <3>2 DEF Admission, AdmitStep
  <2>4. CASE Settlement
    <3> PICK x \in Attempts, retained \in Usages : ReconcileReservation(x, retained)
      BY <2>4 DEF Settlement
    <3>1. x # a
      BY <1>1, <2>1, DisplacedOwnsNothing DEF ReconcileReservation
    <3>2. receipt'[a] = receipt[a]
      BY <1>1, <3>1 DEF ReconcileReservation, Ownership, TypeOK
    <3> QED
      BY <3>2 DEF ReconcileReservation, Footprint, ownership, effects, OfAttempt
  <2>5. CASE Provider
    BY <1>1, <2>1, <2>5, FrozenProvider
  <2>6. CASE Fixture
    BY <1>1, <2>1, <2>6, FrozenFixture
  <2>7. CASE Life
    BY <1>1, <2>1, <2>7, FrozenLife
  <2>8. CASE Surroundings
    BY <2>8 DEF Surroundings, Tick, RunEnds, ownership, ledger, effects, Footprint, OfAttempt
  <2> QED
    BY <1>1, <2>2, <2>3, <2>4, <2>5, <2>6, <2>7, <2>8 DEF Next
<1>2. ASSUME Ownership, [Next]_vars PROVE [Frozen]_vars
  BY <1>1, <1>2
<1> QED
  BY <1>2, OwnershipInvariant, PTL DEF Spec, SupersededAttemptFrozen
(***************************************************************************)
(* Grants                                                                  *)
(***************************************************************************)

AdmissionGrants == {"acquired", "takeover"}

\* Every lease row was granted to its attempt and run under its fence, and the one
\* of an attempt that still collects by the admission of that attempt.
GrantOf(k, h) ==
    /\ h.attempt = lease[k].attempt /\ h.fence = lease[k].fence /\ h.run = lease[k].run
    /\ row[lease[k].attempt].state = "collecting" => h.event \in AdmissionGrants

LeasesGranted == \A k \in Keys : lease[k] # None => \E h \in history : GrantOf(k, h)

\* No grant is forgotten.
LEMMA HistoryGrows ==
    ASSUME TypeOK, [Next]_vars
    PROVE  history \subseteq history'
<1>1. CASE AdmitStep
  BY <1>1 DEF AdmitStep, Prepare
<1>2. CASE ReassignStep
  BY <1>2 DEF ReassignStep, Reassign
<1>3. CASE RenewStep \/ TransitionStep \/ CleanupStep \/ QuietStep
  BY <1>3 DEF RenewStep, Renew, TransitionStep, Transition, CleanupStep, Cleanup, QuietStep
<1> QED
  BY <1>1, <1>2, <1>3, StepCases

\* Admission grants the lease it writes; the attempts it displaces keep their state.
LEMMA GrantedByAdmission ==
    ASSUME Ownership, LeasesGranted, AdmitStep
    PROVE  LeasesGranted'
<1> PICK a \in Attempts, key \in Keys, env \in Environments, run \in Runs, ttl \in TTLs,
         quotas \in Policies, projection \in Usages, now \in EarlierReadings :
        Prepare(a, key, env, run, ttl, quotas, projection, now)
  BY DEF AdmitStep
<1> DEFINE granted == IF lease[key] # None THEN "takeover" ELSE "acquired"
<1> DEFINE grant == [attempt |-> a, fence |-> fenceSeq + 1, run |-> run, event |-> granted]
<1>1. history' = history \cup {grant}
  BY DEF Prepare
<1>2. /\ grant.attempt = a /\ grant.fence = fenceSeq + 1 /\ grant.run = run
      /\ grant.event \in AdmissionGrants
  BY DEF AdmissionGrants
<1>3. /\ lease'[key].attempt = a /\ lease'[key].fence = fenceSeq + 1 /\ lease'[key].run = run
      /\ \A k \in Keys : k # key => lease'[k] = lease[k]
  BY DEF Prepare, Ownership, TypeOK
<1>4. \A x \in Attempts : x # a /\ row[x] # None => row'[x].state = row[x].state
  BY DEF Prepare, Ownership, TypeOK, Row
<1> HIDE DEF grant
<1> SUFFICES ASSUME NEW k \in Keys, lease'[k] # None
             PROVE  \E h \in history' : GrantOf(k, h)'
  BY DEF LeasesGranted
<1>5. CASE k = key
  BY <1>1, <1>2, <1>3, <1>5 DEF GrantOf
<1>6. CASE k # key
  <2>1. lease[k] # None /\ lease'[k] = lease[k]
    BY <1>3, <1>6
  <2>2. lease[k].attempt \in Attempts /\ row[lease[k].attempt] # None
    BY <2>1 DEF Ownership, TypeOK, References, Lease
  <2>3. row'[lease[k].attempt].state = row[lease[k].attempt].state
    BY <1>4, <2>2 DEF Prepare
  <2>4. PICK h \in history : GrantOf(k, h)
    BY <2>1 DEF LeasesGranted
  <2> QED
    BY <1>1, <2>1, <2>3, <2>4 DEF GrantOf
<1> QED
  BY <1>5, <1>6

\* A handoff grants the lease it writes, and its attempt collects no longer.
LEMMA GrantedByHandoff ==
    ASSUME Ownership, LeasesGranted, ReassignStep
    PROVE  LeasesGranted'
<1> PICK a \in Attempts, run \in Runs, ttl \in TTLs, recoveryOnly \in BOOLEAN, event \in Grants :
        OwnsLease(a) /\ Reassign(a, run, ttl, recoveryOnly, event)
  BY DEF ReassignStep
<1> DEFINE key == row[a].key
<1> DEFINE grant == [attempt |-> a, fence |-> fenceSeq + 1, run |-> run, event |-> event]
<1>1. history' = history \cup {grant} /\ row[a] \in Row /\ row[a] # None /\ key \in Keys
  BY DEF Reassign, OwnsLease, Ownership, TypeOK, Row
<1>2. grant.attempt = a /\ grant.fence = fenceSeq + 1 /\ grant.run = run
  OBVIOUS
<1>3. /\ lease'[key].attempt = a /\ lease'[key].fence = fenceSeq + 1 /\ lease'[key].run = run
      /\ \A k \in Keys : k # key => lease'[k] = lease[k]
  BY <1>1 DEF Reassign, Ownership, TypeOK
<1>4. /\ row'[a].state = "rechecking"
      /\ \A x \in Attempts : x # a => row'[x] = row[x]
  BY <1>1 DEF Reassign, Ownership, TypeOK, Row
<1> HIDE DEF grant
<1> SUFFICES ASSUME NEW k \in Keys, lease'[k] # None
             PROVE  \E h \in history' : GrantOf(k, h)'
  BY DEF LeasesGranted
<1>5. CASE k = key
  BY <1>1, <1>2, <1>3, <1>4, <1>5 DEF GrantOf
<1>6. CASE k # key
  <2>1. lease[k] # None /\ lease'[k] = lease[k] /\ lease[k].attempt \in Attempts
    BY <1>3, <1>6 DEF Ownership, TypeOK, Lease
  <2>2. row'[lease[k].attempt].state = "collecting" => row[lease[k].attempt].state = "collecting"
    BY <1>4, <2>1
  <2>3. PICK h \in history : GrantOf(k, h)
    BY <2>1 DEF LeasesGranted
  <2> QED
    BY <1>1, <2>1, <2>2, <2>3 DEF GrantOf
<1> QED
  BY <1>5, <1>6

\* No other step grants, changes the owner of a lease or opens a collection again.
LEMMA GrantedBefore ==
    ASSUME Ownership, LeasesGranted, TypeOK', RenewStep \/ TransitionStep \/ CleanupStep \/ QuietStep
    PROVE  LeasesGranted'
<1>0. history' = history
  BY DEF RenewStep, Renew, TransitionStep, Transition, CleanupStep, Cleanup, QuietStep
<1>1. \A k \in Keys : lease'[k] # None =>
         /\ lease[k] # None /\ lease'[k].attempt = lease[k].attempt
         /\ lease'[k].fence = lease[k].fence /\ lease'[k].run = lease[k].run
  <2>1. CASE RenewStep
    <3> PICK a \in Attempts, f \in Fences, ttl \in TTLs : Renew(a, f, ttl)
      BY <2>1 DEF RenewStep
    <3>1. row[a].key \in Keys /\ lease[row[a].key] \in Lease
      BY DEF Renew, Fenced, OwnsLease, LeaseOf, Ownership, TypeOK, Row
    <3>2. lease' = [lease EXCEPT ![row[a].key].expiresAt = ExpiryAfter(clock, ttl)]
      BY DEF Renew
    <3> QED
      BY <3>1, <3>2, NoneAssumption DEF Ownership, TypeOK, Lease
  <2>2. CASE TransitionStep \/ QuietStep
    BY <2>2 DEF TransitionStep, Transition, QuietStep
  <2>3. CASE CleanupStep
    <3> PICK a \in Attempts, f \in Fences : Cleanup(a, f)
      BY <2>3 DEF CleanupStep
    <3> QED
      BY DEF Cleanup, Ownership, TypeOK
  <2> QED
    BY <2>1, <2>2, <2>3
<1>2. \A x \in Attempts : row[x] # None /\ row'[x].state = "collecting" => row[x].state = "collecting"
  <2>1. CASE TransitionStep
    <3> PICK a \in Attempts, f \in Fences, to \in States : Transition(a, f, to)
      BY <2>1 DEF TransitionStep
    <3>1. row[a] \in Row /\ row' = [row EXCEPT ![a].state = to] /\ to # "collecting"
      BY DEF Transition, transitions, Fenced, OwnsLease, Ownership, TypeOK
    <3> QED
      BY <3>1 DEF Ownership, TypeOK, Row
  <2>2. CASE CleanupStep
    <3> PICK a \in Attempts, f \in Fences : Cleanup(a, f)
      BY <2>2 DEF CleanupStep
    <3>1. row[a] \in Row /\ row' = [row EXCEPT ![a].cleanupStatus = "complete"]
      BY DEF Cleanup, Fenced, OwnsLease, Ownership, TypeOK
    <3> QED
      BY <3>1 DEF Ownership, TypeOK, Row
  <2>3. CASE RenewStep \/ QuietStep
    BY <2>3 DEF RenewStep, Renew, QuietStep
  <2> QED
    BY <2>1, <2>2, <2>3
<1> SUFFICES ASSUME NEW k \in Keys, lease'[k] # None
             PROVE  \E h \in history' : GrantOf(k, h)'
  BY DEF LeasesGranted
<1>3. lease[k] # None /\ lease[k].attempt \in Attempts /\ row[lease[k].attempt] # None
  BY <1>1 DEF Ownership, TypeOK, References, Lease
<1>4. PICK h \in history : GrantOf(k, h)
  BY <1>3 DEF LeasesGranted
<1> QED
  BY <1>0, <1>1, <1>2, <1>3, <1>4 DEF GrantOf

\* Together with ownership the grants are kept by every step.
LEMMA GrantedNext == ASSUME Ownership, LeasesGranted, [Next]_vars PROVE LeasesGranted'
<1>1. TypeOK /\ TypeOK'
  BY TypeNext DEF Ownership
<1> QED
  BY <1>1, StepCases, GrantedByAdmission, GrantedByHandoff, GrantedBefore

\* What an answer reveals was granted to who is answered.
LEMMA ToldIsGranted ==
    ASSUME Ownership, LeasesGranted, [Next]_vars
    PROVE  \A t \in told' : t \in told \/ \E h \in history' : h.run = t[1] /\ h.fence = t[2]
<1> DEFINE Revealed == \A t \in told' : t \in told \/ \E h \in history' : h.run = t[1] /\ h.fence = t[2]
<1>1. CASE told' = told
  BY <1>1
<1>2. CASE AdmitStep
  <2> PICK a \in Attempts, key \in Keys, env \in Environments, run \in Runs, ttl \in TTLs,
           quotas \in Policies, projection \in Usages, now \in EarlierReadings :
          Prepare(a, key, env, run, ttl, quotas, projection, now)
    BY <1>2 DEF AdmitStep
  <2> DEFINE grant == [attempt |-> a, fence |-> fenceSeq + 1, run |-> run,
                       event |-> IF lease[key] # None THEN "takeover" ELSE "acquired"]
  <2>1. grant \in history' /\ told' = told \cup {<<run, fenceSeq + 1>>}
    BY DEF Prepare
  <2>2. grant.run = run /\ grant.fence = fenceSeq + 1
    OBVIOUS
  <2> HIDE DEF grant
  <2> QED
    BY <2>1, <2>2
<1>3. CASE ReassignStep
  <2> PICK a \in Attempts, run \in Runs, ttl \in TTLs, recoveryOnly \in BOOLEAN, event \in Grants :
          Reassign(a, run, ttl, recoveryOnly, event)
    BY <1>3 DEF ReassignStep
  <2> DEFINE grant == [attempt |-> a, fence |-> fenceSeq + 1, run |-> run, event |-> event]
  <2>1. grant \in history' /\ told' = told \cup {<<run, fenceSeq + 1>>}
    BY DEF Reassign
  <2>2. grant.run = run /\ grant.fence = fenceSeq + 1
    OBVIOUS
  <2> HIDE DEF grant
  <2> QED
    BY <2>1, <2>2
<1>4. ASSUME NEW a \in Attempts, NEW run \in Runs, NEW quotas \in Policies,
             NEW projection \in Usages, NEW now \in EarlierReadings,
             PrepareReplay(a, run, quotas, projection, now)
      PROVE  Revealed
  <2>1. /\ told' = told \cup {<<run, LeaseOf(a).fence>>} /\ history' = history
        /\ OwnsLease(a) /\ LeaseOf(a).run = run
    BY <1>4 DEF PrepareReplay
  <2>2. PICK k \in Keys : k = row[a].key /\ lease[k] # None /\ LeaseOf(a) = lease[k]
    BY <2>1 DEF OwnsLease, LeaseOf, Ownership, TypeOK, Row
  <2>3. PICK h \in history : GrantOf(k, h)
    BY <2>2 DEF LeasesGranted
  <2> QED
    BY <2>1, <2>2, <2>3 DEF GrantOf
<1>5. CASE Admission
  BY <1>2, <1>4, <1>5 DEF Admission, AdmitStep
<1>6. CASE Settlement \/ Fixture \/ Surroundings \/ UNCHANGED vars
  BY <1>1, <1>6 DEF Settlement, ReconcileReservation, Fixture, FixtureMutation,
     FixtureMutationWithReservation, Surroundings, Tick, RunEnds, ownership, vars
<1>7. CASE Provider
  <2> PICK a \in Attempts, f \in Fences :
        \/ \E op \in Operations : BeginStripeIntent(a, f, op)
        \/ \E i \in intents : ReconcileStripeIntent(a, f, i)
        \/ \E run \in Runs, ttl \in TTLs : HandoffStripeIntentRecovery(a, f, run, ttl)
    BY <1>7 DEF Provider
  <2>1. ASSUME NEW op \in Operations, BeginStripeIntent(a, f, op)
        PROVE  UNCHANGED <<told, history>>
    BY <2>1 DEF BeginStripeIntent, ownership
  <2>2. ASSUME NEW i \in intents, ReconcileStripeIntent(a, f, i)
        PROVE  UNCHANGED <<told, history>>
    BY <2>2 DEF ReconcileStripeIntent, ownership
  <2>3. ASSUME NEW run \in Runs, NEW ttl \in TTLs, HandoffStripeIntentRecovery(a, f, run, ttl)
        PROVE  ReassignStep
    BY <2>3 DEF HandoffStripeIntentRecovery, ReassignStep, Grants
  <2> QED
    BY <1>1, <1>3, <2>1, <2>2, <2>3
<1>8. CASE Life
  <2>1. ASSUME NEW a \in Attempts, NEW run \in Runs, NEW ttl \in TTLs, ResumeRecheck(a, run, ttl)
        PROVE  ReassignStep
    <3>1. LeaseOf(a).recoveryOnly \in BOOLEAN
      BY <2>1 DEF ResumeRecheck, OwnsLease, LeaseOf, Ownership, TypeOK, Row, Lease
    <3>2. "recheck_handoff" \in Grants
      BY DEF Grants
    <3> QED
      BY <2>1, <3>1, <3>2 DEF ResumeRecheck, ReassignStep
  <2> QED
    BY <1>1, <1>3, <1>8, <2>1 DEF Life, Renew, Transition, Cleanup
<1> QED
  BY <1>5, <1>6, <1>7, <1>8 DEF Next

\* A replayed admission, however late, reveals a fence only to the run that was
\* granted it: an owner found alive and collecting has the lease it was granted.
THEOREM FenceTold == Spec => []FenceToldOnlyToGrantee
<1> DEFINE IInv == Ownership /\ LeasesGranted /\ FenceToldOnlyToGrantee
<1>1. Init => IInv
  <2>1. Init => LeasesGranted /\ FenceToldOnlyToGrantee
    BY DEF Init, LeasesGranted, FenceToldOnlyToGrantee
  <2> QED
    BY <2>1, OwnershipInit
<1>2. ASSUME IInv, [Next]_vars PROVE IInv'
  <2>1. Ownership' /\ LeasesGranted'
    BY <1>2, OwnershipNext, GrantedNext
  <2>2. history \subseteq history'
    BY <1>2, HistoryGrows DEF Ownership
  <2>3. \A t \in told' : t \in told \/ \E h \in history' : h.run = t[1] /\ h.fence = t[2]
    BY <1>2, ToldIsGranted
  <2>4. FenceToldOnlyToGrantee'
    BY <1>2, <2>2, <2>3 DEF FenceToldOnlyToGrantee
  <2> QED
    BY <2>1, <2>4
<1> QED
  BY <1>1, <1>2, PTL DEF Spec

\* A case is claimed by an owner that collects.
LEMMA ClaimedWhileCollecting ==
    ASSUME [Next]_vars
    PROVE  \A c \in caseClaims' : c \in caseClaims \/
              (c.attempt \in Attempts /\ Fenced(c.attempt, c.fence) /\ row[c.attempt].state = "collecting")
<1> DEFINE WhileCollecting ==
      \A x \in caseClaims' : x \in caseClaims \/
          (x.attempt \in Attempts /\ Fenced(x.attempt, x.fence) /\ row[x.attempt].state = "collecting")
<1> SUFFICES WhileCollecting
  OBVIOUS
<1>1. CASE caseClaims' = caseClaims
  BY <1>1
<1>2. ASSUME NEW a \in Attempts, NEW f \in Fences, NEW c \in Cases, NEW ns \in Namespaces,
             NEW kind \in FixtureKinds, NEW fixture \in FixtureIds, NEW rows \in RowRequests(a),
             NEW outcome \in WriterOutcomes,
             FixtureMutationWithReservation(a, f, rows, c, ns, kind, fixture, outcome)
      PROVE  WhileCollecting
  <2> DEFINE claim == [attempt |-> a, case |-> c, namespace |-> ns, fence |-> f]
  <2>1. caseClaims' = caseClaims \cup {claim} /\ Fenced(a, f) /\ row[a].state = "collecting"
    BY <1>2 DEF FixtureMutationWithReservation, MayClaim
  <2>2. claim.attempt = a /\ claim.fence = f
    OBVIOUS
  <2> HIDE DEF claim
  <2> QED
    BY <2>1, <2>2
<1>3. ASSUME NEW a \in Attempts, NEW f \in Fences, FixtureMutation(a, f) PROVE WhileCollecting
  <2>1. caseClaims' = caseClaims
    BY <1>3 DEF FixtureMutation
  <2> QED
    BY <2>1
<1>4. CASE Admission \/ Settlement \/ Provider \/ UNCHANGED vars
  <2>1. Admission => caseClaims' = caseClaims
    BY DEF Admission, Prepare, PrepareReplay, effects
  <2>2. Settlement => caseClaims' = caseClaims
    BY DEF Settlement, ReconcileReservation, effects
  <2>3. Provider => caseClaims' = caseClaims
    BY ProviderKeeps
  <2>4. UNCHANGED vars => caseClaims' = caseClaims
    BY DEF vars, effects
  <2> QED
    BY <1>1, <1>4, <2>1, <2>2, <2>3, <2>4
<1>5. CASE Life \/ Surroundings
  <2>1. Life => caseClaims' = caseClaims
    BY LifeKeeps DEF effects
  <2>2. Surroundings => caseClaims' = caseClaims
    BY DEF Surroundings, Tick, RunEnds, effects
  <2> QED
    BY <1>1, <1>5, <2>1, <2>2
<1> HIDE DEF WhileCollecting
<1>6. CASE Fixture
  BY <1>2, <1>3, <1>6 DEF Fixture
<1> QED
  BY <1>4, <1>5, <1>6 DEF Next

\* Every fixture case is claimed under the fence its attempt was admitted with,
\* never under one that a handoff gave it.
THEOREM ClaimFences == Spec => []ClaimsCarryAdmissionFence
<1> DEFINE IInv == Ownership /\ LeasesGranted /\ ClaimsCarryAdmissionFence
<1>1. Init => IInv
  <2>1. Init => LeasesGranted /\ ClaimsCarryAdmissionFence
    BY DEF Init, LeasesGranted, ClaimsCarryAdmissionFence
  <2> QED
    BY <2>1, OwnershipInit
<1>2. ASSUME IInv, [Next]_vars PROVE IInv'
  <2>1. Ownership' /\ LeasesGranted'
    BY <1>2, OwnershipNext, GrantedNext
  <2>2. history \subseteq history'
    BY <1>2, HistoryGrows DEF Ownership
  <2>3. ASSUME NEW c \in caseClaims'
        PROVE  \E h \in history' : /\ h.attempt = c.attempt /\ h.fence = c.fence
                                   /\ h.event \in {"acquired", "takeover"}
    <3>1. CASE c \in caseClaims
      BY <1>2, <2>2, <3>1 DEF ClaimsCarryAdmissionFence
    <3>2. CASE c \notin caseClaims
      <4>1. c.attempt \in Attempts /\ Fenced(c.attempt, c.fence) /\ row[c.attempt].state = "collecting"
        BY <1>2, <3>2, ClaimedWhileCollecting
      <4>2. PICK k \in Keys : /\ lease[k] # None /\ lease[k].attempt = c.attempt
                              /\ lease[k].fence = c.fence
        BY <1>2, <4>1 DEF Fenced, OwnsLease, LeaseOf, Ownership, TypeOK, Row
      <4>3. PICK h \in history : GrantOf(k, h)
        BY <1>2, <4>2 DEF LeasesGranted
      <4> QED
        BY <2>2, <4>1, <4>2, <4>3 DEF GrantOf, AdmissionGrants
    <3> QED
      BY <3>1, <3>2
  <2>4. ClaimsCarryAdmissionFence'
    BY <2>3 DEF ClaimsCarryAdmissionFence
  <2> QED
    BY <2>1, <2>4
<1> QED
  BY <1>1, <1>2, PTL DEF Spec

(***************************************************************************)
(* One fenced hold                                                         *)
(*                                                                         *)
(* The lease row and the two locks of an attempt act as one: every step    *)
(* grants, moves or drops them together, as the abstract specification     *)
(* FencedHold says.                                                        *)
(***************************************************************************)

\* An owner has the hold its lease row names.
LEMMA HoldValue ==
    ASSUME TypeOK, NEW a \in Attempts, OwnsLease(a), ResourceOwner(a)
    PROVE  /\ HoldOf(a) = [fence |-> LeaseOf(a).fence, run |-> LeaseOf(a).run]
           /\ HoldOf(a) # None /\ LeaseOf(a) \in Lease
           /\ NeedsOf(a) = ResourceKeys(row[a].environment)
<1>1. LeaseOf(a) \in Lease
  BY DEF OwnsLease, LeaseOf, TypeOK, Row
<1>2. HoldOf(a) = [fence |-> LeaseOf(a).fence, run |-> LeaseOf(a).run]
  BY DEF HoldOf
<1> QED
  BY <1>1, <1>2, NoneAssumption DEF Lease, OwnsLease, NeedsOf

\* Whoever passes the fence check has its hold under that fence.
LEMMA FencedHolds ==
    ASSUME TypeOK, NEW a \in Attempts, NEW f, Fenced(a, f)
    PROVE  OwnsLease(a) /\ ResourceOwner(a) /\ Hold!Holds(a, f)
<1>1. OwnsLease(a) /\ ResourceOwner(a) /\ LeaseOf(a).fence = f
  BY DEF Fenced
<1>2. HoldOf(a) # None /\ HoldOf(a).fence = f
  BY <1>1, HoldValue
<1> QED
  BY <1>1, <1>2 DEF Hold!Holds

\* A lease row and both locks written under one fence are a hold under it.
LEMMA HoldGranted ==
    ASSUME TypeOK', NEW a \in Attempts, NEW fence, NEW run, row'[a] # None,
           lease'[row'[a].key] # None, lease'[row'[a].key].attempt = a,
           lease'[row'[a].key].fence = fence, lease'[row'[a].key].run = run,
           \A r \in ResourceKeys(row'[a].environment) :
              lock'[r] = [attempt |-> a, fence |-> fence,
                          expiresAt |-> lease'[row'[a].key].expiresAt, run |-> run]
    PROVE  /\ HoldOf(a)' = [fence |-> fence, run |-> run]
           /\ NeedsOf(a)' = ResourceKeys(row'[a].environment)
<1>1. OwnsLease(a)' /\ ResourceOwner(a)'
  BY DEF OwnsLease, ResourceOwner, LeaseOf
<1> QED
  BY <1>1 DEF HoldOf, LeaseOf, NeedsOf

\* An attempt has no hold while one of its locks is free or another's.
LEMMA NoHoldAfter ==
    ASSUME TypeOK', NEW b \in Attempts, row'[b] # None,
           NEW r \in ResourceKeys(row'[b].environment),
           lock'[r] = None \/ lock'[r].attempt # b
    PROVE  HoldOf(b)' = None
<1> SUFFICES ASSUME OwnsLease(b)', ResourceOwner(b)' PROVE FALSE
  BY DEF HoldOf
<1>1. LeaseOf(b)' \in Lease
  BY DEF OwnsLease, LeaseOf, TypeOK, Row
<1>2. lock'[r] = [attempt |-> b, fence |-> LeaseOf(b)'.fence,
                  expiresAt |-> LeaseOf(b)'.expiresAt, run |-> LeaseOf(b)'.run]
  BY DEF ResourceOwner
<1>3. lock'[r] \in Lock
  BY <1>1, <1>2 DEF Lock, Lease
<1> QED
  BY <1>2, <1>3, NoneAssumption

\* The hold of an attempt whose rows stay is the same.
LEMMA HoldStays ==
    ASSUME NEW b \in Attempts, row'[b] = None <=> row[b] = None,
           row[b] # None =>
              /\ row'[b].key = row[b].key /\ row'[b].environment = row[b].environment
              /\ lease'[row[b].key] = lease[row[b].key]
              /\ \A r \in ResourceKeys(row[b].environment) : lock'[r] = lock[r]
    PROVE  HoldOf(b)' = HoldOf(b) /\ NeedsOf(b)' = NeedsOf(b)
<1>1. CASE row[b] = None
  BY <1>1 DEF HoldOf, NeedsOf, OwnsLease
<1>2. CASE row[b] # None
  <2>1. OwnsLease(b)' <=> OwnsLease(b)
    BY <1>2 DEF OwnsLease, LeaseOf
  <2>2. ResourceOwner(b)' <=> ResourceOwner(b)
    BY <1>2 DEF ResourceOwner, LeaseOf
  <2>3. LeaseOf(b)' = LeaseOf(b)
    BY <1>2 DEF LeaseOf
  <2> QED
    BY <1>2, <2>1, <2>2, <2>3 DEF HoldOf, NeedsOf
<1> QED
  BY <1>1, <1>2

\* An owner's lease row and locks are nobody else's: rewriting them for the same
\* owner, or dropping them, changes no other hold.
LEMMA OtherHoldsStay ==
    ASSUME Ownership, TypeOK', NEW a \in Attempts, OwnsLease(a), ResourceOwner(a),
           NEW b \in Attempts, b # a, row'[b] = None <=> row[b] = None,
           row[b] # None => row'[b].key = row[b].key /\ row'[b].environment = row[b].environment,
           \A k \in Keys : k # row[a].key => lease'[k] = lease[k],
           lease'[row[a].key] = None \/ lease'[row[a].key].attempt = a,
           \A r \in Resources : r \notin ResourceKeys(row[a].environment) => lock'[r] = lock[r],
           \A r \in ResourceKeys(row[a].environment) : lock'[r] = None \/ lock'[r].attempt = a
    PROVE  HoldOf(b)' = HoldOf(b) /\ NeedsOf(b)' = NeedsOf(b)
<1>1. CASE row[b] = None
  BY <1>1, HoldStays
<1>2. CASE row[b] # None /\ row[b].key = row[a].key
  <2>1. ~OwnsLease(b) /\ ~OwnsLease(b)'
    BY <1>2 DEF OwnsLease, LeaseOf
  <2> QED
    BY <1>2, <2>1 DEF HoldOf, NeedsOf
<1>3. ASSUME row[b] # None, NEW r \in ResourceKeys(row[b].environment),
             r \in ResourceKeys(row[a].environment)
      PROVE  HoldOf(b)' = HoldOf(b) /\ NeedsOf(b)' = NeedsOf(b)
  <2>1. ~ResourceOwner(b)
    BY <1>3 DEF ResourceOwner
  <2>2. HoldOf(b)' = None
    BY <1>3, NoHoldAfter
  <2> QED
    BY <1>3, <2>1, <2>2 DEF HoldOf, NeedsOf
<1>4. CASE /\ row[b] # None /\ row[b].key # row[a].key
           /\ \A r \in ResourceKeys(row[b].environment) : r \notin ResourceKeys(row[a].environment)
  <2>1. row[b].key \in Keys /\ ResourceKeys(row[b].environment) \subseteq Resources
    BY <1>4, ResourceKeysType DEF Ownership, TypeOK, Row
  <2> QED
    BY <1>4, <2>1, HoldStays
<1> QED
  BY <1>1, <1>2, <1>3, <1>4

\* Operations in doubt are the intents without a receipt.
LEMMA PendingStays ==
    ASSUME UNCHANGED <<intents, stripeReceipts>>
    PROVE  \A b \in Attempts : PendingOf(b)' = PendingOf(b)
BY DEF PendingOf, Resolved

\* Without an intent in flight nothing is in doubt.
LEMMA NothingPending ==
    ASSUME NEW a \in Attempts, ~InFlight(a)
    PROVE  PendingOf(a) = {}
BY DEF PendingOf, InFlight

\* What an attempt records under a fence is an act of its own.
LEMMA OneAct ==
    ASSUME NEW S, NEW T, S \subseteq T, NEW a, NEW f,
           \A x \in T : x \notin S => x.attempt = a /\ x.fence = f,
           \E x \in T : x.attempt = a /\ x.fence = f
    PROVE  {<<x.attempt, x.fence>> : x \in T} = {<<x.attempt, x.fence>> : x \in S} \cup {<<a, f>>}
OBVIOUS

\* One row recorded is one act.
LEMMA OneRecord ==
    ASSUME NEW a, NEW f, NEW e, e.attempt = a, e.fence = f, Acts' = Acts \cup {e}
    PROVE  {<<x.attempt, x.fence>> : x \in Acts'}
              = {<<x.attempt, x.fence>> : x \in Acts} \cup {<<a, f>>}
<1>1. /\ Acts \subseteq Acts'
      /\ \A x \in Acts' : x \notin Acts => x.attempt = a /\ x.fence = f
      /\ \E x \in Acts' : x.attempt = a /\ x.fence = f
  OBVIOUS
<1> QED
  BY <1>1, OneAct

\* A step that keeps every hold is no step of the abstract specification.
LEMMA HoldsStutter ==
    ASSUME \A b \in Attempts : HoldOf(b)' = HoldOf(b) /\ NeedsOf(b)' = NeedsOf(b),
           UNCHANGED <<fenceSeq, effects, cleanupReceipts, ended>>
    PROVE  UNCHANGED Hold!vars
<1>1. \A b \in Attempts : PendingOf(b)' = PendingOf(b)
  BY PendingStays DEF effects
<1>2. Acts' = Acts
  BY DEF Acts, effects
<1> QED
  BY <1>1, <1>2 DEF Hold!vars

\* prepare admits: whoever holds one of the resources loses its whole hold, and its
\* run is over with nothing in doubt.
LEMMA HoldAdmits ==
    ASSUME Ownership, TypeOK', NEW a \in Attempts, NEW key \in Keys, NEW env \in Environments,
           NEW run \in Runs, NEW ttl \in TTLs, NEW quotas \in Policies,
           NEW projection \in Usages, NEW now \in EarlierReadings,
           Prepare(a, key, env, run, ttl, quotas, projection, now)
    PROVE  Hold!Admit(a, run, ResourceKeys(env))
<1> DEFINE res == ResourceKeys(env)
<1> DEFINE InTheWay(b) == HoldOf(b) # None /\ NeedsOf(b) \cap res # {}
<1>1. AdmissionWritten(a, key, env, run, ExpiryAfter(now, ttl))
  BY AdmissionWrites
<1>2. row[a] = None /\ res \subseteq Resources /\ res # {} /\ PriorRowsAgree(key, env, now)
  BY ResourceKeysType DEF Prepare, ResourceKeys
<1>3. UNCHANGED <<effects, cleanupReceipts, ended>> /\ fenceSeq' = fenceSeq + 1
  BY DEF Prepare
<1>4. /\ HoldOf(a)' = [fence |-> fenceSeq + 1, run |-> run]
      /\ NeedsOf(a)' = res /\ NeedsOf(a) = {}
  <2>1. lease'[key] # None
    <3>1. fenceSeq + 1 \in Nat /\ ExpiryAfter(now, ttl) \in Nat
      BY NumericAssumption DEF Ownership, TypeOK, EarlierReadings, ExpiryAfter
    <3>2. lease'[key] \in Lease
      BY <1>1, <3>1 DEF AdmissionWritten, Lease
    <3> QED
      BY <3>2, NoneAssumption
  <2> QED
    BY <1>1, <1>2, <2>1, HoldGranted DEF AdmissionWritten, NeedsOf
<1>5. \A b \in Attempts : b # a => NeedsOf(b)' = NeedsOf(b)
  BY <1>1 DEF AdmissionWritten, NeedsOf
<1>6. ASSUME NEW b \in Attempts, row[b] # None, b # a,
             NEW r \in ResourceKeys(row[b].environment), r \in res
      PROVE  HoldOf(b)' = None
  BY <1>1, <1>6, NoHoldAfter DEF AdmissionWritten
<1>7. ASSUME NEW b \in Attempts, InTheWay(b)
      PROVE  /\ b # a /\ HoldOf(b)' = None
             /\ HoldOf(b).run \in ended /\ PendingOf(b) = {}
  <2>1. OwnsLease(b) /\ ResourceOwner(b) /\ row[b] # None /\ b # a
    BY <1>2, <1>7 DEF HoldOf, OwnsLease
  <2>2. PICK r \in res : r \in ResourceKeys(row[b].environment)
    BY <1>7, <2>1 DEF NeedsOf
  <2>3. LeaseOf(b) \in Lease /\ HoldOf(b).run = LeaseOf(b).run
    BY <2>1, HoldValue DEF Ownership
  <2>4. lock[r] \in Lock /\ lock[r].attempt = b
    BY <2>1, <2>2, <2>3 DEF ResourceOwner, Lock, Lease
  <2>5. b \in PriorOwners(key, env)
    BY <2>2, <2>4, NoneAssumption DEF PriorOwners
  <2>6. ~InFlight(b) /\ LeaseOf(b).run \in ended
    BY <2>5 DEF Prepare, GivesWay
  <2> QED
    BY <1>6, <2>1, <2>2, <2>3, <2>6, NothingPending
<1>8. ASSUME NEW b \in Attempts, b # a, ~InTheWay(b)
      PROVE  HoldOf(b)' = HoldOf(b)
  <2>1. CASE row[b] = None
    BY <1>1, <1>8, <2>1, HoldStays DEF AdmissionWritten
  <2>2. ASSUME row[b] # None, NEW r \in res, r \in ResourceKeys(row[b].environment)
        PROVE  HoldOf(b)' = HoldOf(b)
    <3>1. HoldOf(b) = None
      BY <1>8, <2>2 DEF NeedsOf
    <3> QED
      BY <1>6, <1>8, <2>2, <3>1
  <2>3. CASE /\ row[b] # None /\ row[b].key = key
             /\ \A r \in res : r \notin ResourceKeys(row[b].environment)
    <3>1. ~OwnsLease(b)'
      BY <1>1, <1>8, <2>3 DEF AdmissionWritten, OwnsLease, LeaseOf
    <3>2. ~OwnsLease(b)
      <4> SUFFICES ASSUME OwnsLease(b) PROVE FALSE
        OBVIOUS
      <4>1. PICK r \in res : lock[r] # None /\ lock[r].attempt = b
        BY <1>2, <2>3 DEF PriorRowsAgree, OwnsLease, LeaseOf
      <4>2. r \in ResourceKeys(row[b].environment)
        BY <1>2, <4>1 DEF Ownership, References
      <4> QED
        BY <2>3, <4>2
    <3> QED
      BY <3>1, <3>2 DEF HoldOf
  <2>4. CASE /\ row[b] # None /\ row[b].key # key
             /\ \A r \in res : r \notin ResourceKeys(row[b].environment)
    <3>1. row[b].key \in Keys /\ ResourceKeys(row[b].environment) \subseteq Resources
      BY <2>4, ResourceKeysType DEF Ownership, TypeOK, Row
    <3>2. /\ row'[b].key = row[b].key /\ row'[b].environment = row[b].environment
          /\ row'[b] # None /\ lease'[row[b].key] = lease[row[b].key]
          /\ \A r \in ResourceKeys(row[b].environment) : lock'[r] = lock[r]
      BY <1>1, <1>8, <2>4, <3>1 DEF AdmissionWritten
    <3> QED
      BY <2>4, <3>2, HoldStays
  <2> QED
    BY <2>1, <2>2, <2>3, <2>4
<1>9. (\A b \in Attempts : PendingOf(b)' = PendingOf(b)) /\ Acts' = Acts
  BY <1>3, PendingStays DEF effects, Acts
<1> QED
  BY <1>2, <1>3, <1>4, <1>5, <1>7, <1>8, <1>9 DEF Hold!Admit, Hold!InTheWay

\* A handoff gives the hold as a whole to another run, under a new fence.
LEMMA HoldHandedOver ==
    ASSUME Ownership, TypeOK', NEW a \in Attempts, NEW run \in Runs, NEW ttl \in TTLs,
           NEW recoveryOnly \in BOOLEAN, NEW event \in Grants,
           OwnsLease(a), ResourceOwner(a), LeaseOf(a).run \in ended,
           Reassign(a, run, ttl, recoveryOnly, event)
    PROVE  Hold!HandOver(a, run)
<1>1. HandoffWritten(a, run, ExpiryAfter(clock, ttl), recoveryOnly)
  BY HandoffWrites
<1>2. UNCHANGED <<effects, cleanupReceipts, ended>> /\ fenceSeq' = fenceSeq + 1
  BY DEF Reassign
<1>3. /\ HoldOf(a) # None /\ HoldOf(a).run \in ended
      /\ NeedsOf(a) = ResourceKeys(row[a].environment)
  BY HoldValue DEF Ownership
<1>4. /\ row'[a] # None /\ row'[a].key = row[a].key
      /\ row'[a].environment = row[a].environment
  BY <1>1 DEF HandoffWritten
<1>5. HoldOf(a)' = [fence |-> fenceSeq + 1, run |-> run] /\ NeedsOf(a)' = NeedsOf(a)
  <2>1. fenceSeq + 1 \in Nat /\ ExpiryAfter(clock, ttl) \in Nat
    BY NumericAssumption DEF Ownership, TypeOK, ExpiryAfter
  <2>2. lease'[row[a].key] # None
    <3>1. lease'[row[a].key] \in Lease
      BY <1>1, <2>1 DEF HandoffWritten, Lease
    <3> QED
      BY <3>1, NoneAssumption
  <2> QED
    BY <1>1, <1>3, <1>4, <2>2, HoldGranted DEF HandoffWritten
<1>6. \A b \in Attempts : b # a => HoldOf(b)' = HoldOf(b) /\ NeedsOf(b)' = NeedsOf(b)
  <2> SUFFICES ASSUME NEW b \in Attempts, b # a
               PROVE  HoldOf(b)' = HoldOf(b) /\ NeedsOf(b)' = NeedsOf(b)
    OBVIOUS
  <2> QED
    BY <1>1, OtherHoldsStay DEF HandoffWritten
<1>7. (\A b \in Attempts : PendingOf(b)' = PendingOf(b)) /\ Acts' = Acts
  BY <1>2, PendingStays DEF effects, Acts
<1> QED
  BY <1>2, <1>3, <1>5, <1>6, <1>7 DEF Hold!HandOver

\* renew moves the expiry only, which is no part of a hold.
LEMMA HoldRenewed ==
    ASSUME Ownership, TypeOK', NEW a \in Attempts, NEW f \in Fences, NEW ttl \in TTLs,
           Renew(a, f, ttl)
    PROVE  UNCHANGED Hold!vars
<1> DEFINE key == row[a].key
<1> DEFINE expiry == ExpiryAfter(clock, ttl)
<1>1. OwnsLease(a) /\ ResourceOwner(a) /\ row[a] \in Row /\ row[a] # None
  BY FencedHolds DEF Renew, Ownership, OwnsLease, TypeOK
<1>2. key \in Keys /\ ResourceKeys(row[a].environment) \subseteq Resources
  BY <1>1, ResourceKeysType DEF Row
<1>3. LeaseOf(a) \in Lease /\ lease[key] = LeaseOf(a)
  BY <1>1, HoldValue DEF Ownership, LeaseOf
<1>4. UNCHANGED <<fenceSeq, row, effects, cleanupReceipts, ended>>
  BY DEF Renew
<1>5. /\ lease'[key] \in Lease /\ lease'[key].attempt = a
      /\ lease'[key].fence = lease[key].fence /\ lease'[key].run = lease[key].run
      /\ lease'[key].expiresAt = expiry
      /\ \A k \in Keys : k # key => lease'[k] = lease[k]
  <2>1. expiry \in Nat
    BY NumericAssumption DEF Ownership, TypeOK, ExpiryAfter
  <2>2. lease' = [lease EXCEPT ![key].expiresAt = expiry]
    BY DEF Renew
  <2> QED
    BY <1>1, <1>2, <1>3, <2>1, <2>2 DEF Ownership, TypeOK, Lease, OwnsLease
<1>6. /\ \A r \in ResourceKeys(row[a].environment) :
            lock'[r] = [attempt |-> a, fence |-> lease[key].fence, expiresAt |-> expiry,
                        run |-> lease[key].run]
      /\ \A r \in Resources : r \notin ResourceKeys(row[a].environment) => lock'[r] = lock[r]
  <2>1. \A r \in ResourceKeys(row[a].environment) :
          lock[r] = [attempt |-> a, fence |-> lease[key].fence,
                     expiresAt |-> lease[key].expiresAt, run |-> lease[key].run]
    BY <1>1 DEF ResourceOwner, LeaseOf
  <2> QED
    BY <1>2, <2>1 DEF Renew
<1>7. HoldOf(a)' = HoldOf(a) /\ NeedsOf(a)' = NeedsOf(a)
  <2>1. lease'[key] # None
    BY <1>5, NoneAssumption
  <2>2. /\ HoldOf(a)' = [fence |-> lease[key].fence, run |-> lease[key].run]
        /\ NeedsOf(a)' = ResourceKeys(row[a].environment)
    BY <1>1, <1>4, <1>5, <1>6, <2>1, HoldGranted
  <2> QED
    BY <1>1, <1>3, <2>2, HoldValue DEF Ownership
<1>8. \A b \in Attempts : b # a => HoldOf(b)' = HoldOf(b) /\ NeedsOf(b)' = NeedsOf(b)
  <2> SUFFICES ASSUME NEW b \in Attempts, b # a
               PROVE  HoldOf(b)' = HoldOf(b) /\ NeedsOf(b)' = NeedsOf(b)
    OBVIOUS
  <2> QED
    BY <1>1, <1>4, <1>5, <1>6, OtherHoldsStay
<1> QED
  BY <1>4, <1>7, <1>8, HoldsStutter

\* A transition changes the state of an attempt, which is no part of a hold.
LEMMA HoldTransition ==
    ASSUME Ownership, NEW a \in Attempts, NEW f \in Fences, NEW to \in States,
           Transition(a, f, to)
    PROVE  UNCHANGED Hold!vars
<1>1. row[a] \in Row /\ row' = [row EXCEPT ![a].state = to]
  BY DEF Transition, Fenced, OwnsLease, Ownership, TypeOK
<1>2. UNCHANGED <<fenceSeq, lease, lock, effects, cleanupReceipts, ended>>
  BY DEF Transition
<1>3. \A x \in Attempts : /\ row'[x] = None <=> row[x] = None
                          /\ row[x] # None => /\ row'[x].key = row[x].key
                                              /\ row'[x].environment = row[x].environment
  BY <1>1, NoneAssumption DEF Ownership, TypeOK, Row
<1>4. \A b \in Attempts : HoldOf(b)' = HoldOf(b) /\ NeedsOf(b)' = NeedsOf(b)
  BY <1>2, <1>3, HoldStays
<1> QED
  BY <1>2, <1>4, HoldsStutter

\* cleanup lets go of the hold, under its fence and with nothing in doubt.
LEMMA HoldLetGo ==
    ASSUME Ownership, TypeOK', NEW a \in Attempts, NEW f \in Fences, Cleanup(a, f)
    PROVE  Hold!LetGo(a, f)
<1>1. OwnsLease(a) /\ ResourceOwner(a) /\ Hold!Holds(a, f) /\ PendingOf(a) = {}
  BY FencedHolds, NothingPending DEF Cleanup, Ownership
<1>2. row[a] \in Row /\ row[a] # None /\ row[a].key \in Keys
      /\ ResourceKeys(row[a].environment) \subseteq Resources
  BY <1>1, ResourceKeysType DEF OwnsLease, Ownership, TypeOK, Row
<1>3. UNCHANGED <<fenceSeq, effects, ended>>
      /\ cleanupReceipts' = cleanupReceipts \cup {[attempt |-> a, fence |-> f]}
  BY DEF Cleanup
<1>4. \A x \in Attempts : /\ row'[x] = None <=> row[x] = None
                          /\ row[x] # None => /\ row'[x].key = row[x].key
                                              /\ row'[x].environment = row[x].environment
  BY <1>2, NoneAssumption DEF Cleanup, Ownership, TypeOK, Row
<1>5. lease'[row[a].key] = None /\ \A k \in Keys : k # row[a].key => lease'[k] = lease[k]
  BY <1>2 DEF Cleanup, Ownership, TypeOK
<1>6. /\ \A r \in ResourceKeys(row[a].environment) : lock'[r] = None
      /\ \A r \in Resources : r \notin ResourceKeys(row[a].environment) => lock'[r] = lock[r]
  BY <1>2 DEF Cleanup
<1>7. HoldOf(a)' = None /\ NeedsOf(a)' = NeedsOf(a)
  BY <1>2, <1>4, <1>5 DEF HoldOf, NeedsOf, OwnsLease, LeaseOf
<1>8. \A b \in Attempts : b # a => HoldOf(b)' = HoldOf(b) /\ NeedsOf(b)' = NeedsOf(b)
  <2> SUFFICES ASSUME NEW b \in Attempts, b # a
               PROVE  HoldOf(b)' = HoldOf(b) /\ NeedsOf(b)' = NeedsOf(b)
    OBVIOUS
  <2> QED
    BY <1>1, <1>4, <1>5, <1>6, OtherHoldsStay
<1>9. \A b \in Attempts : PendingOf(b)' = PendingOf(b)
  BY <1>3, PendingStays DEF effects
<1>10. {<<x.attempt, x.fence>> : x \in Acts'} = {<<x.attempt, x.fence>> : x \in Acts} \cup {<<a, f>>}
  <2>1. Acts' = Acts \cup {[attempt |-> a, fence |-> f]}
    BY <1>3 DEF Acts, effects
  <2>2. [attempt |-> a, fence |-> f].attempt = a /\ [attempt |-> a, fence |-> f].fence = f
    OBVIOUS
  <2> QED
    BY <2>1, <2>2, OneRecord
<1> QED
  BY <1>1, <1>3, <1>7, <1>8, <1>9, <1>10 DEF Hold!LetGo

\* A receipt answers an intent: nothing is reconciled that was not begun.
ReceiptsAnswerIntents ==
    \A s \in stripeReceipts : \E i \in intents :
        i.attempt = s.attempt /\ i.operation = s.operation

\* Intents are only ever added, and a receipt only for one of them.
LEMMA ReceiptsNext == ASSUME ReceiptsAnswerIntents, [Next]_vars PROVE ReceiptsAnswerIntents'
<1>1. CASE Provider
  <2> PICK a \in Attempts, f \in Fences :
        \/ \E op \in Operations : BeginStripeIntent(a, f, op)
        \/ \E i \in intents : ReconcileStripeIntent(a, f, i)
        \/ \E run \in Runs, ttl \in TTLs : HandoffStripeIntentRecovery(a, f, run, ttl)
    BY <1>1 DEF Provider
  <2>1. ASSUME NEW op \in Operations, BeginStripeIntent(a, f, op) PROVE ReceiptsAnswerIntents'
    BY <2>1 DEF BeginStripeIntent, ReceiptsAnswerIntents
  <2>2. ASSUME NEW i \in intents, ReconcileStripeIntent(a, f, i) PROVE ReceiptsAnswerIntents'
    BY <2>2 DEF ReconcileStripeIntent, ReceiptsAnswerIntents
  <2>3. ASSUME NEW run \in Runs, NEW ttl \in TTLs, HandoffStripeIntentRecovery(a, f, run, ttl)
        PROVE  ReceiptsAnswerIntents'
    <3>1. UNCHANGED effects
      BY <2>3 DEF HandoffStripeIntentRecovery, Reassign
    <3> QED
      BY <3>1 DEF effects, ReceiptsAnswerIntents
  <2> QED
    BY <2>1, <2>2, <2>3
<1>2. CASE ~Provider
  <2>1. UNCHANGED <<intents, stripeReceipts>>
    <3>1. CASE UNCHANGED vars
      BY <3>1 DEF vars, effects
    <3>2. CASE Admission \/ Settlement
      BY <3>2 DEF Admission, Prepare, PrepareReplay, Settlement, ReconcileReservation, effects
    <3>3. CASE Fixture
      BY <3>3 DEF Fixture, FixtureMutation, FixtureMutationWithReservation
    <3>4. CASE Life
      BY <3>4, LifeKeeps DEF effects
    <3>5. CASE Surroundings
      BY <3>5 DEF Surroundings, Tick, RunEnds, effects
    <3> QED
      BY <1>2, <3>1, <3>2, <3>3, <3>4, <3>5 DEF Next
  <2> QED
    BY <2>1 DEF ReceiptsAnswerIntents
<1> QED
  BY <1>1, <1>2

\* An operation begun is in doubt until it has a receipt, and is begun once.
LEMMA HoldBegins ==
    ASSUME Ownership, NEW a \in Attempts, NEW f \in Fences, NEW op \in Operations,
           BeginStripeIntent(a, f, op), ReceiptsAnswerIntents
    PROVE  Hold!Begin(a, f, op)
<1> DEFINE i == [attempt |-> a, operation |-> op, fence |-> f]
<1>1. Hold!Holds(a, f) /\ intents' = intents \cup {i}
      /\ \A j \in intents : ~(j.attempt = a /\ j.operation = op)
  BY FencedHolds DEF BeginStripeIntent, Ownership
<1>2. UNCHANGED <<ownership, stripeReceipts, caseClaims, fixtureWrites, cleanupReceipts, ended>>
  BY DEF BeginStripeIntent
<1>3. \A b \in Attempts : HoldOf(b)' = HoldOf(b) /\ NeedsOf(b)' = NeedsOf(b)
  BY <1>2, HoldStays DEF ownership
<1>4. op \notin PendingOf(a)
  BY <1>1 DEF PendingOf
<1>5. \A s \in stripeReceipts : ~(s.attempt = a /\ s.operation = op)
  BY <1>1 DEF ReceiptsAnswerIntents
<1>6. \A b \in Attempts, o \in Operations :
        o \in PendingOf(b)' <=> o \in PendingOf(b) \/ (b = a /\ o = op)
  <2>1. \A j : Resolved(j)' <=> Resolved(j)
    BY <1>2 DEF Resolved
  <2>2. i \in intents' /\ i.attempt = a /\ i.operation = op /\ ~Resolved(i)
    BY <1>1, <1>5 DEF Resolved
  <2>3. op \in PendingOf(a)'
    BY <2>1, <2>2 DEF PendingOf
  <2>4. \A j \in intents' : j \in intents \/ (j.attempt = a /\ j.operation = op)
    BY <1>1, <2>2
  <2> QED
    BY <1>1, <2>1, <2>3, <2>4 DEF PendingOf
<1>7. \A b \in Attempts :
        PendingOf(b)' = IF b = a THEN PendingOf(a) \cup {op} ELSE PendingOf(b)
  BY <1>6 DEF PendingOf
<1>8. {<<x.attempt, x.fence>> : x \in Acts'} = {<<x.attempt, x.fence>> : x \in Acts} \cup {<<a, f>>}
  <2>1. Acts' = Acts \cup {i}
    BY <1>1, <1>2 DEF Acts
  <2>2. i.attempt = a /\ i.fence = f
    OBVIOUS
  <2> QED
    BY <2>1, <2>2, OneRecord
<1> QED
  BY <1>1, <1>2, <1>3, <1>4, <1>7, <1>8 DEF Hold!Begin, ownership

\* A receipt resolves the intent of its operation.
LEMMA HoldResolves ==
    ASSUME Ownership, NEW a \in Attempts, NEW f \in Fences, NEW i \in intents,
           ReconcileStripeIntent(a, f, i)
    PROVE  i.operation \in Operations /\ Hold!Resolve(a, f, i.operation)
<1> DEFINE s == [attempt |-> a, operation |-> i.operation, fence |-> f]
<1>1. /\ Hold!Holds(a, f) /\ i.attempt = a /\ ~Resolved(i)
      /\ stripeReceipts' = stripeReceipts \cup {s}
  BY FencedHolds DEF ReconcileStripeIntent, Ownership
<1>2. UNCHANGED <<ownership, intents, caseClaims, fixtureWrites, cleanupReceipts, ended>>
  BY DEF ReconcileStripeIntent
<1>3. \A b \in Attempts : HoldOf(b)' = HoldOf(b) /\ NeedsOf(b)' = NeedsOf(b)
  BY <1>2, HoldStays DEF ownership
<1>4. i.operation \in Operations /\ i.operation \in PendingOf(a)
  BY <1>1 DEF PendingOf, Ownership, TypeOK
<1>5. \A j \in intents : Resolved(j)' <=> Resolved(j) \/ (j.attempt = a /\ j.operation = i.operation)
  <2>1. s.attempt = a /\ s.operation = i.operation
    OBVIOUS
  <2> SUFFICES ASSUME NEW j \in intents
               PROVE  Resolved(j)' <=> Resolved(j) \/ (j.attempt = a /\ j.operation = i.operation)
    OBVIOUS
  <2> HIDE DEF s
  <2> QED
    BY <1>1, <2>1 DEF Resolved
<1>6. \A b \in Attempts, o \in Operations :
        o \in PendingOf(b)' <=> o \in PendingOf(b) /\ ~(b = a /\ o = i.operation)
  BY <1>2, <1>5 DEF PendingOf
<1>7. \A b \in Attempts :
        PendingOf(b)' = IF b = a THEN PendingOf(a) \ {i.operation} ELSE PendingOf(b)
  BY <1>6 DEF PendingOf
<1>8. {<<x.attempt, x.fence>> : x \in Acts'} = {<<x.attempt, x.fence>> : x \in Acts} \cup {<<a, f>>}
  <2>1. Acts' = Acts \cup {s}
    BY <1>1, <1>2 DEF Acts
  <2>2. s.attempt = a /\ s.fence = f
    OBVIOUS
  <2> QED
    BY <2>1, <2>2, OneRecord
<1> QED
  BY <1>1, <1>2, <1>3, <1>4, <1>7, <1>8 DEF Hold!Resolve, ownership

\* A fixture write and a claim are acts of an attempt under its fence.
LEMMA HoldActs ==
    ASSUME Ownership, NEW a \in Attempts, NEW f \in Fences, Fenced(a, f),
           UNCHANGED <<ownership, intents, stripeReceipts, cleanupReceipts, ended>>,
           Acts \subseteq Acts', \A x \in Acts' : x \notin Acts => x.attempt = a /\ x.fence = f,
           \E x \in Acts' : x.attempt = a /\ x.fence = f
    PROVE  Hold!Act(a, f)
<1>1. Hold!Holds(a, f)
  BY FencedHolds DEF Ownership
<1>2. \A b \in Attempts : HoldOf(b)' = HoldOf(b) /\ NeedsOf(b)' = NeedsOf(b)
  BY HoldStays DEF ownership
<1>3. \A b \in Attempts : PendingOf(b)' = PendingOf(b)
  BY PendingStays
<1>4. {<<x.attempt, x.fence>> : x \in Acts'} = {<<x.attempt, x.fence>> : x \in Acts} \cup {<<a, f>>}
  BY OneAct
<1> QED
  BY <1>1, <1>2, <1>3, <1>4 DEF Hold!Act, ownership

\* Every step of the store is a step of the abstract specification or keeps its state.
LEMMA HoldNext ==
    ASSUME Ownership, ReceiptsAnswerIntents, [Next]_vars
    PROVE  [Hold!Next]_(Hold!vars)
<1>0. TypeOK /\ TypeOK'
  BY TypeNext DEF Ownership
<1>1. CASE UNCHANGED vars
  <2>1. \A b \in Attempts : HoldOf(b)' = HoldOf(b) /\ NeedsOf(b)' = NeedsOf(b)
    BY <1>1, HoldStays DEF vars, ownership
  <2> QED
    BY <1>1, <2>1, HoldsStutter DEF vars, ownership
<1>2. CASE Admission
  <2> PICK a \in Attempts, run \in Runs, quotas \in Policies, projection \in Usages,
           now \in EarlierReadings :
        \/ \E k \in Keys, env \in Environments, ttl \in TTLs :
              Prepare(a, k, env, run, ttl, quotas, projection, now)
        \/ PrepareReplay(a, run, quotas, projection, now)
    BY <1>2 DEF Admission
  <2>1. ASSUME NEW k \in Keys, NEW env \in Environments, NEW ttl \in TTLs,
               Prepare(a, k, env, run, ttl, quotas, projection, now)
        PROVE  Hold!Next
    <3>1. Hold!Admit(a, run, ResourceKeys(env))
      BY <1>0, <2>1, HoldAdmits
    <3>2. ResourceKeys(env) \in SUBSET Resources
      BY ResourceKeysType
    <3> QED
      BY <3>1, <3>2 DEF Hold!Next
  <2>2. CASE PrepareReplay(a, run, quotas, projection, now)
    <3>1. UNCHANGED <<fenceSeq, row, lease, lock, effects, cleanupReceipts, ended>>
      BY <2>2 DEF PrepareReplay
    <3>2. \A b \in Attempts : HoldOf(b)' = HoldOf(b) /\ NeedsOf(b)' = NeedsOf(b)
      BY <3>1, HoldStays
    <3> QED
      BY <3>1, <3>2, HoldsStutter
  <2> QED
    BY <2>1, <2>2
<1>3. CASE Settlement
  <2>1. UNCHANGED <<fenceSeq, row, lease, lock, effects, cleanupReceipts, ended>>
    BY <1>3 DEF Settlement, ReconcileReservation, ownership
  <2>2. \A b \in Attempts : HoldOf(b)' = HoldOf(b) /\ NeedsOf(b)' = NeedsOf(b)
    BY <2>1, HoldStays
  <2> QED
    BY <2>1, <2>2, HoldsStutter
<1>4. CASE Provider
  <2> PICK a \in Attempts, f \in Fences :
        \/ \E op \in Operations : BeginStripeIntent(a, f, op)
        \/ \E i \in intents : ReconcileStripeIntent(a, f, i)
        \/ \E run \in Runs, ttl \in TTLs : HandoffStripeIntentRecovery(a, f, run, ttl)
    BY <1>4 DEF Provider
  <2>1. f \in 1 .. fenceSeq
    BY DEF Fences
  <2>2. ASSUME NEW op \in Operations, BeginStripeIntent(a, f, op) PROVE Hold!Next
    BY <2>1, <2>2, HoldBegins DEF Hold!Next
  <2>3. ASSUME NEW i \in intents, ReconcileStripeIntent(a, f, i) PROVE Hold!Next
    BY <2>1, <2>3, HoldResolves DEF Hold!Next
  <2>4. ASSUME NEW run \in Runs, NEW ttl \in TTLs, HandoffStripeIntentRecovery(a, f, run, ttl)
        PROVE  Hold!Next
    <3>1. /\ OwnsLease(a) /\ ResourceOwner(a) /\ LeaseOf(a).run \in ended
          /\ Reassign(a, run, ttl, TRUE, "recovery_handoff")
      BY <2>4 DEF HandoffStripeIntentRecovery
    <3>2. TRUE \in BOOLEAN /\ "recovery_handoff" \in Grants
      BY DEF Grants
    <3>3. Hold!HandOver(a, run)
      BY <1>0, <3>1, <3>2, HoldHandedOver
    <3> QED
      BY <3>3 DEF Hold!Next
  <2> QED
    BY <2>2, <2>3, <2>4
<1>5. CASE Fixture
  <2> PICK a \in Attempts, f \in Fences :
        \/ FixtureMutation(a, f)
        \/ \E c \in Cases, ns \in Namespaces, kind \in FixtureKinds,
              fixture \in FixtureIds, rows \in RowRequests(a), outcome \in WriterOutcomes :
              FixtureMutationWithReservation(a, f, rows, c, ns, kind, fixture, outcome)
    BY <1>5 DEF Fixture
  <2>1. f \in 1 .. fenceSeq
    BY DEF Fences
  <2> DEFINE w == [attempt |-> a, fence |-> f]
  <2>2. w.attempt = a /\ w.fence = f
    OBVIOUS
  <2>3. ASSUME FixtureMutation(a, f) PROVE Hold!Act(a, f)
    <3>1. /\ Fenced(a, f) /\ fixtureWrites' = fixtureWrites \cup {w}
          /\ UNCHANGED <<ownership, intents, stripeReceipts, caseClaims, cleanupReceipts, ended>>
      BY <2>3 DEF FixtureMutation
    <3>2. Acts' = Acts \cup {w}
      BY <3>1 DEF Acts
    <3>3. /\ Acts \subseteq Acts'
          /\ \A x \in Acts' : x \notin Acts => x.attempt = a /\ x.fence = f
          /\ \E x \in Acts' : x.attempt = a /\ x.fence = f
      BY <2>2, <3>2
    <3> QED
      BY <3>1, <3>3, HoldActs
  <2>4. ASSUME NEW c \in Cases, NEW ns \in Namespaces, NEW kind \in FixtureKinds,
               NEW fixture \in FixtureIds, NEW rows, NEW outcome \in WriterOutcomes,
               FixtureMutationWithReservation(a, f, rows, c, ns, kind, fixture, outcome)
        PROVE  Hold!Act(a, f)
    <3> DEFINE claim == [attempt |-> a, case |-> c, namespace |-> ns, fence |-> f]
    <3>1. /\ Fenced(a, f) /\ caseClaims' = caseClaims \cup {claim}
          /\ fixtureWrites' = fixtureWrites \/ fixtureWrites' = fixtureWrites \cup {w}
          /\ UNCHANGED <<ownership, intents, stripeReceipts, cleanupReceipts, ended>>
      BY <2>4 DEF FixtureMutationWithReservation
    <3>2. Acts' = Acts \cup {claim} \/ Acts' = Acts \cup {claim, w}
      BY <3>1 DEF Acts
    <3>3. claim.attempt = a /\ claim.fence = f
      OBVIOUS
    <3>4. /\ Acts \subseteq Acts'
          /\ \A x \in Acts' : x \notin Acts => x.attempt = a /\ x.fence = f
          /\ \E x \in Acts' : x.attempt = a /\ x.fence = f
      BY <2>2, <3>2, <3>3
    <3> QED
      BY <3>1, <3>4, HoldActs
  <2> QED
    BY <2>1, <2>3, <2>4 DEF Hold!Next
<1>6. CASE Life
  <2>1. ASSUME NEW a \in Attempts, NEW f \in Fences, NEW ttl \in TTLs, Renew(a, f, ttl)
        PROVE  UNCHANGED Hold!vars
    BY <1>0, <2>1, HoldRenewed
  <2>2. ASSUME NEW a \in Attempts, NEW f \in Fences, NEW to \in States, Transition(a, f, to)
        PROVE  UNCHANGED Hold!vars
    BY <2>2, HoldTransition
  <2>3. ASSUME NEW a \in Attempts, NEW f \in Fences, Cleanup(a, f) PROVE Hold!Next
    <3>1. f \in 1 .. fenceSeq /\ Hold!LetGo(a, f)
      BY <1>0, <2>3, HoldLetGo DEF Fences
    <3> QED
      BY <3>1 DEF Hold!Next
  <2>4. ASSUME NEW a \in Attempts, NEW run \in Runs, NEW ttl \in TTLs, ResumeRecheck(a, run, ttl)
        PROVE  Hold!Next
    <3>1. /\ OwnsLease(a) /\ ResourceOwner(a) /\ LeaseOf(a).run \in ended
          /\ Reassign(a, run, ttl, LeaseOf(a).recoveryOnly, "recheck_handoff")
      BY <2>4 DEF ResumeRecheck
    <3>2. LeaseOf(a).recoveryOnly \in BOOLEAN /\ "recheck_handoff" \in Grants
      BY <1>0, <3>1, HoldValue DEF Lease, Grants
    <3>3. Hold!HandOver(a, run)
      BY <1>0, <3>1, <3>2, HoldHandedOver
    <3> QED
      BY <3>3 DEF Hold!Next
  <2> QED
    BY <1>6, <2>1, <2>2, <2>3, <2>4 DEF Life
<1>7. CASE Surroundings
  <2>1. \A b \in Attempts : HoldOf(b)' = HoldOf(b) /\ NeedsOf(b)' = NeedsOf(b)
    BY <1>7, HoldStays DEF Surroundings, Tick, RunEnds, ownership
  <2>2. CASE Tick
    BY <2>1, <2>2, HoldsStutter DEF Tick, ownership
  <2>3. ASSUME NEW run \in Runs, RunEnds(run) PROVE Hold!RunEnds(run)
    <3>1. UNCHANGED <<fenceSeq, effects, cleanupReceipts>> /\ run \notin ended
          /\ ended' = ended \cup {run}
      BY <2>3 DEF RunEnds, ownership
    <3>2. (\A b \in Attempts : PendingOf(b)' = PendingOf(b)) /\ Acts' = Acts
      BY <3>1, PendingStays DEF effects, Acts
    <3> QED
      BY <2>1, <3>1, <3>2 DEF Hold!RunEnds
  <2> QED
    BY <1>7, <2>2, <2>3 DEF Surroundings, Hold!Next
<1> QED
  BY <1>1, <1>2, <1>3, <1>4, <1>5, <1>6, <1>7 DEF Next

\* The store implements one exclusive, fenced hold per attempt, for every number of
\* attempts, keys, resources, runs and operations: what prepare displaces, resumeRecheck
\* and handoffStripeIntentRecovery hand on, cleanup releases and assertFencedOwner lets
\* through is always the hold as a whole, under the fence last granted.
THEOREM ExclusiveHold == Spec => ImplementsFencedHold
<1>1. Init => Hold!Init
  <2> SUFFICES ASSUME Init PROVE Hold!Init
    OBVIOUS
  <2>1. \A a \in Attempts : HoldOf(a) = None /\ NeedsOf(a) = {} /\ PendingOf(a) = {}
    BY DEF Init, HoldOf, NeedsOf, PendingOf, OwnsLease
  <2>2. Acts = {} /\ fenceSeq = 0 /\ ended = {}
    BY DEF Init, Acts
  <2> QED
    BY <2>1, <2>2 DEF Hold!Init
<1>2. Init => ReceiptsAnswerIntents
  BY DEF Init, ReceiptsAnswerIntents
<1>3. Spec => []ReceiptsAnswerIntents
  BY <1>2, ReceiptsNext, PTL DEF Spec
<1>4. ImplementsFencedHold <=> Hold!Init /\ [][Hold!Next]_(Hold!vars)
  BY DEF ImplementsFencedHold, Hold!Spec
<1> QED
  BY <1>1, <1>3, <1>4, OwnershipInvariant, HoldNext, PTL DEF Spec
=============================================================================
