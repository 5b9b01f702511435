---------------------- MODULE AttemptStoreEffectsProofs ----------------------
(***************************************************************************)
(* What the store guarantees of effects outside it: an unresolved Stripe   *)
(* intent pins its owner, an attempt counts as cleaned up only when it is  *)
(* accounted for, a recovery fence never writes, claimed rows were         *)
(* reserved, and what is reserved stays within the quotas.                 *)
(***************************************************************************)
EXTENDS AttemptStoreProofs, FiniteSetTheorems, WellFoundedInduction

(***************************************************************************)
(* Unresolved intents                                                      *)
(***************************************************************************)

IntentsAdmitted == \A i \in intents : row[i.attempt] # None

Pinned == TypeOK /\ IntentsAdmitted /\ UnresolvedIntentKeepsOwnership

\* The owner that is pinned shares no lease row and no lock with another owner.
LEMMA PinnedApart ==
    ASSUME TypeOK, NEW a \in Attempts, OwnsLease(a), ResourceOwner(a),
           NEW b \in Attempts, b # a, OwnsLease(b), ResourceOwner(b)
    PROVE  /\ row[b].key # row[a].key
           /\ \A r \in ResourceKeys(row[b].environment) : r \notin ResourceKeys(row[a].environment)
<1>1. row[b].key # row[a].key
  BY DEF OwnsLease, LeaseOf
<1>2. /\ \A r \in ResourceKeys(row[a].environment) : lock[r].attempt = a
      /\ \A r \in ResourceKeys(row[b].environment) : lock[r].attempt = b
  BY DEF ResourceOwner
<1> QED
  BY <1>1, <1>2

\* Ownership is a matter of the attempt's row, its lease row and its two locks.
LEMMA OwnerUntouched ==
    ASSUME TypeOK, NEW b \in Attempts, OwnsLease(b), ResourceOwner(b),
           row'[b] # None, row'[b].key = row[b].key, row'[b].environment = row[b].environment,
           lease'[row[b].key] = lease[row[b].key],
           \A r \in ResourceKeys(row[b].environment) : lock'[r] = lock[r]
    PROVE  OwnsLease(b)' /\ ResourceOwner(b)'
BY DEF OwnsLease, ResourceOwner, LeaseOf

\* Admission takes nothing from an attempt with an unresolved intent.
LEMMA PinnedPrepare == ASSUME Pinned, TypeOK', AdmitStep PROVE Pinned'
<1> PICK a \in Attempts, key \in Keys, env \in Environments, run \in Runs, ttl \in TTLs,
         quotas \in Policies, projection \in Usages, now \in EarlierReadings :
        Prepare(a, key, env, run, ttl, quotas, projection, now)
  BY DEF AdmitStep
<1>1. now \in Nat /\ PriorRowsAgree(key, env, now) /\ row[a] = None
  BY DEF EarlierReadings, Prepare
<1>2. \A p \in PriorOwners(key, env) : p \in Attempts /\ row[p] \in Row /\ ~InFlight(p)
  BY <1>1, PriorOwnersAdmitted DEF Pinned, Prepare, GivesWay
<1>3. UNCHANGED <<intents, stripeReceipts>>
  BY DEF Prepare, effects
<1>4. /\ \A x \in Attempts : x # a /\ x \notin PriorOwners(key, env) => row'[x] = row[x]
      /\ \A k \in Keys : k # key => lease'[k] = lease[k]
      /\ \A r \in Resources : r \notin ResourceKeys(env) => lock'[r] = lock[r]
  BY DEF Prepare, Pinned, TypeOK
<1>5. \A x \in Attempts : row[x] # None => row'[x] # None
  <2> SUFFICES ASSUME NEW x \in Attempts, row[x] # None PROVE row'[x] # None
    OBVIOUS
  <2>1. CASE x \notin PriorOwners(key, env)
    BY <1>1, <1>4, <2>1
  <2>2. CASE x \in PriorOwners(key, env)
    <3>1. row'[x] = [row[x] EXCEPT !.cleanupStatus = "complete"]
      BY <1>1, <2>2 DEF Prepare
    <3>2. row'[x] \in Row
      BY <1>2, <2>2, <3>1 DEF Row
    <3> QED
      BY <3>2, NoneAssumption
  <2> QED
    BY <2>1, <2>2
<1>6. IntentsAdmitted'
  BY <1>3, <1>5 DEF Pinned, IntentsAdmitted, TypeOK
<1>7. UnresolvedIntentKeepsOwnership'
  <2> SUFFICES ASSUME NEW x \in Attempts, InFlight(x)' PROVE OwnsLease(x)' /\ ResourceOwner(x)'
    BY DEF UnresolvedIntentKeepsOwnership
  <2>1. InFlight(x) /\ OwnsLease(x) /\ ResourceOwner(x)
    BY <1>3 DEF InFlight, Resolved, Pinned, UnresolvedIntentKeepsOwnership
  <2>2. x \notin PriorOwners(key, env) /\ row[x] \in Row /\ row[x] # None /\ x # a
    BY <1>1, <1>2, <2>1 DEF OwnsLease, Pinned, TypeOK
  <2>3. row[x].key \in Keys /\ row[x].key # key
    BY <2>1, <2>2 DEF OwnsLease, LeaseOf, PriorOwners, Row
  <2>4. LeaseOf(x) \in Lease
    BY <2>1, <2>3 DEF OwnsLease, LeaseOf, Pinned, TypeOK
  <2>5. \A r \in ResourceKeys(row[x].environment) : lock[r] \in Lock /\ lock[r].attempt = x
    BY <2>1, <2>4 DEF ResourceOwner, Lock, Lease
  <2>6. \A r \in ResourceKeys(row[x].environment) : r \in Resources /\ r \notin ResourceKeys(env)
    BY <2>2, <2>5, ResourceKeysType, NoneAssumption DEF PriorOwners, Row
  <2> QED
    BY <1>4, <2>1, <2>2, <2>3, <2>6, OwnerUntouched DEF Pinned
<1> QED
  BY <1>6, <1>7 DEF Pinned

\* A handoff keeps the attempt's own lease and locks together.
LEMMA PinnedReassign == ASSUME Pinned, TypeOK', ReassignStep PROVE Pinned'
<1> PICK a \in Attempts, run \in Runs, ttl \in TTLs, recoveryOnly \in BOOLEAN, event \in Grants :
        /\ OwnsLease(a)
        /\ ResourceOwner(a)
        /\ Reassign(a, run, ttl, recoveryOnly, event)
  BY DEF ReassignStep
<1> DEFINE key == row[a].key
<1> DEFINE res == ResourceKeys(row[a].environment)
<1> DEFINE fence == fenceSeq + 1
<1> DEFINE expiry == ExpiryAfter(clock, ttl)
<1>1. row[a] \in Row /\ row[a] # None /\ key \in Keys /\ res \subseteq Resources
  BY ResourceKeysType DEF OwnsLease, Pinned, TypeOK, Row
<1>2. UNCHANGED <<intents, stripeReceipts>>
  BY DEF Reassign, effects
<1>3. \A x \in Attempts :
        /\ row'[x] = None <=> row[x] = None
        /\ row[x] # None => row'[x].key = row[x].key /\ row'[x].environment = row[x].environment
  <2>1. row' = [row EXCEPT ![a].state = "rechecking"]
    BY DEF Reassign
  <2> QED
    BY <1>1, <2>1, NoneAssumption DEF Pinned, TypeOK, Row, States
<1>4. /\ lease'[key] = [attempt |-> a, fence |-> fence, expiresAt |-> expiry, run |-> run,
                        recoveryOnly |-> recoveryOnly]
      /\ \A k \in Keys : k # key => lease'[k] = lease[k]
  BY <1>1 DEF Reassign, Pinned, TypeOK
<1>5. /\ \A r \in res : lock'[r] = [attempt |-> a, fence |-> fence, expiresAt |-> expiry,
                                    run |-> run]
      /\ \A r \in Resources : r \notin res => lock'[r] = lock[r]
  BY <1>1 DEF Reassign
<1>6. OwnsLease(a)' /\ ResourceOwner(a)'
  <2>1. lease'[key] \in Lease
    BY <1>4, NumericAssumption DEF Lease, Pinned, TypeOK, ExpiryAfter
  <2>2. OwnsLease(a)'
    BY <1>1, <1>3, <1>4, <2>1, NoneAssumption DEF OwnsLease, LeaseOf
  <2>3. ResourceOwner(a)'
    BY <1>1, <1>3, <1>4, <1>5 DEF ResourceOwner, LeaseOf
  <2> QED
    BY <2>2, <2>3
<1>7. ASSUME NEW x \in Attempts, InFlight(x)' PROVE OwnsLease(x)' /\ ResourceOwner(x)'
  <2>1. OwnsLease(x) /\ ResourceOwner(x)
    BY <1>2, <1>7 DEF InFlight, Resolved, Pinned, UnresolvedIntentKeepsOwnership
  <2>2. CASE x = a
    BY <1>6, <2>2
  <2>3. CASE x # a
    <3>1. row[x] # None /\ row[x].key \in Keys /\ ResourceKeys(row[x].environment) \subseteq Resources
      BY <2>1, ResourceKeysType DEF OwnsLease, Pinned, TypeOK, Row
    <3>2. row[x].key # key /\ \A r \in ResourceKeys(row[x].environment) : r \notin res
      BY <2>1, <2>3, PinnedApart DEF Pinned
    <3> QED
      BY <1>3, <1>4, <1>5, <2>1, <3>1, <3>2, OwnerUntouched DEF Pinned
  <2> QED
    BY <2>2, <2>3
<1>8. IntentsAdmitted'
  BY <1>2, <1>3 DEF Pinned, IntentsAdmitted, TypeOK
<1> QED
  BY <1>7, <1>8 DEF Pinned, UnresolvedIntentKeepsOwnership

\* renew moves both expiries of an owner together.
LEMMA PinnedRenew == ASSUME Pinned, TypeOK', RenewStep PROVE Pinned'
<1> PICK a \in Attempts, f \in Fences, ttl \in TTLs : Renew(a, f, ttl)
  BY DEF RenewStep
<1> DEFINE key == row[a].key
<1> DEFINE res == ResourceKeys(row[a].environment)
<1> DEFINE expiry == ExpiryAfter(clock, ttl)
<1>1. /\ OwnsLease(a) /\ ResourceOwner(a)
      /\ row[a] \in Row /\ row[a] # None /\ key \in Keys /\ res \subseteq Resources
      /\ lease[key] \in Lease
  BY ResourceKeysType DEF Renew, Fenced, OwnsLease, LeaseOf, Pinned, TypeOK, Row
<1>2. UNCHANGED <<row, intents, stripeReceipts>>
  BY DEF Renew, effects
<1>3. /\ lease'[key] \in Lease /\ lease'[key].attempt = a
      /\ lease'[key].fence = lease[key].fence /\ lease'[key].run = lease[key].run
      /\ lease'[key].expiresAt = expiry
      /\ \A k \in Keys : k # key => lease'[k] = lease[k]
  <2>1. expiry \in Nat
    BY NumericAssumption DEF Pinned, TypeOK, ExpiryAfter
  <2>2. lease' = [lease EXCEPT ![key].expiresAt = expiry]
    BY DEF Renew
  <2>3. lease[key].attempt = a
    BY <1>1 DEF OwnsLease, LeaseOf
  <2> QED
    BY <1>1, <2>1, <2>2, <2>3 DEF Pinned, TypeOK, Lease
<1>4. /\ \A r \in res : lock'[r] = [attempt |-> a, fence |-> lease[key].fence,
                                    expiresAt |-> expiry, run |-> lease[key].run]
      /\ \A r \in Resources : r \notin res => lock'[r] = lock[r]
  <2>1. \A r \in res : lock[r] = [attempt |-> a, fence |-> lease[key].fence,
                              expiresAt |-> lease[key].expiresAt, run |-> lease[key].run]
    BY <1>1 DEF ResourceOwner, LeaseOf
  <2>2. \A r \in res : lock'[r] = [lock[r] EXCEPT !.expiresAt = expiry]
    BY <1>1 DEF Renew
  <2>3. \A r \in Resources : r \notin res => lock'[r] = lock[r]
    BY DEF Renew
  <2> QED
    BY <2>1, <2>2, <2>3
<1>5. OwnsLease(a)' /\ ResourceOwner(a)'
  BY <1>1, <1>2, <1>3, <1>4, NoneAssumption DEF OwnsLease, ResourceOwner, LeaseOf
<1>6. ASSUME NEW x \in Attempts, InFlight(x)' PROVE OwnsLease(x)' /\ ResourceOwner(x)'
  <2>1. OwnsLease(x) /\ ResourceOwner(x)
    BY <1>2, <1>6 DEF InFlight, Resolved, Pinned, UnresolvedIntentKeepsOwnership
  <2>2. CASE x = a
    BY <1>5, <2>2
  <2>3. CASE x # a
    <3>1. row[x] # None /\ row[x].key \in Keys /\ ResourceKeys(row[x].environment) \subseteq Resources
      BY <2>1, ResourceKeysType DEF OwnsLease, Pinned, TypeOK, Row
    <3>2. row[x].key # key /\ \A r \in ResourceKeys(row[x].environment) : r \notin res
      BY <1>1, <2>1, <2>3, PinnedApart DEF Pinned
    <3> QED
      BY <1>2, <1>3, <1>4, <2>1, <3>1, <3>2, OwnerUntouched DEF Pinned
  <2> QED
    BY <2>2, <2>3
<1>7. IntentsAdmitted'
  BY <1>2 DEF Pinned, IntentsAdmitted
<1> QED
  BY <1>6, <1>7 DEF Pinned, UnresolvedIntentKeepsOwnership

\* cleanup releases an owner only when none of its intents is unresolved.
LEMMA PinnedCleanup == ASSUME Pinned, TypeOK', CleanupStep PROVE Pinned'
<1> PICK a \in Attempts, f \in Fences : Cleanup(a, f)
  BY DEF CleanupStep
<1> DEFINE key == row[a].key
<1> DEFINE res == ResourceKeys(row[a].environment)
<1>1. /\ OwnsLease(a) /\ ResourceOwner(a) /\ ~InFlight(a)
      /\ row[a] \in Row /\ row[a] # None /\ key \in Keys /\ res \subseteq Resources
  BY ResourceKeysType DEF Cleanup, Fenced, OwnsLease, Pinned, TypeOK, Row
<1>2. UNCHANGED <<intents, stripeReceipts>>
  BY DEF Cleanup, effects
<1>3. \A x \in Attempts :
        /\ row'[x] = None <=> row[x] = None
        /\ row[x] # None => row'[x].key = row[x].key /\ row'[x].environment = row[x].environment
  BY <1>1, NoneAssumption DEF Cleanup, Pinned, TypeOK, Row
<1>4. /\ \A k \in Keys : k # key => lease'[k] = lease[k]
      /\ \A r \in Resources : r \notin res => lock'[r] = lock[r]
  BY DEF Cleanup, Pinned, TypeOK
<1>5. ASSUME NEW x \in Attempts, InFlight(x)' PROVE OwnsLease(x)' /\ ResourceOwner(x)'
  <2>1. OwnsLease(x) /\ ResourceOwner(x) /\ x # a
    BY <1>1, <1>2, <1>5 DEF InFlight, Resolved, Pinned, UnresolvedIntentKeepsOwnership
  <2>2. row[x] # None /\ row[x].key \in Keys /\ ResourceKeys(row[x].environment) \subseteq Resources
    BY <2>1, ResourceKeysType DEF OwnsLease, Pinned, TypeOK, Row
  <2>3. row[x].key # key /\ \A r \in ResourceKeys(row[x].environment) : r \notin res
    BY <1>1, <2>1, PinnedApart DEF Pinned
  <2> QED
    BY <1>3, <1>4, <2>1, <2>2, <2>3, OwnerUntouched DEF Pinned
<1>6. IntentsAdmitted'
  BY <1>2, <1>3 DEF Pinned, IntentsAdmitted, TypeOK
<1> QED
  BY <1>5, <1>6 DEF Pinned, UnresolvedIntentKeepsOwnership

\* What is recorded grows: receipts stay, and a new intent belongs to an owner.
LEMMA EvidenceGrows ==
    ASSUME TypeOK, [Next]_vars
    PROVE  /\ stripeReceipts \subseteq stripeReceipts'
           /\ cleanupReceipts \subseteq cleanupReceipts'
           /\ \A a \in Attempts : receipt[a] # None => receipt'[a] # None
           /\ \A i \in intents' : i \in intents \/
                 (i.attempt \in Attempts /\ OwnsLease(i.attempt) /\ ResourceOwner(i.attempt))
<1> DEFINE Grows ==
      /\ stripeReceipts \subseteq stripeReceipts'
      /\ cleanupReceipts \subseteq cleanupReceipts'
      /\ \A a \in Attempts : receipt[a] # None => receipt'[a] # None
      /\ \A i \in intents' : i \in intents \/
            (i.attempt \in Attempts /\ OwnsLease(i.attempt) /\ ResourceOwner(i.attempt))
<1>1. CASE UNCHANGED vars
  BY <1>1 DEF vars, effects, ledger
<1>2. CASE Admission
  BY <1>2 DEF Admission, Prepare, PrepareReplay, effects, ledger
<1>3. CASE Settlement
  <2> PICK a \in Attempts, retained \in Usages : ReconcileReservation(a, retained)
    BY <1>3 DEF Settlement
  <2>1. \A b \in Attempts : receipt[b] # None => receipt'[b] # None
    BY DEF ReconcileReservation, TypeOK
  <2> QED
    BY <2>1 DEF ReconcileReservation, effects
<1>4. CASE Provider
  <2> PICK a \in Attempts, f \in Fences :
        \/ \E op \in Operations : BeginStripeIntent(a, f, op)
        \/ \E i \in intents : ReconcileStripeIntent(a, f, i)
        \/ \E run \in Runs, ttl \in TTLs : HandoffStripeIntentRecovery(a, f, run, ttl)
    BY <1>4 DEF Provider
  <2>1. ASSUME NEW op \in Operations, BeginStripeIntent(a, f, op) PROVE Grows
    <3>1. OwnsLease(a) /\ ResourceOwner(a)
      BY <2>1 DEF BeginStripeIntent, Fenced
    <3>2. intents' = intents \cup {[attempt |-> a, operation |-> op, fence |-> f]}
      BY <2>1 DEF BeginStripeIntent
    <3>3. UNCHANGED <<stripeReceipts, cleanupReceipts, receipt>>
      BY <2>1 DEF BeginStripeIntent, ledger
    <3> QED
      BY <3>1, <3>2, <3>3
  <2>2. ASSUME NEW i \in intents, ReconcileStripeIntent(a, f, i) PROVE Grows
    BY <2>2 DEF ReconcileStripeIntent, ledger
  <2>3. ASSUME NEW run \in Runs, NEW ttl \in TTLs, HandoffStripeIntentRecovery(a, f, run, ttl)
        PROVE  Grows
    BY <2>3 DEF HandoffStripeIntentRecovery, Reassign, effects, ledger
  <2> QED
    BY <2>1, <2>2, <2>3
<1>5. CASE Fixture
  BY <1>5 DEF Fixture, FixtureMutation, FixtureMutationWithReservation, ledger
<1>6. CASE Life
  BY <1>6, LifeKeeps DEF effects, ledger
<1>7. CASE Surroundings
  BY <1>7 DEF Surroundings, Tick, RunEnds, effects, ledger
<1> QED
  BY <1>1, <1>2, <1>3, <1>4, <1>5, <1>6, <1>7 DEF Next

\* A step that leaves rows, leases and locks in place pins what was pinned, and
\* the owner of a new intent.
LEMMA PinnedInPlace ==
    ASSUME Pinned, TypeOK', [Next]_vars, TransitionStep \/ QuietStep
    PROVE  Pinned'
<1>1. /\ lease' = lease /\ lock' = lock
      /\ \A x \in Attempts : row[x] # None =>
            row'[x] # None /\ row'[x].key = row[x].key /\ row'[x].environment = row[x].environment
  <2>1. CASE QuietStep
    BY <2>1 DEF QuietStep
  <2>2. CASE TransitionStep
    <3> PICK a \in Attempts, f \in Fences, to \in States : Transition(a, f, to)
      BY <2>2 DEF TransitionStep
    <3>1. row[a] \in Row
      BY DEF Transition, Fenced, OwnsLease, Pinned, TypeOK
    <3> QED
      BY <3>1, NoneAssumption DEF Transition, Pinned, TypeOK, Row
  <2> QED
    BY <2>1, <2>2
<1>2. /\ stripeReceipts \subseteq stripeReceipts'
      /\ \A i \in intents' : i \in intents \/
            (i.attempt \in Attempts /\ OwnsLease(i.attempt) /\ ResourceOwner(i.attempt))
  BY EvidenceGrows DEF Pinned
<1>3. IntentsAdmitted'
  <2>1. \A i \in intents' : i.attempt \in Attempts /\ row[i.attempt] # None
    BY <1>2 DEF OwnsLease, Pinned, IntentsAdmitted, TypeOK
  <2> QED
    BY <1>1, <2>1 DEF IntentsAdmitted
<1>4. ASSUME NEW x \in Attempts, InFlight(x)' PROVE OwnsLease(x)' /\ ResourceOwner(x)'
  <2>1. PICK i \in intents' : i.attempt = x /\ ~Resolved(i)'
    BY <1>4 DEF InFlight
  <2>2. ~Resolved(i)
    BY <1>2, <2>1 DEF Resolved
  <2>3. OwnsLease(x) /\ ResourceOwner(x)
    BY <1>2, <2>1, <2>2 DEF InFlight, Pinned, UnresolvedIntentKeepsOwnership
  <2> QED
    BY <1>1, <2>3, OwnerUntouched DEF OwnsLease, Pinned
<1> QED
  BY <1>3, <1>4 DEF Pinned, UnresolvedIntentKeepsOwnership

\* An ambiguous provider effect pins its owner, for every number of attempts,
\* operations and runs: no expiry, takeover or handoff separates an attempt from
\* its lease or from its resources while an intent of it has no receipt.
THEOREM UnresolvedIntentsPin == Spec => []UnresolvedIntentKeepsOwnership
<1>1. Init => Pinned
  BY TypeInit DEF Init, Pinned, IntentsAdmitted, UnresolvedIntentKeepsOwnership, InFlight
<1>2. ASSUME Pinned, [Next]_vars PROVE Pinned'
  <2>1. TypeOK /\ TypeOK'
    BY <1>2, TypeNext DEF Pinned
  <2> QED
    BY <1>2, <2>1, StepCases, PinnedPrepare, PinnedReassign, PinnedRenew, PinnedCleanup, PinnedInPlace
<1>3. Pinned => UnresolvedIntentKeepsOwnership
  BY DEF Pinned
<1> QED
  BY <1>1, <1>2, <1>3, PTL DEF Spec

(***************************************************************************)
(* Cleaned attempts                                                        *)
(***************************************************************************)

\* What accounts for a cleaned attempt stays: it begins no further intent.
LEMMA StaysAccountedFor ==
    ASSUME Ownership, [Next]_vars, NEW x \in Attempts, Cleaned(x), ~InFlight(x),
           receipt[x] # None \/ OfAttempt(cleanupReceipts, x) # {}
    PROVE  ~InFlight(x)' /\ (receipt'[x] # None \/ OfAttempt(cleanupReceipts', x) # {})
<1>1. /\ stripeReceipts \subseteq stripeReceipts'
      /\ cleanupReceipts \subseteq cleanupReceipts'
      /\ receipt[x] # None => receipt'[x] # None
      /\ \A i \in intents' : i \in intents \/
            (i.attempt \in Attempts /\ OwnsLease(i.attempt) /\ ResourceOwner(i.attempt))
  BY EvidenceGrows DEF Ownership
<1>2. ~(OwnsLease(x) /\ ResourceOwner(x))
  BY DisplacedOwnsNothing DEF Ownership, DisplacedIsCleaned
<1>3. ~InFlight(x)'
  BY <1>1, <1>2 DEF InFlight, Resolved
<1>4. OfAttempt(cleanupReceipts, x) \subseteq OfAttempt(cleanupReceipts', x)
  BY <1>1 DEF OfAttempt
<1> QED
  BY <1>1, <1>3, <1>4

\* A takeover marks only attempts that are resolved and settled.
LEMMA TakeoverAccounts ==
    ASSUME Ownership, AdmitStep, NEW x \in Attempts, Cleaned(x)', ~Cleaned(x)
    PROVE  ~InFlight(x)' /\ receipt'[x] # None
<1> PICK a \in Attempts, key \in Keys, env \in Environments, run \in Runs, ttl \in TTLs,
         quotas \in Policies, projection \in Usages, now \in EarlierReadings :
        Prepare(a, key, env, run, ttl, quotas, projection, now)
  BY DEF AdmitStep
<1>1. x \in PriorOwners(key, env)
  <2>1. CASE x = a
    <3>1. row'[a] = [key |-> key, environment |-> env, workflow |-> run, state |-> "collecting",
                     cleanupStatus |-> "pending"]
      BY DEF Prepare
    <3> QED
      BY <2>1, <3>1 DEF Cleaned
  <2>2. CASE x # a /\ x \notin PriorOwners(key, env)
    BY <2>2 DEF Prepare, Cleaned
  <2> QED
    BY <2>1, <2>2
<1>2. ~InFlight(x) /\ receipt[x] # None
  BY <1>1 DEF Prepare, GivesWay
<1> QED
  BY <1>2 DEF Prepare, effects, InFlight, Resolved

\* cleanup marks its attempt with a receipt of its own.
LEMMA CleanupAccounts ==
    ASSUME Ownership, CleanupStep, NEW x \in Attempts, Cleaned(x)', ~Cleaned(x)
    PROVE  ~InFlight(x)' /\ OfAttempt(cleanupReceipts', x) # {}
<1> PICK a \in Attempts, f \in Fences : Cleanup(a, f)
  BY DEF CleanupStep
<1>1. x = a
  BY DEF Cleanup, Cleaned, Ownership, TypeOK
<1> DEFINE done == [attempt |-> a, fence |-> f]
<1>2. done \in cleanupReceipts' /\ done.attempt = a
  BY DEF Cleanup
<1>3. done \in OfAttempt(cleanupReceipts', x)
  BY <1>1, <1>2 DEF OfAttempt
<1>4. ~InFlight(x)'
  BY <1>1 DEF Cleanup, effects, InFlight, Resolved
<1> QED
  BY <1>3, <1>4

\* An attempt that counts as cleaned up has no unresolved provider effect and has
\* evidence behind it, for every number of attempts and takeovers.
THEOREM CleanedAccounted == Spec => []CleanedMeansAccountedFor
<1>1. Init => CleanedMeansAccountedFor
  BY DEF Init, CleanedMeansAccountedFor
<1>2. ASSUME Ownership, CleanedMeansAccountedFor, [Next]_vars PROVE CleanedMeansAccountedFor'
  <2> SUFFICES ASSUME NEW x \in Attempts, Cleaned(x)'
               PROVE  ~InFlight(x)' /\ (receipt'[x] # None \/ OfAttempt(cleanupReceipts', x) # {})
    BY DEF CleanedMeansAccountedFor, Cleaned
  <2>1. CASE Cleaned(x)
    BY <1>2, <2>1, StaysAccountedFor DEF CleanedMeansAccountedFor, Cleaned
  <2>2. CASE ~Cleaned(x)
    <3>1. CASE AdmitStep
      BY <1>2, <2>2, <3>1, TakeoverAccounts
    <3>2. CASE CleanupStep
      BY <1>2, <2>2, <3>2, CleanupAccounts
    <3>3. CASE ReassignStep
      <4> PICK a \in Attempts, run \in Runs, ttl \in TTLs, recoveryOnly \in BOOLEAN, event \in Grants :
              OwnsLease(a) /\ Reassign(a, run, ttl, recoveryOnly, event)
        BY <3>3 DEF ReassignStep
      <4>1. row[a] \in Row /\ row[a] # None
        BY <1>2 DEF OwnsLease, Ownership, TypeOK
      <4>2. row' = [row EXCEPT ![a].state = "rechecking"]
        BY DEF Reassign
      <4> QED
        BY <1>2, <2>2, <4>1, <4>2 DEF Cleaned, Ownership, TypeOK, Row
    <3>4. CASE TransitionStep
      <4> PICK a \in Attempts, f \in Fences, to \in States : Transition(a, f, to)
        BY <3>4 DEF TransitionStep
      <4>1. row[a] \in Row /\ row[a] # None
        BY <1>2 DEF Transition, Fenced, OwnsLease, Ownership, TypeOK
      <4>2. row' = [row EXCEPT ![a].state = to]
        BY DEF Transition
      <4> QED
        BY <1>2, <2>2, <4>1, <4>2 DEF Cleaned, Ownership, TypeOK, Row
    <3>5. CASE RenewStep \/ QuietStep
      BY <2>2, <3>5 DEF RenewStep, Renew, QuietStep, Cleaned
    <3> QED
      BY <1>2, <3>1, <3>2, <3>3, <3>4, <3>5, StepCases DEF Ownership
  <2> QED
    BY <2>1, <2>2
<1> QED
  BY <1>1, <1>2, OwnershipInvariant, PTL DEF Spec

(***************************************************************************)
(* Recovery fences                                                         *)
(***************************************************************************)

Writes == intents \cup fixtureWrites \cup caseClaims

\* Fences in use were drawn from the sequence, and a lease whose fence came from
\* an intent recovery is still marked as such.
RecoveryMarked ==
    /\ TypeOK
    /\ \A h \in history : h.fence <= fenceSeq
    /\ \A w \in Writes : w.fence <= fenceSeq
    /\ \A k \in Keys : lease[k] # None => lease[k].fence <= fenceSeq
    /\ \A h \in history : h.event = "recovery_handoff" =>
          \A k \in Keys :
              lease[k] # None /\ lease[k].attempt = h.attempt /\ lease[k].fence = h.fence =>
                  lease[k].recoveryOnly

\* A new write carries the fence of a lease that is not marked recovery only.
LEMMA WritersAreUnmarked ==
    ASSUME TypeOK, [Next]_vars
    PROVE  \A w \in Writes' : w \in Writes \/
              (\E k \in Keys : /\ lease[k] # None /\ lease[k].attempt = w.attempt
                               /\ lease[k].fence = w.fence /\ ~lease[k].recoveryOnly)
<1> DEFINE Unmarked ==
      \A w \in Writes' : w \in Writes \/
          (\E k \in Keys : /\ lease[k] # None /\ lease[k].attempt = w.attempt
                           /\ lease[k].fence = w.fence /\ ~lease[k].recoveryOnly)
<1>1. ASSUME NEW a \in Attempts, NEW f, Fenced(a, f), ~LeaseOf(a).recoveryOnly
      PROVE  \E k \in Keys : /\ lease[k] # None /\ lease[k].attempt = a
                             /\ lease[k].fence = f /\ ~lease[k].recoveryOnly
  BY <1>1 DEF Fenced, OwnsLease, LeaseOf, TypeOK, Row
<1>2. CASE Writes' = Writes
  BY <1>2
<1>3. ASSUME NEW a \in Attempts, NEW f \in Fences, NEW op \in Operations,
             BeginStripeIntent(a, f, op)
      PROVE  Unmarked
  <2> DEFINE intent == [attempt |-> a, operation |-> op, fence |-> f]
  <2>1. Writes' = Writes \cup {intent}
    BY <1>3 DEF BeginStripeIntent, Writes
  <2>2. intent.attempt = a /\ intent.fence = f
    OBVIOUS
  <2>3. Fenced(a, f) /\ ~LeaseOf(a).recoveryOnly
    BY <1>3 DEF BeginStripeIntent, MayWrite
  <2> HIDE DEF intent
  <2> QED
    BY <1>1, <2>1, <2>2, <2>3
<1>4. ASSUME NEW a \in Attempts, NEW f \in Fences, FixtureMutation(a, f)
      PROVE  Unmarked
  <2> DEFINE write == [attempt |-> a, fence |-> f]
  <2>1. Writes' = Writes \cup {write}
    BY <1>4 DEF FixtureMutation, Writes
  <2>2. write.attempt = a /\ write.fence = f
    OBVIOUS
  <2>3. Fenced(a, f) /\ ~LeaseOf(a).recoveryOnly
    BY <1>4 DEF FixtureMutation, MayWrite
  <2> HIDE DEF write
  <2> QED
    BY <1>1, <2>1, <2>2, <2>3
<1>5. ASSUME NEW a \in Attempts, NEW f \in Fences, NEW c \in Cases, NEW ns \in Namespaces,
             NEW kind \in FixtureKinds, NEW fixture \in FixtureIds, NEW rows \in RowRequests(a),
             NEW outcome \in WriterOutcomes,
             FixtureMutationWithReservation(a, f, rows, c, ns, kind, fixture, outcome)
      PROVE  Unmarked
  <2> DEFINE claim == [attempt |-> a, case |-> c, namespace |-> ns, fence |-> f]
  <2> DEFINE write == [attempt |-> a, fence |-> f]
  <2>1. \A w \in Writes' : w \in Writes \/ w = claim \/ w = write
    BY <1>5 DEF FixtureMutationWithReservation, Writes
  <2>2. claim.attempt = a /\ claim.fence = f /\ write.attempt = a /\ write.fence = f
    OBVIOUS
  <2>3. Fenced(a, f) /\ ~LeaseOf(a).recoveryOnly
    BY <1>5 DEF FixtureMutationWithReservation, MayClaim
  <2> HIDE DEF claim, write
  <2> QED
    BY <1>1, <2>1, <2>2, <2>3
<1>6. CASE UNCHANGED vars
  BY <1>2, <1>6 DEF vars, effects, Writes
<1>7. CASE Admission \/ Settlement
  BY <1>2, <1>7 DEF Admission, Prepare, PrepareReplay, Settlement, ReconcileReservation, effects, Writes
<1>8. CASE Provider
  <2> PICK a \in Attempts, f \in Fences :
        \/ \E op \in Operations : BeginStripeIntent(a, f, op)
        \/ \E i \in intents : ReconcileStripeIntent(a, f, i)
        \/ \E run \in Runs, ttl \in TTLs : HandoffStripeIntentRecovery(a, f, run, ttl)
    BY <1>8 DEF Provider
  <2>1. ASSUME NEW i \in intents, ReconcileStripeIntent(a, f, i)
        PROVE  Writes' = Writes
    BY <2>1 DEF ReconcileStripeIntent, Writes
  <2>2. ASSUME NEW run \in Runs, NEW ttl \in TTLs, HandoffStripeIntentRecovery(a, f, run, ttl)
        PROVE  Writes' = Writes
    <3>1. Reassign(a, run, ttl, TRUE, "recovery_handoff")
      BY <2>2 DEF HandoffStripeIntentRecovery
    <3> QED
      BY <3>1 DEF Reassign, effects, Writes
  <2> QED
    BY <1>2, <1>3, <2>1, <2>2
<1>9. CASE Fixture
  BY <1>4, <1>5, <1>9 DEF Fixture
<1>10. CASE Life \/ Surroundings
  <2>1. Life => Writes' = Writes
    BY LifeKeeps DEF effects, Writes
  <2>2. Surroundings => Writes' = Writes
    BY DEF Surroundings, Tick, RunEnds, effects, Writes
  <2> QED
    BY <1>2, <1>10, <2>1, <2>2
<1> QED
  BY <1>6, <1>7, <1>8, <1>9, <1>10 DEF Next

\* Every step keeps the marks.
LEMMA RecoveryMarkedNext == ASSUME RecoveryMarked, [Next]_vars PROVE RecoveryMarked'
<1>1. /\ TypeOK /\ TypeOK' /\ fenceSeq \in Nat
      /\ \A h \in history : h.fence \in Nat
      /\ \A k \in Keys : lease[k] # None => lease[k].fence \in Nat
      /\ \A w \in Writes : w.fence \in Nat
  BY TypeNext DEF RecoveryMarked, TypeOK, Event, Lease, Writes
<1>2. \A w \in Writes' : w.fence <= fenceSeq
  BY <1>1, WritersAreUnmarked DEF RecoveryMarked
<1>3. \A w \in Writes' : w.fence \in Nat
  BY <1>1 DEF TypeOK, Writes
<1>4. CASE AdmitStep
  <2> PICK a \in Attempts, key \in Keys, env \in Environments, run \in Runs, ttl \in TTLs,
           quotas \in Policies, projection \in Usages, now \in EarlierReadings :
          Prepare(a, key, env, run, ttl, quotas, projection, now)
    BY <1>4 DEF AdmitStep
  <2> DEFINE fence == fenceSeq + 1
  <2> DEFINE granted == IF lease[key] # None THEN "takeover" ELSE "acquired"
  <2> DEFINE grant == [attempt |-> a, fence |-> fence, run |-> run, event |-> granted]
  <2>1. fenceSeq' = fence /\ history' = history \cup {grant}
    BY DEF Prepare
  <2>2. grant.fence = fence /\ grant.event # "recovery_handoff"
    OBVIOUS
  <2>3. lease'[key].fence = fence /\ \A k \in Keys : k # key => lease'[k] = lease[k]
    BY <1>1 DEF Prepare, TypeOK
  <2> HIDE DEF grant
  <2> QED
    BY <1>1, <1>2, <1>3, <2>1, <2>2, <2>3 DEF RecoveryMarked
<1>5. CASE ReassignStep
  <2> PICK a \in Attempts, run \in Runs, ttl \in TTLs, recoveryOnly \in BOOLEAN, event \in Grants :
          /\ OwnsLease(a)
          /\ event = "recovery_handoff" => recoveryOnly
          /\ Reassign(a, run, ttl, recoveryOnly, event)
    BY <1>5 DEF ReassignStep
  <2> DEFINE key == row[a].key
  <2> DEFINE fence == fenceSeq + 1
  <2> DEFINE grant == [attempt |-> a, fence |-> fence, run |-> run, event |-> event]
  <2>1. key \in Keys
    BY <1>1 DEF OwnsLease, TypeOK, Row
  <2>2. fenceSeq' = fence /\ history' = history \cup {grant}
    BY DEF Reassign
  <2>3. grant.fence = fence /\ grant.event = event
    OBVIOUS
  <2>4. /\ lease'[key].fence = fence /\ lease'[key].recoveryOnly = recoveryOnly
        /\ \A k \in Keys : k # key => lease'[k] = lease[k]
    BY <1>1, <2>1 DEF Reassign, TypeOK
  <2> HIDE DEF grant
  <2> QED
    BY <1>1, <1>2, <1>3, <2>1, <2>2, <2>3, <2>4 DEF RecoveryMarked
<1>6. CASE RenewStep
  <2> PICK a \in Attempts, f \in Fences, ttl \in TTLs : Renew(a, f, ttl)
    BY <1>6 DEF RenewStep
  <2>1. row[a].key \in Keys /\ lease[row[a].key] \in Lease
    BY <1>1 DEF Renew, Fenced, OwnsLease, LeaseOf, TypeOK, Row
  <2>2. lease' = [lease EXCEPT ![row[a].key].expiresAt = ExpiryAfter(clock, ttl)]
    BY DEF Renew
  <2>3. \A k \in Keys : lease'[k] # None => /\ lease[k] # None
                                            /\ lease'[k].attempt = lease[k].attempt
                                            /\ lease'[k].fence = lease[k].fence
                                            /\ lease'[k].recoveryOnly = lease[k].recoveryOnly
    BY <1>1, <2>1, <2>2, NoneAssumption DEF TypeOK, Lease
  <2>4. UNCHANGED <<fenceSeq, history>>
    BY DEF Renew
  <2> QED
    BY <1>1, <1>2, <2>3, <2>4 DEF RecoveryMarked
<1>7. CASE CleanupStep
  <2> PICK a \in Attempts, f \in Fences : Cleanup(a, f)
    BY <1>7 DEF CleanupStep
  <2>1. \A k \in Keys : lease'[k] # None => lease'[k] = lease[k]
    BY <1>1 DEF Cleanup, TypeOK
  <2>2. UNCHANGED <<fenceSeq, history>>
    BY DEF Cleanup
  <2> QED
    BY <1>1, <1>2, <2>1, <2>2 DEF RecoveryMarked
<1>8. CASE TransitionStep \/ QuietStep
  <2>1. UNCHANGED <<fenceSeq, history, lease>>
    BY <1>8 DEF TransitionStep, Transition, QuietStep
  <2> QED
    BY <1>1, <1>2, <2>1 DEF RecoveryMarked
<1> QED
  BY <1>1, <1>4, <1>5, <1>6, <1>7, <1>8, StepCases

\* A fence handed out by an intent recovery never writes, for every number of
\* handoffs, renewals and transitions.
THEOREM RecoveryReadsOnly == Spec => []RecoveryFenceNeverWrites
<1> DEFINE IInv == RecoveryMarked /\ RecoveryFenceNeverWrites
<1>1. Init => IInv
  BY TypeInit DEF Init, RecoveryMarked, RecoveryFenceNeverWrites, Writes
<1>2. ASSUME IInv, [Next]_vars PROVE IInv'
  <2>1. RecoveryMarked'
    BY <1>2, RecoveryMarkedNext
  <2>2. /\ TypeOK /\ fenceSeq \in Nat
        /\ \A w \in Writes : w.fence \in Nat
    BY <1>2 DEF RecoveryMarked, TypeOK, Writes
  <2>3. \A h \in history' : h \in history \/ h.fence = fenceSeq + 1
    <3>1. CASE AdmitStep
      BY <3>1 DEF AdmitStep, Prepare
    <3>2. CASE ReassignStep
      BY <3>2 DEF ReassignStep, Reassign
    <3>3. CASE RenewStep \/ TransitionStep \/ CleanupStep \/ QuietStep
      BY <3>3 DEF RenewStep, Renew, TransitionStep, Transition, CleanupStep, Cleanup, QuietStep
    <3> QED
      BY <1>2, <2>2, <3>1, <3>2, <3>3, StepCases
  <2>4. \A w \in Writes' : w \in Writes \/
          (\E k \in Keys : /\ lease[k] # None /\ lease[k].attempt = w.attempt
                           /\ lease[k].fence = w.fence /\ ~lease[k].recoveryOnly)
    BY <1>2, <2>2, WritersAreUnmarked
  <2>5. \A w \in Writes' : w.fence \in Nat /\ w.fence <= fenceSeq
    BY <1>2, <2>2, <2>4 DEF RecoveryMarked, TypeOK, Lease
  <2>6. ASSUME NEW h \in history', h.event = "recovery_handoff", NEW w \in Writes',
               w.attempt = h.attempt, w.fence = h.fence
        PROVE  FALSE
    <3>1. h \in history
      BY <2>2, <2>3, <2>5, <2>6
    <3>2. w \notin Writes
      BY <1>2, <2>6, <3>1 DEF RecoveryFenceNeverWrites, Writes
    <3> QED
      BY <1>2, <2>4, <2>6, <3>1, <3>2 DEF RecoveryMarked
  <2>7. RecoveryFenceNeverWrites'
    BY <2>6 DEF RecoveryFenceNeverWrites, Writes
  <2> QED
    BY <2>1, <2>7
<1> QED
  BY <1>1, <1>2, PTL DEF Spec
(***************************************************************************)
(* Reserved rows                                                           *)
(***************************************************************************)

\* Only an admitted attempt claims fixtures, finitely many, and pays for each.
Paid ==
    /\ TypeOK
    /\ \A x \in fixtureClaims : row[x.attempt] # None
    /\ \A a \in Attempts : IsFiniteSet(OfAttempt(fixtureClaims, a))
    /\ ClaimedRowsAreReserved

\* An attempt that was admitted stays in the table.
LEMMA AdmittedStays ==
    ASSUME TypeOK, [Next]_vars
    PROVE  \A x \in Attempts : row[x] # None => row'[x] # None
<1>1. CASE AdmitStep
  <2> PICK a \in Attempts, key \in Keys, env \in Environments, run \in Runs, ttl \in TTLs,
           quotas \in Policies, projection \in Usages, now \in EarlierReadings :
          Prepare(a, key, env, run, ttl, quotas, projection, now)
    BY <1>1 DEF AdmitStep
  <2> SUFFICES ASSUME NEW x \in Attempts, row[x] # None PROVE row'[x] # None
    OBVIOUS
  <2>1. row'[x] = row[x] \/ row'[x] = [row[x] EXCEPT !.cleanupStatus = "complete"]
    BY DEF Prepare
  <2>2. row[x] \in Row
    BY DEF TypeOK
  <2>3. [row[x] EXCEPT !.cleanupStatus = "complete"] \in Row
    BY <2>2 DEF Row
  <2> QED
    BY <2>1, <2>2, <2>3, NoneAssumption
<1>4. CASE ReassignStep
  <2> PICK a \in Attempts, run \in Runs, ttl \in TTLs, recoveryOnly \in BOOLEAN, event \in Grants :
        OwnsLease(a) /\ Reassign(a, run, ttl, recoveryOnly, event)
    BY <1>4 DEF ReassignStep
  <2>1. row[a] \in Row /\ row' = [row EXCEPT ![a] = [row[a] EXCEPT !.state = "rechecking"]]
    BY DEF Reassign, OwnsLease, TypeOK
  <2>2. [row[a] EXCEPT !.state = "rechecking"] \in Row
    BY <2>1 DEF Row, States
  <2> QED
    BY <2>1, <2>2, NoneAssumption DEF TypeOK
<1>5. CASE TransitionStep
  <2> PICK a \in Attempts, f \in Fences, to \in States : Transition(a, f, to)
    BY <1>5 DEF TransitionStep
  <2>1. row[a] \in Row /\ row' = [row EXCEPT ![a] = [row[a] EXCEPT !.state = to]]
    BY DEF Transition, Fenced, OwnsLease, TypeOK
  <2>2. [row[a] EXCEPT !.state = to] \in Row
    BY <2>1 DEF Row
  <2> QED
    BY <2>1, <2>2, NoneAssumption DEF TypeOK
<1>6. CASE CleanupStep
  <2> PICK a \in Attempts, f \in Fences : Cleanup(a, f)
    BY <1>6 DEF CleanupStep
  <2>1. row[a] \in Row /\ row' = [row EXCEPT ![a] = [row[a] EXCEPT !.cleanupStatus = "complete"]]
    BY DEF Cleanup, Fenced, OwnsLease, TypeOK
  <2>2. [row[a] EXCEPT !.cleanupStatus = "complete"] \in Row
    BY <2>1 DEF Row
  <2> QED
    BY <2>1, <2>2, NoneAssumption DEF TypeOK
<1>7. CASE RenewStep \/ QuietStep
  BY <1>7 DEF RenewStep, Renew, QuietStep
<1> QED
  BY <1>1, <1>4, <1>5, <1>6, <1>7, StepCases

\* A step admits an attempt with an empty bill, claims one fixture and adds its
\* rows to the bill, or touches neither the claims nor the reservations.
LEMMA ClaimSteps ==
    ASSUME TypeOK, [Next]_vars
    PROVE  \/ \E a \in Attempts, quotas \in Policies, projection \in Usages :
                /\ row[a] = None /\ row'[a] # None
                /\ reservation' = [reservation EXCEPT ![a] =
                      [quotas |-> quotas, projection |-> projection, rowsUsed |-> 0]]
                /\ fixtureClaims' = fixtureClaims
           \/ \E a \in Attempts, rows \in Int, x \in
                  [attempt : Attempts, case : Cases, kind : FixtureKinds, fixture : FixtureIds] :
                /\ row[a] # None /\ reservation[a] # None /\ x.attempt = a
                /\ 1 <= rows /\ reservation[a].rowsUsed + rows <= reservation[a].projection["databaseRows"]
                /\ fixtureClaims' = fixtureClaims \cup {x}
                /\ reservation' = [reservation EXCEPT ![a] =
                      [reservation[a] EXCEPT !.rowsUsed = reservation[a].rowsUsed + rows]]
           \/ UNCHANGED <<reservation, fixtureClaims>>
<1>1. CASE Admission
  <2>1. ASSUME NEW a \in Attempts, NEW key \in Keys, NEW env \in Environments, NEW run \in Runs,
               NEW ttl \in TTLs, NEW quotas \in Policies, NEW projection \in Usages,
               NEW now \in EarlierReadings,
               Prepare(a, key, env, run, ttl, quotas, projection, now)
        PROVE  /\ row[a] = None /\ row'[a] # None
               /\ reservation' = [reservation EXCEPT ![a] =
                     [quotas |-> quotas, projection |-> projection, rowsUsed |-> 0]]
               /\ fixtureClaims' = fixtureClaims
    <3>1. row'[a] = [key |-> key, environment |-> env, workflow |-> run, state |-> "collecting",
                     cleanupStatus |-> "pending"]
      BY <2>1 DEF Prepare
    <3>2. row'[a] \in Row
      BY <3>1 DEF Row, States
    <3> QED
      BY <2>1, <3>2, NoneAssumption DEF Prepare, effects
  <2>2. ASSUME NEW a \in Attempts, NEW run \in Runs, NEW quotas \in Policies,
               NEW projection \in Usages, NEW now \in EarlierReadings,
               PrepareReplay(a, run, quotas, projection, now)
        PROVE  UNCHANGED <<reservation, fixtureClaims>>
    BY <2>2 DEF PrepareReplay, ledger, effects
  <2> QED
    BY <1>1, <2>1, <2>2 DEF Admission
<1>2. CASE Fixture
  <2>1. ASSUME NEW a \in Attempts, NEW f \in Fences, FixtureMutation(a, f)
        PROVE  UNCHANGED <<reservation, fixtureClaims>>
    BY <2>1 DEF FixtureMutation, ledger
  <2>2. ASSUME NEW a \in Attempts, NEW f \in Fences, NEW c \in Cases, NEW ns \in Namespaces,
               NEW kind \in FixtureKinds, NEW fixture \in FixtureIds, NEW rows \in RowRequests(a),
               NEW outcome \in WriterOutcomes,
               FixtureMutationWithReservation(a, f, rows, c, ns, kind, fixture, outcome)
        PROVE  \E n \in Int, x \in
                   [attempt : Attempts, case : Cases, kind : FixtureKinds, fixture : FixtureIds] :
                 /\ row[a] # None /\ reservation[a] # None /\ x.attempt = a
                 /\ 1 <= n /\ reservation[a].rowsUsed + n <= reservation[a].projection["databaseRows"]
                 /\ fixtureClaims' = fixtureClaims \cup {x}
                 /\ reservation' = [reservation EXCEPT ![a] =
                       [reservation[a] EXCEPT !.rowsUsed = reservation[a].rowsUsed + n]]
    <3> DEFINE claim == [attempt |-> a, case |-> c, kind |-> kind, fixture |-> fixture]
    <3>1. reservation[a] # None /\ rows \in 1 .. reservation[a].projection["databaseRows"]
      BY <2>2 DEF RowRequests, FixtureMutationWithReservation
    <3>2. rows \in Int /\ 1 <= rows
      BY <3>1
    <3>3. row[a] # None
      BY <2>2 DEF FixtureMutationWithReservation, Fenced, OwnsLease
    <3>4. /\ claim \in [attempt : Attempts, case : Cases, kind : FixtureKinds, fixture : FixtureIds]
          /\ claim.attempt = a
      OBVIOUS
    <3>5. reservation[a].rowsUsed + rows <= reservation[a].projection["databaseRows"]
      BY <2>2 DEF FixtureMutationWithReservation, RowsAvailable
    <3>6. fixtureClaims' = fixtureClaims \cup {claim}
      BY <2>2 DEF FixtureMutationWithReservation
    <3>7. reservation' = [reservation EXCEPT ![a] =
              [reservation[a] EXCEPT !.rowsUsed = reservation[a].rowsUsed + rows]]
      BY <2>2 DEF FixtureMutationWithReservation
    <3> HIDE DEF claim
    <3> QED
      BY <3>1, <3>2, <3>3, <3>4, <3>5, <3>6, <3>7
  <2> QED
    BY <1>2, <2>1, <2>2 DEF Fixture
<1>3. CASE Settlement \/ Surroundings \/ UNCHANGED vars
  BY <1>3 DEF Settlement, ReconcileReservation, Surroundings, Tick, RunEnds, vars, ledger, effects
<1>4. CASE Provider
  BY <1>4, ProviderKeeps
<1>5. CASE Life
  BY <1>5, LifeKeeps DEF ledger, effects
<1> QED
  BY <1>1, <1>2, <1>3, <1>4, <1>5 DEF Next

\* A claim is billed to the attempt that makes it, and to no other.
LEMMA PaidNext == ASSUME Paid, [Next]_vars PROVE Paid'
<1>1. TypeOK /\ TypeOK' /\ \A x \in Attempts : row[x] # None => row'[x] # None
  BY TypeNext, AdmittedStays DEF Paid
<1>2. \A x \in fixtureClaims : x.attempt \in Attempts
  BY DEF Paid, TypeOK
<1>3. \A u \in Usages : u["databaseRows"] \in Nat
  BY UsageAssumption DEF QuotaKeys
<1>4. CASE UNCHANGED <<reservation, fixtureClaims>>
  <2>1. \A a \in Attempts : OfAttempt(fixtureClaims', a) = OfAttempt(fixtureClaims, a)
    BY <1>4
  <2> QED
    BY <1>1, <1>2, <1>4, <2>1 DEF Paid, ClaimedRowsAreReserved, OfAttempt
<1>5. ASSUME NEW a \in Attempts, NEW quotas \in Policies, NEW projection \in Usages,
             row[a] = None, row'[a] # None,
             reservation' = [reservation EXCEPT ![a] =
                [quotas |-> quotas, projection |-> projection, rowsUsed |-> 0]],
             fixtureClaims' = fixtureClaims
      PROVE  Paid'
  <2>1. OfAttempt(fixtureClaims, a) = {}
    BY <1>5 DEF Paid, OfAttempt
  <2>2. Cardinality(OfAttempt(fixtureClaims, a)) = 0
    BY <2>1, FS_EmptySet
  <2>3. reservation'[a].rowsUsed = 0 /\ reservation'[a].projection["databaseRows"] \in Nat
    BY <1>1, <1>3, <1>5 DEF TypeOK
  <2>4. \A b \in Attempts : b # a => reservation'[b] = reservation[b]
    BY <1>5
  <2>5. ClaimedRowsAreReserved'
    BY <1>5, <2>2, <2>3, <2>4 DEF Paid, ClaimedRowsAreReserved, OfAttempt
  <2> QED
    BY <1>1, <1>2, <1>5, <2>5 DEF Paid, OfAttempt
<1>6. ASSUME NEW a \in Attempts, NEW rows \in Int,
             NEW x \in [attempt : Attempts, case : Cases, kind : FixtureKinds, fixture : FixtureIds],
             row[a] # None, reservation[a] # None, x.attempt = a, 1 <= rows,
             reservation[a].rowsUsed + rows <= reservation[a].projection["databaseRows"],
             fixtureClaims' = fixtureClaims \cup {x},
             reservation' = [reservation EXCEPT ![a] =
                [reservation[a] EXCEPT !.rowsUsed = reservation[a].rowsUsed + rows]]
      PROVE  Paid'
  <2>1. reservation[a] \in Reservation
    BY <1>1, <1>6 DEF TypeOK
  <2>2. /\ reservation'[a].rowsUsed = reservation[a].rowsUsed + rows
        /\ reservation'[a].projection = reservation[a].projection
        /\ reservation[a].rowsUsed \in Nat
        /\ reservation[a].projection["databaseRows"] \in Nat
    BY <1>1, <1>3, <1>6, <2>1 DEF TypeOK, Reservation
  <2>3. OfAttempt(fixtureClaims', a) = OfAttempt(fixtureClaims, a) \cup {x}
    BY <1>6 DEF OfAttempt
  <2>4. IsFiniteSet(OfAttempt(fixtureClaims, a))
    BY DEF Paid
  <2>5. /\ IsFiniteSet(OfAttempt(fixtureClaims', a))
        /\ Cardinality(OfAttempt(fixtureClaims, a)) \in Nat
        /\ Cardinality(OfAttempt(fixtureClaims', a)) <= Cardinality(OfAttempt(fixtureClaims, a)) + 1
    <3> DEFINE S == OfAttempt(fixtureClaims, a)
    <3>1. IsFiniteSet(S) /\ Cardinality(S) \in Nat
      BY <2>4, FS_CardinalityType
    <3> HIDE DEF S
    <3>2. /\ IsFiniteSet(S \cup {x})
          /\ Cardinality(S \cup {x}) = IF x \in S THEN Cardinality(S) ELSE Cardinality(S) + 1
      BY <3>1, FS_AddElement
    <3>3. Cardinality(S \cup {x}) <= Cardinality(S) + 1
      BY <3>1, <3>2
    <3> QED
      BY <2>3, <3>1, <3>2, <3>3 DEF S
  <2>6. \A b \in Attempts : b # a =>
            reservation'[b] = reservation[b] /\ OfAttempt(fixtureClaims', b) = OfAttempt(fixtureClaims, b)
    BY <1>6 DEF OfAttempt
  <2>7. Cardinality(OfAttempt(fixtureClaims, a)) <= reservation[a].rowsUsed
    BY <1>6 DEF Paid, ClaimedRowsAreReserved
  <2>8. /\ Cardinality(OfAttempt(fixtureClaims', a)) <= reservation'[a].rowsUsed
        /\ reservation'[a].rowsUsed <= reservation'[a].projection["databaseRows"]
    <3>1. reservation'[a].rowsUsed <= reservation'[a].projection["databaseRows"]
      BY <1>6, <2>2
    <3>2. IsFiniteSet(OfAttempt(fixtureClaims', a))
      BY <2>5
    <3>3. Cardinality(OfAttempt(fixtureClaims', a)) \in Nat
      BY <3>2, FS_CardinalityType
    <3> QED
      BY <1>6, <2>2, <2>5, <2>7, <3>1, <3>3
  <2>9. ASSUME NEW b \in Attempts
        PROVE  /\ IsFiniteSet(OfAttempt(fixtureClaims', b))
               /\ reservation'[b] # None =>
                    /\ Cardinality(OfAttempt(fixtureClaims', b)) <= reservation'[b].rowsUsed
                    /\ reservation'[b].rowsUsed <= reservation'[b].projection["databaseRows"]
    <3>1. CASE b = a
      BY <2>5, <2>8, <3>1
    <3>2. CASE b # a
      BY <2>6, <3>2 DEF Paid, ClaimedRowsAreReserved
    <3> QED
      BY <3>1, <3>2
  <2>10. \A y \in fixtureClaims' : row'[y.attempt] # None
    BY <1>1, <1>2, <1>6 DEF Paid
  <2> QED
    BY <1>1, <2>9, <2>10 DEF Paid, ClaimedRowsAreReserved, OfAttempt
<1> QED
  BY <1>1, <1>4, <1>5, <1>6, ClaimSteps

\* However many fixtures an attempt claims, each is paid for by a row it
\* reserved, and it never uses more rows than it projected.
THEOREM ClaimsPaid == Spec => []ClaimedRowsAreReserved
<1>1. Init => Paid
  <2> SUFFICES ASSUME Init PROVE Paid
    OBVIOUS
  <2>1. \A a \in Attempts : OfAttempt(fixtureClaims, a) = {}
    BY DEF Init, OfAttempt
  <2>2. \A a \in Attempts : reservation[a] = None
    BY DEF Init
  <2> QED
    BY TypeInit, FS_EmptySet, <2>1, <2>2 DEF Init, Paid, ClaimedRowsAreReserved
<1>2. Paid /\ [Next]_vars => Paid'
  BY PaidNext
<1>3. Paid => ClaimedRowsAreReserved
  BY DEF Paid
<1> QED
  BY <1>1, <1>2, <1>3, PTL DEF Spec

(***************************************************************************)
(* Sums                                                                    *)
(*                                                                         *)
(* MapThenSumSet adds up a set one chosen member after the other, with a   *)
(* function on its subsets that is defined by recursion.  The lemmas below *)
(* show that such a function exists, that it does not depend on the set it *)
(* was defined for, and that any member may be taken out first.            *)
(***************************************************************************)

Pick(s) == CHOOSE x \in s : TRUE

\* g adds up u over every subset of S.
Sums(g, u, S) ==
    g = [s \in SUBSET S |-> IF s = {} THEN 0 ELSE u[Pick(s)] + g[s \ {Pick(s)}]]

\* Among subsets of a finite set there is a smallest one.
LEMMA SmallestSubset ==
    ASSUME NEW S, IsFiniteSet(S), NEW B, B \subseteq SUBSET S, B # {}
    PROVE  \E m \in B : \A t \in B : t \subseteq m => t = m
<1>1. IsWellFoundedOn(StrictSubsetOrdering(S), SUBSET S)
  BY FS_StrictSubsetOrderingWellFounded, FS_FiniteSubsetsOfFinite
<1>2. PICK m \in B : \A t \in B : ~(<<t, m>> \in StrictSubsetOrdering(S))
  BY <1>1, WFMin, Zenon
<1>3. ASSUME NEW t \in B, t \subseteq m PROVE t = m
  <2>1. t # m => <<t, m>> \in StrictSubsetOrdering(S)
    BY <1>3 DEF StrictSubsetOrdering
  <2> QED
    BY <1>2, <2>1, Zenon
<1> QED
  BY <1>3

\* What a chosen member is, and what is left without it.
LEMMA Picked ==
    ASSUME NEW s, s # {}
    PROVE  Pick(s) \in s /\ s \ {Pick(s)} \subseteq s /\ s \ {Pick(s)} # s
BY DEF Pick

\* One step of a sum.
LEMMA SumStep ==
    ASSUME NEW g, NEW u, NEW S, Sums(g, u, S), NEW s \in SUBSET S
    PROVE  /\ s = {} => g[s] = 0
           /\ s # {} => g[s] = u[Pick(s)] + g[s \ {Pick(s)}]
<1> DEFINE G == [t \in SUBSET S |-> IF t = {} THEN 0 ELSE u[Pick(t)] + g[t \ {Pick(t)}]]
<1>1. g = G
  BY DEF Sums
<1>2. G[s] = IF s = {} THEN 0 ELSE u[Pick(s)] + g[s \ {Pick(s)}]
  OBVIOUS
<1> HIDE DEF G
<1> QED
  BY <1>1, <1>2

\* Sums of numbers are numbers.
LEMMA SumType ==
    ASSUME NEW S, IsFiniteSet(S), NEW u, \A x \in S : u[x] \in Nat, NEW g, Sums(g, u, S)
    PROVE  \A s \in SUBSET S : g[s] \in Nat
<1> DEFINE B == {s \in SUBSET S : g[s] \notin Nat}
<1> SUFFICES ASSUME B # {} PROVE FALSE
  OBVIOUS
<1>1. PICK m \in B : \A t \in B : t \subseteq m => t = m
  <2>1. B \subseteq SUBSET S
    OBVIOUS
  <2> HIDE DEF B
  <2> QED
    BY <2>1, SmallestSubset
<1>2. m \in SUBSET S /\ g[m] \notin Nat
  OBVIOUS
<1>3. m # {} /\ g[m] = u[Pick(m)] + g[m \ {Pick(m)}]
  BY <1>2, SumStep
<1>4. Pick(m) \in m /\ m \ {Pick(m)} \subseteq m /\ m \ {Pick(m)} # m
  BY <1>3, Picked
<1>5. m \ {Pick(m)} \notin B
  BY <1>1, <1>4
<1>6. g[m \ {Pick(m)}] \in Nat /\ u[Pick(m)] \in Nat
  BY <1>2, <1>4, <1>5
<1> QED
  BY <1>2, <1>3, <1>6

\* Larger terms add up to a larger sum, whatever sets the sums were defined for.
LEMMA SumMonotone ==
    ASSUME NEW S, IsFiniteSet(S), NEW u, NEW g, Sums(g, u, S), NEW T, IsFiniteSet(T), NEW v, NEW h,
           Sums(h, v, T), \A x \in S : u[x] \in Nat, \A x \in T : v[x] \in Nat,
           \A x \in S \cap T : u[x] <= v[x]
    PROVE  \A s \in SUBSET (S \cap T) : g[s] <= h[s]
<1> DEFINE B == {s \in SUBSET (S \cap T) : ~(g[s] <= h[s])}
<1> SUFFICES ASSUME B # {} PROVE FALSE
  OBVIOUS
<1>1. PICK m \in B : \A t \in B : t \subseteq m => t = m
  <2>1. B \subseteq SUBSET S
    OBVIOUS
  <2> HIDE DEF B
  <2> QED
    BY <2>1, SmallestSubset
<1>2. m \in SUBSET S /\ m \in SUBSET T /\ ~(g[m] <= h[m])
  OBVIOUS
<1>3. /\ m = {} => g[m] = 0 /\ h[m] = 0
      /\ m # {} => g[m] = u[Pick(m)] + g[m \ {Pick(m)}] /\ h[m] = v[Pick(m)] + h[m \ {Pick(m)}]
  <2> HIDE DEF B
  <2>1. /\ m = {} => g[m] = 0
        /\ m # {} => g[m] = u[Pick(m)] + g[m \ {Pick(m)}]
    BY <1>2, SumStep
  <2>2. /\ m = {} => h[m] = 0
        /\ m # {} => h[m] = v[Pick(m)] + h[m \ {Pick(m)}]
    BY <1>2, SumStep
  <2> QED
    BY <2>1, <2>2
<1>4. m # {}
  BY <1>2, <1>3
<1>5. Pick(m) \in m /\ m \ {Pick(m)} \subseteq m /\ m \ {Pick(m)} # m
  BY <1>4, Picked
<1> DEFINE rest == m \ {Pick(m)}
<1>6. rest \in SUBSET S /\ rest \in SUBSET T /\ rest \notin B
  BY <1>1, <1>2, <1>5
<1>7. g[rest] <= h[rest] /\ g[rest] \in Nat /\ h[rest] \in Nat
  BY <1>6, SumType
<1>8. u[Pick(m)] <= v[Pick(m)] /\ u[Pick(m)] \in Nat /\ v[Pick(m)] \in Nat
  BY <1>2, <1>5
<1> HIDE DEF rest, B
<1>9. g[m] = u[Pick(m)] + g[rest] /\ h[m] = v[Pick(m)] + h[rest]
  BY <1>3, <1>4 DEF rest
<1> QED
  BY <1>2, <1>7, <1>8, <1>9

\* What is summed depends on the terms only.
LEMMA SumsAgree ==
    ASSUME NEW S, IsFiniteSet(S), NEW u, NEW g, Sums(g, u, S), NEW T, IsFiniteSet(T), NEW v, NEW h,
           Sums(h, v, T), \A x \in S : u[x] \in Nat, \A x \in T : v[x] \in Nat,
           \A x \in S \cap T : u[x] = v[x]
    PROVE  \A s \in SUBSET (S \cap T) : g[s] = h[s]
<1>1. /\ \A x \in S \cap T : u[x] <= v[x]
      /\ \A x \in T \cap S : v[x] <= u[x]
  OBVIOUS
<1>2. \A s \in SUBSET (S \cap T) : g[s] <= h[s]
  BY <1>1, SumMonotone
<1>3. \A s \in SUBSET (T \cap S) : h[s] <= g[s]
  BY <1>1, SumMonotone
<1>4. \A s \in SUBSET (S \cap T) : g[s] \in Nat /\ h[s] \in Nat
  BY SumType
<1> QED
  BY <1>2, <1>3, <1>4

\* Any member may be taken out of a sum, not only the chosen one.
LEMMA SumSplit ==
    ASSUME NEW S, IsFiniteSet(S), NEW u, \A x \in S : u[x] \in Nat, NEW g, Sums(g, u, S)
    PROVE  \A s \in SUBSET S : \A x \in s : g[s] = u[x] + g[s \ {x}]
<1> DEFINE B == {s \in SUBSET S : \E x \in s : g[s] # u[x] + g[s \ {x}]}
<1> SUFFICES ASSUME B # {} PROVE FALSE
  OBVIOUS
<1>1. PICK m \in B : \A t \in B : t \subseteq m => t = m
  <2>1. B \subseteq SUBSET S
    OBVIOUS
  <2> HIDE DEF B
  <2> QED
    BY <2>1, SmallestSubset
<1>2. PICK x \in m : m \in SUBSET S /\ g[m] # u[x] + g[m \ {x}]
  OBVIOUS
<1> DEFINE y == Pick(m)
<1>3. y \in m /\ g[m] = u[y] + g[m \ {y}]
  <2> HIDE DEF B
  <2>1. m # {}
    BY <1>2
  <2>2. g[m] = u[Pick(m)] + g[m \ {Pick(m)}]
    BY <1>2, <2>1, SumStep
  <2> QED
    BY <2>1, <2>2, Picked
<1> HIDE DEF y
<1>4. x # y
  BY <1>2, <1>3
<1> DEFINE rest == (m \ {x}) \ {y}
<1>5. rest = (m \ {y}) \ {x}
  OBVIOUS
<1>6. /\ m \ {x} \in SUBSET S /\ m \ {x} \notin B /\ y \in m \ {x}
      /\ m \ {y} \in SUBSET S /\ m \ {y} \notin B /\ x \in m \ {y}
      /\ rest \in SUBSET S
  BY <1>1, <1>2, <1>3, <1>4
<1>7. g[m \ {x}] = u[y] + g[rest] /\ g[m \ {y}] = u[x] + g[rest]
  BY <1>5, <1>6
<1>8. u[x] \in Nat /\ u[y] \in Nat /\ g[rest] \in Nat
  BY <1>2, <1>3, <1>6, SumType
<1> HIDE DEF rest, B
<1> QED
  BY <1>2, <1>3, <1>7, <1>8

\* Every finite set can be summed up: the sums of the smaller subsets agree with
\* each other, so they make up the sum of the next.
LEMMA SumExists ==
    ASSUME NEW S, IsFiniteSet(S), NEW u, \A x \in S : u[x] \in Nat
    PROVE  \E g : Sums(g, u, S)
<1> DEFINE B == {s \in SUBSET S : ~\E g : Sums(g, u, s)}
<1> SUFFICES ASSUME B # {} PROVE FALSE
  OBVIOUS
<1>1. PICK m \in B : \A t \in B : t \subseteq m => t = m
  <2>1. B \subseteq SUBSET S
    OBVIOUS
  <2> HIDE DEF B
  <2> QED
    BY <2>1, SmallestSubset
<1>2. m \in SUBSET S /\ ~\E g : Sums(g, u, m)
  OBVIOUS
<1> DEFINE Gof(t) == CHOOSE g : Sums(g, u, t)
<1>3. ASSUME NEW t \in SUBSET m, t # m
      PROVE  Sums(Gof(t), u, t) /\ IsFiniteSet(t) /\ (\A x \in t : u[x] \in Nat)
  <2>1. t \in SUBSET S /\ t \notin B
    BY <1>1, <1>2, <1>3
  <2>2. \E g : Sums(g, u, t)
    BY <2>1
  <2>3. Sums(Gof(t), u, t)
    BY <2>2
  <2> QED
    BY <2>1, <2>3, FS_Subset
<1> HIDE DEF Gof, B
<1> DEFINE val(t) == Gof(t)[t]
           G == [t \in SUBSET m |-> IF t = {} THEN 0 ELSE u[Pick(t)] + val(t \ {Pick(t)})]
<1>4. ASSUME NEW r \in SUBSET m, r # m PROVE G[r] = val(r)
  <2>1. /\ r = {} => val(r) = 0
        /\ r # {} => val(r) = u[Pick(r)] + Gof(r)[r \ {Pick(r)}]
    BY <1>3, <1>4, SumStep
  <2>2. CASE r = {}
    BY <2>1, <2>2
  <2>3. CASE r # {}
    <3> DEFINE q == r \ {Pick(r)}
    <3>1. q \in SUBSET m /\ q # m /\ q \in SUBSET (r \cap q)
      BY <1>4, <2>3, Picked
    <3> HIDE DEF q
    <3>2. Gof(r)[q] = Gof(q)[q]
      BY <1>3, <1>4, <3>1, SumsAgree
    <3>3. val(r) = u[Pick(r)] + val(q)
      BY <2>1, <2>3, <3>2 DEF q
    <3>4. G[r] = u[Pick(r)] + val(q)
      BY <2>3 DEF q
    <3> QED
      BY <3>3, <3>4
  <2> QED
    BY <2>2, <2>3
<1> DEFINE GG == [t \in SUBSET m |-> IF t = {} THEN 0 ELSE u[Pick(t)] + G[t \ {Pick(t)}]]
<1>5. ASSUME NEW t \in SUBSET m, t # {} PROVE G[t \ {Pick(t)}] = val(t \ {Pick(t)})
  <2>1. t \ {Pick(t)} \in SUBSET m /\ t \ {Pick(t)} # m
    BY <1>5, Picked
  <2> HIDE DEF G, val
  <2> QED
    BY <1>4, <2>1
<1>6. G = GG
  <2> HIDE DEF val
  <2>1. ASSUME NEW t \in SUBSET m PROVE G[t] = GG[t]
    <3>1. GG[t] = IF t = {} THEN 0 ELSE u[Pick(t)] + G[t \ {Pick(t)}]
      OBVIOUS
    <3>2. G[t] = IF t = {} THEN 0 ELSE u[Pick(t)] + val(t \ {Pick(t)})
      OBVIOUS
    <3> HIDE DEF G, GG
    <3> QED
      BY <1>5, <3>1, <3>2
  <2> QED
    BY <2>1
<1>7. Sums(G, u, m)
  <2> HIDE DEF val
  <2> QED
    BY <1>6 DEF Sums
<1> QED
  BY <1>2, <1>7

\* The terms of Used, as a function.
Terms(env, q) == [a \in InScope(env) |-> Usage(a, q)]

\* What the store adds up is a sum in this sense.
LEMMA UsedIsSum ==
    ASSUME NEW env, NEW q, IsFiniteSet(InScope(env)), \A a \in InScope(env) : Usage(a, q) \in Nat
    PROVE  \E g : Sums(g, Terms(env, q), InScope(env)) /\ Used(env, q) = g[InScope(env)]
<1> DEFINE S == InScope(env)
           u == Terms(env, q)
           Def(g) == g = [s \in SUBSET S |->
                IF s = {} THEN 0 ELSE Usage(CHOOSE x \in s : TRUE, q) + g[s \ {CHOOSE x \in s : TRUE}]]
           iter == CHOOSE g : Def(g)
<1>1. Used(env, q) = iter[S]
  BY DEF Used, MapThenSumSet, MapThenFoldSet
<1>2. ASSUME NEW g PROVE Sums(g, u, S) <=> Def(g)
  <2> DEFINE F1 == [s \in SUBSET S |-> IF s = {} THEN 0 ELSE u[Pick(s)] + g[s \ {Pick(s)}]]
             F2 == [s \in SUBSET S |-> IF s = {} THEN 0 ELSE Usage(Pick(s), q) + g[s \ {Pick(s)}]]
  <2>1. ASSUME NEW s \in SUBSET S, s # {} PROVE u[Pick(s)] = Usage(Pick(s), q)
    BY <2>1, Picked DEF Terms
  <2>2. F1 = F2
    BY <2>1
  <2>3. Sums(g, u, S) <=> g = F1
    BY DEF Sums
  <2>4. Def(g) <=> g = F2
    BY DEF Pick
  <2> QED
    BY <2>2, <2>3, <2>4
<1>3. PICK g : Sums(g, u, S)
  <2>1. \A x \in S : u[x] \in Nat
    BY DEF Terms
  <2> HIDE DEF S, u
  <2> QED
    BY <2>1, SumExists DEF S
<1>4. Sums(iter, u, S)
  <2> HIDE DEF S, u, Def
  <2>1. Def(iter)
    BY <1>2, <1>3
  <2> QED
    BY <1>2, <2>1
<1> QED
  BY <1>1, <1>4

(***************************************************************************)
(* Capacity                                                                *)
(***************************************************************************)

\* What HasCapacity relies on: the scopes are finite, every attempt in a scope was
\* admitted under the same policy, and the books are kept for admitted attempts.
OnePolicyPerScope ==
    \A env \in Environments : \A a, b \in InScope(env) : reservation[a].quotas = reservation[b].quotas

Solvent ==
    /\ TypeOK
    /\ \A a \in Attempts : row[a] = None => reservation[a] = None /\ receipt[a] = None
    /\ \A env \in Environments : IsFiniteSet(InScope(env))
    /\ OnePolicyPerScope
    /\ CapacityWithinQuota

\* An attempt keeps its environment, whatever happens to it.
LEMMA EnvironmentKept ==
    ASSUME TypeOK, [Next]_vars
    PROVE  \A x \in Attempts : row[x] # None => row'[x].environment = row[x].environment
<1> SUFFICES ASSUME NEW x \in Attempts, row[x] # None
             PROVE  row'[x].environment = row[x].environment
  OBVIOUS
<1>1. row[x] \in Row
  BY DEF TypeOK
<1>2. CASE AdmitStep
  <2> PICK a \in Attempts, key \in Keys, env \in Environments, run \in Runs, ttl \in TTLs,
           quotas \in Policies, projection \in Usages, now \in EarlierReadings :
          Prepare(a, key, env, run, ttl, quotas, projection, now)
    BY <1>2 DEF AdmitStep
  <2>1. row'[x] = row[x] \/ row'[x] = [row[x] EXCEPT !.cleanupStatus = "complete"]
    BY DEF Prepare
  <2> QED
    BY <1>1, <2>1 DEF Row
<1>3. CASE ReassignStep
  <2> PICK a \in Attempts, run \in Runs, ttl \in TTLs, recoveryOnly \in BOOLEAN, event \in Grants :
        Reassign(a, run, ttl, recoveryOnly, event)
    BY <1>3 DEF ReassignStep
  <2>1. row' = [row EXCEPT ![a] = [row[a] EXCEPT !.state = "rechecking"]]
    BY DEF Reassign
  <2> QED
    BY <1>1, <2>1 DEF TypeOK, Row
<1>4. CASE TransitionStep
  <2> PICK a \in Attempts, f \in Fences, to \in States : Transition(a, f, to)
    BY <1>4 DEF TransitionStep
  <2>1. row' = [row EXCEPT ![a] = [row[a] EXCEPT !.state = to]]
    BY DEF Transition
  <2> QED
    BY <1>1, <2>1 DEF TypeOK, Row
<1>5. CASE CleanupStep
  <2> PICK a \in Attempts, f \in Fences : Cleanup(a, f)
    BY <1>5 DEF CleanupStep
  <2>1. row' = [row EXCEPT ![a] = [row[a] EXCEPT !.cleanupStatus = "complete"]]
    BY DEF Cleanup
  <2> QED
    BY <1>1, <2>1 DEF TypeOK, Row
<1>6. CASE RenewStep \/ QuietStep
  BY <1>6 DEF RenewStep, Renew, QuietStep
<1> QED
  BY <1>2, <1>3, <1>4, <1>5, <1>6, StepCases

\* What an attempt in a scope counts for.
LEMMA UsageType ==
    ASSUME TypeOK, NEW a \in Attempts, reservation[a] # None, NEW q \in QuotaKeys
    PROVE  /\ Usage(a, q) \in Nat
           /\ reservation[a].quotas[q] \in Nat
           /\ \A projection \in Usages : projection[q] \in Nat
<1>1. reservation[a] \in Reservation /\ receipt[a] \in Receipt \cup {None}
  BY DEF TypeOK
<1>2. \A u \in Usages : u[q] \in Nat
  BY UsageAssumption
<1>3. \A p \in Policies : p[q] \in Nat
  BY UsageAssumption
<1> QED
  BY <1>1, <1>2, <1>3 DEF Usage, Reservation, Receipt

\* Apart from admission no step adds an attempt to the books, and none makes one
\* count for more.
LEMMA LedgerSteps ==
    ASSUME TypeOK, [Next]_vars
    PROVE  \/ AdmitStep
           \/ \A a \in Attempts :
                /\ reservation'[a] = None <=> reservation[a] = None
                /\ receipt'[a] # None => receipt[a] # None \/ reservation[a] # None
                /\ reservation[a] # None =>
                     /\ reservation'[a].quotas = reservation[a].quotas
                     /\ \A q \in QuotaKeys : Usage(a, q)' <= Usage(a, q)
<1> DEFINE Quieter ==
      \A a \in Attempts :
          /\ reservation'[a] = None <=> reservation[a] = None
          /\ receipt'[a] # None => receipt[a] # None \/ reservation[a] # None
          /\ reservation[a] # None =>
               /\ reservation'[a].quotas = reservation[a].quotas
               /\ \A q \in QuotaKeys : Usage(a, q)' <= Usage(a, q)
<1>1. ASSUME UNCHANGED <<reservation, receipt>> PROVE Quieter
  <2>1. \A a \in Attempts, q \in QuotaKeys : Usage(a, q)' = Usage(a, q)
    BY <1>1 DEF Usage
  <2>2. \A a \in Attempts, q \in QuotaKeys : reservation[a] # None => Usage(a, q) \in Nat
    BY UsageType
  <2> QED
    BY <1>1, <2>1, <2>2
<1>2. ASSUME NEW b \in Attempts, NEW rows \in Nat, receipt' = receipt,
             reservation[b] # None,
             reservation' = [reservation EXCEPT ![b].rowsUsed = @ + rows]
      PROVE  Quieter
  <2>1. reservation[b] \in Reservation
    BY <1>2 DEF TypeOK
  <2>2. reservation'[b] = [reservation[b] EXCEPT !.rowsUsed = reservation[b].rowsUsed + rows]
    BY <1>2 DEF TypeOK
  <2>3. /\ reservation'[b].quotas = reservation[b].quotas
        /\ reservation'[b].projection = reservation[b].projection
        /\ reservation'[b] # None
    BY <2>1, <2>2, NoneAssumption DEF Reservation
  <2>4. \A a \in Attempts : a # b => reservation'[a] = reservation[a]
    BY <1>2 DEF TypeOK
  <2>5. \A a \in Attempts, q \in QuotaKeys : Usage(a, q)' = Usage(a, q)
    BY <1>2, <2>3, <2>4 DEF Usage
  <2>6. \A a \in Attempts, q \in QuotaKeys : reservation[a] # None => Usage(a, q) \in Nat
    BY UsageType
  <2> QED
    BY <1>2, <2>3, <2>4, <2>5, <2>6
<1>3. ASSUME NEW b \in Attempts, NEW retained \in Usages, ReconcileReservation(b, retained)
      PROVE  Quieter
  <2>1. /\ reservation' = reservation
        /\ \A a \in Attempts : a # b => receipt'[a] = receipt[a]
        /\ receipt'[b] = [fence |-> LeaseOf(b).fence, retained |-> retained]
        /\ reservation[b] # None /\ receipt[b] = None
    BY <1>3 DEF ReconcileReservation, TypeOK
  <2>2. receipt'[b] # None
    <3>1. LeaseOf(b).fence \in Nat
      BY <1>3 DEF ReconcileReservation, OwnsLease, LeaseOf, TypeOK, Row, Lease
    <3> QED
      BY <2>1, <3>1, NoneAssumption DEF Receipt
  <2>3. \A q \in QuotaKeys : Usage(b, q)' <= Usage(b, q)
    BY <1>3, <2>1, <2>2 DEF Usage, ReconcileReservation
  <2>4. ASSUME NEW a \in Attempts, a # b, NEW q \in QuotaKeys, reservation[a] # None
        PROVE  Usage(a, q)' <= Usage(a, q)
    <3>1. Usage(a, q)' = Usage(a, q)
      BY <2>1, <2>4 DEF Usage
    <3>2. Usage(a, q) \in Nat
      BY <2>4, UsageType
    <3> QED
      BY <3>1, <3>2
  <2> QED
    BY <2>1, <2>3, <2>4
<1> HIDE DEF Quieter
<1>4. CASE Admission
  <2>1. \A a \in Attempts, run \in Runs, quotas \in Policies, projection \in Usages,
           now \in EarlierReadings :
          PrepareReplay(a, run, quotas, projection, now) => UNCHANGED <<reservation, receipt>>
    BY DEF PrepareReplay, ledger
  <2>2. AdmitStep \/ UNCHANGED <<reservation, receipt>>
    BY <1>4, <2>1 DEF Admission, AdmitStep
  <2> QED
    BY <1>1, <2>2 DEF Quieter
<1>5. CASE Settlement
  BY <1>3, <1>5 DEF Settlement, Quieter
<1>6. CASE Provider \/ Surroundings \/ UNCHANGED vars
  <2>1. Provider => UNCHANGED <<reservation, receipt>>
    BY ProviderKeeps
  <2>2. Surroundings \/ UNCHANGED vars => UNCHANGED <<reservation, receipt>>
    BY DEF Surroundings, Tick, RunEnds, vars, ledger
  <2> QED
    BY <1>1, <1>6, <2>1, <2>2 DEF Quieter
<1>7. CASE Fixture
  <2>1. ASSUME NEW a \in Attempts, NEW f \in Fences, FixtureMutation(a, f)
        PROVE  UNCHANGED <<reservation, receipt>>
    BY <2>1 DEF FixtureMutation, ledger
  <2>2. ASSUME NEW a \in Attempts, NEW f \in Fences, NEW c \in Cases, NEW ns \in Namespaces,
               NEW kind \in FixtureKinds, NEW fixture \in FixtureIds, NEW rows \in RowRequests(a),
               NEW outcome \in WriterOutcomes,
               FixtureMutationWithReservation(a, f, rows, c, ns, kind, fixture, outcome)
        PROVE  Quieter
    <3>1. reservation[a] # None /\ rows \in Nat
      BY <2>2 DEF RowRequests, FixtureMutationWithReservation
    <3> QED
      BY <1>2, <2>2, <3>1 DEF FixtureMutationWithReservation
  <2> QED
    BY <1>1, <1>7, <2>1, <2>2 DEF Fixture, Quieter
<1>8. CASE Life
  <2>1. UNCHANGED <<reservation, receipt>>
    BY <1>8, LifeKeeps DEF ledger
  <2> QED
    BY <1>1, <2>1 DEF Quieter
<1> QED
  BY <1>4, <1>5, <1>6, <1>7, <1>8 DEF Next, Quieter
\* The two facts about Used and Usage, as state predicates: they hold before and
\* after every step.
UsedSums ==
    \A env \in Environments, q \in QuotaKeys :
        IsFiniteSet(InScope(env)) /\ (\A a \in InScope(env) : Usage(a, q) \in Nat) =>
            \E g : Sums(g, Terms(env, q), InScope(env)) /\ Used(env, q) = g[InScope(env)]

UsageTyped ==
    TypeOK => \A a \in Attempts, q \in QuotaKeys : reservation[a] # None =>
        Usage(a, q) \in Nat /\ reservation[a].quotas[q] \in Nat

LEMMA AlwaysSums == UsedSums /\ UsageTyped
<1>1. UsedSums
  BY UsedIsSum DEF UsedSums
<1>2. UsageTyped
  BY UsageType DEF UsageTyped
<1> QED
  BY <1>1, <1>2

LEMMA NextSums == UsedSums' /\ UsageTyped'
BY AlwaysSums, PTL

\* A scope that gains no attempt, of attempts that count for no more, uses no more.
LEMMA UsedNoMore ==
    ASSUME NEW env \in Environments, NEW q \in QuotaKeys, TypeOK, TypeOK',
           IsFiniteSet(InScope(env)), InScope(env)' = InScope(env),
           \A a \in InScope(env) : Usage(a, q)' <= Usage(a, q)
    PROVE  Used(env, q)' \in Nat /\ Used(env, q) \in Nat /\ Used(env, q)' <= Used(env, q)
<1> PICK S : S = InScope(env)
  OBVIOUS
<1> PICK u, v : u = Terms(env, q) /\ v = Terms(env, q)'
  OBVIOUS
<1>1. \A a \in S : reservation[a] # None /\ reservation'[a] # None /\ a \in Attempts
  BY DEF InScope
<1>2. \A a \in S : Usage(a, q) \in Nat /\ Usage(a, q)' \in Nat
  BY <1>1, AlwaysSums, NextSums DEF UsageTyped
<1>3. \A a \in S : u[a] = Usage(a, q) /\ v[a] = Usage(a, q)'
  BY DEF Terms
<1>4. \A a \in S : u[a] \in Nat /\ v[a] \in Nat /\ v[a] <= u[a]
  BY <1>2, <1>3
<1>5. PICK g : Sums(g, u, S) /\ Used(env, q) = g[S]
  BY <1>2, AlwaysSums DEF UsedSums
<1>6. PICK h : Sums(h, v, S) /\ Used(env, q)' = h[S]
  BY <1>2, NextSums DEF UsedSums
<1>7. h[S] <= g[S]
  BY <1>4, <1>5, <1>6, SumMonotone
<1>8. g[S] \in Nat /\ h[S] \in Nat
  BY <1>4, <1>5, <1>6, SumType
<1> QED
  BY <1>5, <1>6, <1>7, <1>8

\* A scope that gains one attempt uses what that attempt counts for in addition.
LEMMA UsedOneMore ==
    ASSUME NEW env \in Environments, NEW q \in QuotaKeys, TypeOK, TypeOK',
           IsFiniteSet(InScope(env)), NEW a \in Attempts, a \notin InScope(env),
           InScope(env)' = InScope(env) \cup {a},
           \A b \in InScope(env) : Usage(b, q)' = Usage(b, q)
    PROVE  Used(env, q)' = Used(env, q) + Usage(a, q)'
<1> PICK S : S = InScope(env)
  OBVIOUS
<1> PICK T : T = InScope(env)'
  OBVIOUS
<1> PICK u, v : u = Terms(env, q) /\ v = Terms(env, q)'
  OBVIOUS
<1>1. /\ \A b \in S : reservation[b] # None /\ b \in Attempts
      /\ \A b \in T : reservation'[b] # None /\ b \in Attempts
  BY DEF InScope
<1>2. /\ \A b \in S : Usage(b, q) \in Nat
      /\ \A b \in T : Usage(b, q)' \in Nat
  BY <1>1, AlwaysSums, NextSums DEF UsageTyped
<1>3. /\ \A b \in S : u[b] = Usage(b, q)
      /\ \A b \in T : v[b] = Usage(b, q)'
  BY DEF Terms
<1>4. /\ \A b \in S : u[b] \in Nat
      /\ \A b \in T : v[b] \in Nat
      /\ \A b \in S \cap T : u[b] = v[b]
  BY <1>2, <1>3
<1>5. IsFiniteSet(S) /\ IsFiniteSet(T)
  BY FS_AddElement
<1>6. PICK g : Sums(g, u, S) /\ Used(env, q) = g[S]
  BY <1>2, AlwaysSums DEF UsedSums
<1>7. PICK h : Sums(h, v, T) /\ Used(env, q)' = h[T]
  BY <1>2, <1>5, NextSums DEF UsedSums
<1>8. a \in T /\ T \ {a} = S /\ S \in SUBSET (S \cap T)
  OBVIOUS
<1>9. h[T] = v[a] + h[T \ {a}]
  BY <1>4, <1>5, <1>7, <1>8, SumSplit
<1>10. g[S] = h[S]
  BY <1>4, <1>5, <1>6, <1>7, <1>8, SumsAgree
<1>11. g[S] \in Nat /\ v[a] \in Nat
  BY <1>4, <1>5, <1>6, <1>8, SumType
<1>12. v[a] + g[S] = g[S] + v[a]
  BY <1>11
<1>13. v[a] = Usage(a, q)'
  BY <1>3, <1>8
<1>14. Used(env, q)' = v[a] + g[S]
  BY <1>7, <1>8, <1>9, <1>10
<1> QED
  BY <1>6, <1>12, <1>13, <1>14

\* Settling, claiming and everything else but admission leave the scopes as they
\* are and free capacity, if anything.
LEMMA SolventQuiet ==
    ASSUME Solvent, [Next]_vars,
           \A a \in Attempts :
               /\ reservation'[a] = None <=> reservation[a] = None
               /\ receipt'[a] # None => receipt[a] # None \/ reservation[a] # None
               /\ reservation[a] # None =>
                    /\ reservation'[a].quotas = reservation[a].quotas
                    /\ \A q \in QuotaKeys : Usage(a, q)' <= Usage(a, q)
    PROVE  Solvent'
<1>1. TypeOK /\ TypeOK'
  BY TypeNext DEF Solvent
<1>2. \A x \in Attempts : row[x] # None =>
          row'[x] # None /\ row'[x].environment = row[x].environment
  BY <1>1, AdmittedStays, EnvironmentKept
<1>3. \A x \in Attempts : reservation[x] # None => row[x] # None
  BY DEF Solvent
<1>4. ASSUME NEW env \in Environments PROVE InScope(env)' = InScope(env)
  BY <1>2, <1>3 DEF InScope
<1>5. \A a \in Attempts : row'[a] = None => reservation'[a] = None /\ receipt'[a] = None
  BY <1>2 DEF Solvent
<1>6. OnePolicyPerScope'
  BY <1>4 DEF OnePolicyPerScope, Solvent, InScope
<1>7. ASSUME NEW env \in Environments, NEW a \in InScope(env)', NEW q \in QuotaKeys
      PROVE  Used(env, q)' <= reservation'[a].quotas[q]
  <2>1. a \in InScope(env) /\ a \in Attempts /\ reservation[a] # None
    BY <1>4, <1>7 DEF InScope
  <2>2. Used(env, q) <= reservation[a].quotas[q]
    BY <2>1 DEF Solvent, CapacityWithinQuota
  <2>3. \A b \in InScope(env) : Usage(b, q)' <= Usage(b, q)
    BY DEF InScope
  <2>4. Used(env, q)' \in Nat /\ Used(env, q) \in Nat /\ Used(env, q)' <= Used(env, q)
    BY <1>1, <1>4, <2>3, UsedNoMore DEF Solvent
  <2>5. reservation[a].quotas[q] \in Nat
    BY <1>1, <2>1, UsageType
  <2>6. reservation'[a].quotas = reservation[a].quotas
    BY <2>1
  <2> QED
    BY <2>2, <2>4, <2>5, <2>6
<1> QED
  BY <1>1, <1>4, <1>5, <1>6, <1>7 DEF Solvent, CapacityWithinQuota

\* Admission adds the projection, for which it has found room, to one scope.
LEMMA SolventPrepare == ASSUME Solvent, [Next]_vars, AdmitStep PROVE Solvent'
<1> PICK a \in Attempts, key \in Keys, env \in Environments, run \in Runs, ttl \in TTLs,
         quotas \in Policies, projection \in Usages, now \in EarlierReadings :
        Prepare(a, key, env, run, ttl, quotas, projection, now)
  BY DEF AdmitStep
<1>1. TypeOK /\ TypeOK'
  BY TypeNext DEF Solvent
<1>2. row[a] = None /\ reservation[a] = None /\ receipt[a] = None /\ receipt' = receipt
  BY DEF Prepare, Solvent
<1>3. \A x \in Attempts : row[x] # None =>
          row'[x] # None /\ row'[x].environment = row[x].environment
  BY <1>1, AdmittedStays, EnvironmentKept
<1>4. \A x \in Attempts : reservation[x] # None => row[x] # None
  BY DEF Solvent
<1>5. row'[a] = [key |-> key, environment |-> env, workflow |-> run, state |-> "collecting",
                 cleanupStatus |-> "pending"]
  BY DEF Prepare
<1>6. row'[a] # None /\ row'[a].environment = env
  <2>1. row'[a] \in Row
    BY <1>5 DEF Row, States
  <2> QED
    BY <1>5, <2>1, NoneAssumption
<1>7. reservation'[a] = [quotas |-> quotas, projection |-> projection, rowsUsed |-> 0]
  BY <1>1 DEF Prepare, TypeOK
<1>8. /\ reservation'[a] # None
      /\ reservation'[a].quotas = quotas /\ reservation'[a].projection = projection
  <2>1. reservation'[a] \in Reservation
    BY <1>7 DEF Reservation
  <2> QED
    BY <1>7, <2>1, NoneAssumption
<1>9. \A x \in Attempts : x # a => reservation'[x] = reservation[x]
  BY DEF Prepare
<1>10. InScope(env)' = InScope(env) \cup {a} /\ a \notin InScope(env)
  BY <1>2, <1>3, <1>4, <1>6, <1>8, <1>9 DEF InScope
<1>11. \A other \in Environments : other # env => InScope(other)' = InScope(other)
  BY <1>2, <1>3, <1>4, <1>6, <1>8, <1>9 DEF InScope
<1>12. \A other \in Environments : \A x \in InScope(other) :
          /\ x \in Attempts /\ x # a /\ reservation[x] # None /\ reservation'[x] = reservation[x]
          /\ \A q \in QuotaKeys : Usage(x, q)' = Usage(x, q)
  BY <1>2, <1>9 DEF InScope, Usage
<1>13. \A x \in InScope(env) : reservation[x].quotas = quotas
  BY DEF Prepare, HasCapacity
<1>14. \A other \in Environments : IsFiniteSet(InScope(other))
  BY DEF Solvent
<1>15. \A other \in Environments : IsFiniteSet(InScope(other)')
  BY <1>10, <1>11, <1>14, FS_AddElement
<1>16. \A x \in Attempts : row'[x] = None => reservation'[x] = None /\ receipt'[x] = None
  BY <1>2, <1>3, <1>6, <1>9 DEF Solvent
<1>17. \A x \in InScope(env)' : reservation'[x].quotas = quotas
  BY <1>8, <1>10, <1>12, <1>13
<1>18. OnePolicyPerScope'
  <2>1. ASSUME NEW other \in Environments, NEW x \in InScope(other)', NEW y \in InScope(other)'
        PROVE  reservation'[x].quotas = reservation'[y].quotas
    <3>1. CASE other = env
      BY <1>17, <2>1, <3>1
    <3>2. CASE other # env
      BY <1>11, <1>12, <2>1, <3>2 DEF Solvent, OnePolicyPerScope
    <3> QED
      BY <3>1, <3>2
  <2> QED
    BY <2>1 DEF OnePolicyPerScope
<1>19. ASSUME NEW other \in Environments, other # env, NEW x \in InScope(other)', NEW q \in QuotaKeys
       PROVE  Used(other, q)' <= reservation'[x].quotas[q]
  <2>1. x \in InScope(other) /\ x \in Attempts /\ reservation[x] # None
    BY <1>11, <1>19 DEF InScope
  <2>2. Used(other, q) <= reservation[x].quotas[q]
    BY <2>1 DEF Solvent, CapacityWithinQuota
  <2>3. \A b \in InScope(other) : Usage(b, q)' <= Usage(b, q)
    BY <1>1, <1>12, UsageType
  <2>4. Used(other, q)' \in Nat /\ Used(other, q) \in Nat /\ Used(other, q)' <= Used(other, q)
    BY <1>1, <1>11, <1>14, <1>19, <2>3, UsedNoMore
  <2>5. reservation[x].quotas[q] \in Nat
    BY <1>1, <2>1, UsageType
  <2> QED
    BY <1>12, <2>1, <2>2, <2>4, <2>5
<1>20. ASSUME NEW x \in InScope(env)', NEW q \in QuotaKeys
       PROVE  Used(env, q)' <= reservation'[x].quotas[q]
  <2>1. Usage(a, q)' = projection[q]
    BY <1>2, <1>8 DEF Usage
  <2>2. Used(env, q)' = Used(env, q) + projection[q]
    BY <1>1, <1>10, <1>12, <1>14, <2>1, UsedOneMore
  <2>3. Used(env, q) + projection[q] <= quotas[q]
    BY DEF Prepare, HasCapacity
  <2> QED
    BY <1>17, <2>2, <2>3
<1>21. CapacityWithinQuota'
  BY <1>19, <1>20 DEF CapacityWithinQuota
<1> QED
  BY <1>1, <1>15, <1>16, <1>18, <1>21 DEF Solvent

\* Whatever is admitted, claimed, settled or taken over, the attempts of a project
\* and account together never use more than the quotas they were admitted under.
THEOREM QuotaKept == Spec => []CapacityWithinQuota
<1>1. Init => Solvent
  <2> SUFFICES ASSUME Init PROVE Solvent
    OBVIOUS
  <2>1. \A a \in Attempts : row[a] = None /\ reservation[a] = None /\ receipt[a] = None
    BY DEF Init
  <2>2. \A env \in Environments : InScope(env) = {}
    BY <2>1 DEF InScope
  <2> QED
    BY TypeInit, FS_EmptySet, <2>1, <2>2 DEF Solvent, OnePolicyPerScope, CapacityWithinQuota
<1>2. Solvent /\ [Next]_vars => Solvent'
  <2> SUFFICES ASSUME Solvent, [Next]_vars PROVE Solvent'
    OBVIOUS
  <2>1. TypeOK
    BY DEF Solvent
  <2> QED
    BY <2>1, LedgerSteps, SolventQuiet, SolventPrepare
<1>3. Solvent => CapacityWithinQuota
  BY DEF Solvent
<1> QED
  BY <1>1, <1>2, <1>3, PTL DEF Spec

=============================================================================
