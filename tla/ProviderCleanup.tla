--------------------------- MODULE ProviderCleanup ---------------------------
(***************************************************************************)
(* The effects of one attempt and their removal.  contracts.mjs            *)
(* mutateProvider and runtime/stripe.mjs runStripeMutation record an       *)
(* intent, send the mutation to Stripe and reconcile it against what       *)
(* Stripe shows (reconcileStripeIntent); billing/financial.mjs             *)
(* replayCheckoutRequest does so while collecting, billing/cleanup.mjs     *)
(* cleanupOwnedResources for every resource that is still open, and then   *)
(* observes once more and gives the lease up.                              *)
(*                                                                         *)
(* A mutation whose call failed may be carried out at any later time.  The *)
(* application goes on creating resources and rows, the fence may be lost  *)
(* or handed to a recovery run between any two steps, and a cleanup that   *)
(* was refused may be called again.                                        *)
(***************************************************************************)
EXTENDS FixturePublication, FiniteSetsExt

CONSTANTS
    Resources,   \* owned Stripe resources, named by their sequence number
    MaxCalls     \* bound of the calls of cleanupOwnedResources

ASSUME CleanupAssumption == Resources \subseteq Nat \ {0} /\ IsFiniteSet(Resources) /\ MaxCalls \in Nat

VARIABLES
    store,   \* the attempt: terminal or not, released or not, intents by operation
    stripe,  \* status of the resources, mutations under way and carried out
    app,     \* owned rows of the application's database, and what came late
    ctl      \* the controller's call

cleanupVars == <<store, stripe, app, ctl>>
vars == <<fence, publicationVars, cleanupVars>>

Replay == 0                           \* operation checkout-replay:<quote>
Operations == {Replay} \cup Resources \* and cleanup:<resource>

\* DATABASE_RESOURCE_TARGETS: users are listed as owned but are in no snapshot.
InSnapshot == {"billing"}
RowKinds == {"auth_user"} \cup InSnapshot

Idle == [pc |-> "idle", op |-> Replay, initial |-> {}, open |-> {}, owned |-> {},
         calls |-> 0]

Init ==
    /\ PublicationInit
    /\ store = [terminal |-> FALSE, released |-> FALSE, intent |-> [o \in Operations |-> "none"]]
    /\ \E there \in SUBSET Resources :
         stripe = [exists |-> there, open |-> there, flying |-> {}, done |-> {}]
    /\ app = [rows |-> {}, late |-> {}, lateRows |-> {}]
    /\ ctl = Idle

-----------------------------------------------------------------------------
(* The calls of the controller.  Every step but the sending of a mutation  *)
(* changes only the controller and at most one other variable.             *)

At(s) == ctl.pc = s
To(s) == [ctl EXCEPT !.pc = s]
Refuse == [Idle EXCEPT !.calls = ctl.calls]

\* ctl moves to s if ok holds and the step's reads succeed, and is refused otherwise.
Go(ok, next) ==
    /\ ctl' \in {Refuse} \cup (IF ok THEN {next} ELSE {})
    /\ UNCHANGED <<fence, publicationVars, store, stripe, app>>

\* replayCheckoutRequest of the attempt's quote.
CallReplay ==
    /\ At("idle") /\ ~store.released /\ pub.pc = "idle"
    /\ ctl' = [To("assert") EXCEPT !.op = Replay]
    /\ UNCHANGED <<fence, publicationVars, store, stripe, app>>

\* mutateProvider: readers and fence.
AssertCurrent == At("assert") /\ Go(FenceCurrent, To("owner"))

\* runStripeMutation asks for both again and compares the owner.
AssertOwner == At("owner") /\ Go(FenceCurrent, To("begin"))

\* beginStripeIntent: a current fence that may write, and no intent of that
\* operation before, whatever became of it.
MayBegin(o) == fence = "held" /\ ~store.released /\ store.intent[o] = "none"

\* withStripeIntent persists the intent and only then invokes the adapter.
\* Mutant: the adapter is invoked while the intent is being persisted.
BeginUnawaited ==
    /\ At("begin") /\ MayBegin(ctl.op)
    /\ store' \in {store, [store EXCEPT !.intent[ctl.op] = "in_flight"]}
    /\ ctl' = To("send")
    /\ UNCHANGED <<fence, publicationVars, stripe, app>>
BeginIntent ==
    /\ At("begin")
    /\ \/ /\ MayBegin(ctl.op)
          /\ store' = [store EXCEPT !.intent[ctl.op] = "in_flight"]
          /\ ctl' = To("send")
          /\ UNCHANGED <<fence, publicationVars, stripe, app>>
       \/ Go(FALSE, ctl)

\* What Stripe does with a mutation: the resource is closed.
Carried(s, o) == [s EXCEPT !.done = @ \cup {o}, !.open = @ \ {o}, !.flying = @ \ {o}]

\* adapter.mutate: done and answered, or an error that leaves it undone, done, or
\* still under way; the deployment check before it may refuse too.
SendMutation ==
    /\ At("send")
    /\ \/ stripe' = Carried(stripe, ctl.op) /\ ctl' = To("reconcile")
       \/ /\ stripe' \in {stripe, Carried(stripe, ctl.op), [stripe EXCEPT !.flying = @ \cup {ctl.op}]}
          /\ ctl' = Refuse
    /\ UNCHANGED <<fence, publicationVars, store, app>>

\* What exactObservation lets through: operations that Stripe shows as done.
Observations == stripe.done

\* reconcileStripeIntent up to the observation, which must show the operation.
Reconciling(o) == store.intent[o] = "in_flight" /\ FenceCurrent
ObservationMatches(o) == o \in Observations
ObserveIntent ==
    At("reconcile") /\ Go(Reconciling(ctl.op) /\ ObservationMatches(ctl.op), To("record"))

\* The store records the receipt under the fence; then the next resource is due.
Recorded(o) == [store EXCEPT !.intent[o] = "reconciled"]
NextResource(c) ==
    IF c.op = Replay THEN Refuse
    ELSE LET left == c.open \ {c.op}
         IN  IF left = {} THEN [c EXCEPT !.pc = "fixtures", !.open = {}]
             ELSE [c EXCEPT !.pc = "assert", !.open = left, !.op = Max(left)]
RecordReceipt ==
    /\ At("record")
    /\ \/ /\ Reconciling(ctl.op)
          /\ store' = Recorded(ctl.op)
          /\ ctl' = NextResource(ctl)
          /\ UNCHANGED <<fence, publicationVars, stripe, app>>
       \/ Go(FALSE, ctl)

-----------------------------------------------------------------------------
(* cleanupOwnedResources.                                                  *)

CallCleanup ==
    /\ At("idle") /\ ~store.released /\ pub.pc = "idle" /\ ctl.calls < MaxCalls
    /\ ctl' = [Idle EXCEPT !.pc = "pending", !.calls = ctl.calls + 1]
    /\ app' = [app EXCEPT !.late = {}, !.lateRows = {}]
    /\ UNCHANGED <<fence, publicationVars, store, stripe>>

NonePending == \A o \in Operations : store.intent[o] # "in_flight"

\* The fence and the pending intents.
ListPending == At("pending") /\ Go(FenceCurrent /\ NonePending, To("inventory"))

\* listOwnedResources: everything there is, with its status.
ReadInventory ==
    At("inventory") /\ Go(TRUE, [To("rows") EXCEPT !.initial = stripe.exists, !.open = stripe.open])

\* listOwnedDatabaseResources: the rows the attempt owns.
OwnedRows == app.rows
ReadRows == At("rows") /\ Go(TRUE, [To("snapshot") EXCEPT !.owned = OwnedRows])

\* verifyDatabaseOwnershipProjection: the snapshot, read after the list, shows the
\* listed rows and nothing else beside the baseline.
Projected(owned) == app.rows \cap InSnapshot = owned \cap InSnapshot

\* The first snapshot.  Retained evidence refuses the cleanup, and otherwise the open
\* resources are closed, the latest first.
RetainsNothing == ctl.owned = {}
ReadSnapshot ==
    /\ At("snapshot")
    /\ Go(Projected(ctl.owned) /\ RetainsNothing,
          IF ctl.open = {} THEN To("fixtures") ELSE [To("assert") EXCEPT !.op = Max(ctl.open)])

\* The empty fixtures.cleanup transaction, which a recovery fence may not run.
CleanFixtures == At("fixtures") /\ Go(fence = "held", To("reinventory"))

\* The second observation must show what the first one did, everything closed.
\* Mutant: what appeared after the first one is not looked at.
ClosedAsPlanned == stripe.open \cap ctl.initial = {}
AsExpected == stripe.exists = ctl.initial /\ stripe.open = {}
ReadAgain == At("reinventory") /\ Go(FenceCurrent /\ AsExpected, To("rerows"))

\* sameDatabaseResourceInventory of both lists.
SameRows == OwnedRows = ctl.owned
RowsAgain == At("rerows") /\ Go(SameRows, To("resnapshot"))
SnapshotAgain == At("resnapshot") /\ Go(Projected(ctl.owned), To("release"))

\* store.cleanup: under the fence, and with no intent in flight.
MayRelease == FenceCurrent /\ store.terminal /\ NonePending
Settled == [store EXCEPT !.released = TRUE]
\* Mutant: the receipt is written and the lease stays.
ReleaseKeepsLease ==
    /\ At("release") /\ MayRelease
    /\ store' = Settled /\ ctl' = Refuse
    /\ UNCHANGED <<fence, publicationVars, stripe, app>>
Release ==
    /\ At("release")
    /\ \/ /\ MayRelease
          /\ store' = Settled
          /\ fence' = "lost"
          /\ ctl' = Refuse
          /\ UNCHANGED <<publicationVars, stripe, app>>
       \/ Go(FALSE, ctl)

-----------------------------------------------------------------------------
(* The rest of the world.                                                  *)

\* A mutation under way is carried out, long after its call gave up.
Lands ==
    /\ \E o \in stripe.flying : stripe' = Carried(stripe, o)
    /\ UNCHANGED <<fence, publicationVars, store, app, ctl>>

\* The application creates a resource, or a row of evidence.
ResourceAppears ==
    /\ \E r \in Resources \ stripe.exists :
         /\ stripe' = [stripe EXCEPT !.exists = @ \cup {r}, !.open = @ \cup {r}]
         /\ app' = IF ctl.pc \in {"rerows", "resnapshot", "release"} \/ store.released
                   THEN [app EXCEPT !.late = @ \cup {r}] ELSE app
    /\ UNCHANGED <<fence, publicationVars, store, ctl>>
LastLookOver(k) ==
    At("release") \/ store.released \/ (k \notin InSnapshot /\ At("resnapshot"))
RowAppears ==
    /\ \E k \in RowKinds \ app.rows :
         app' = [app EXCEPT !.rows = @ \cup {k},
                            !.lateRows = IF LastLookOver(k) THEN @ \cup {k} ELSE @]
    /\ UNCHANGED <<fence, publicationVars, store, stripe, ctl>>

\* The attempt reaches a terminal state.  Its lock is taken by an open transaction of
\* the fixtures here and in Handoff.
Terminate ==
    /\ ~store.terminal /\ fence = "held" /\ ~pub.open
    /\ store' = [store EXCEPT !.terminal = TRUE]
    /\ UNCHANGED <<fence, publicationVars, stripe, app, ctl>>

\* The lease expires; once the run that held it has ended its intents are handed to
\* a recovery run, which reconciles them.
LoseFence ==
    /\ fence = "held" \/ fence = "recovery"
    /\ fence' = "lost"
    /\ UNCHANGED <<publicationVars, cleanupVars>>
Handoff ==
    /\ fence = "lost" /\ store.terminal /\ ~store.released /\ ~NonePending /\ ~pub.open
    /\ fence' = "recovery"
    /\ ctl' = Refuse
    /\ UNCHANGED <<publicationVars, store, stripe, app>>
RecoverIntent ==
    /\ fence = "recovery"
    /\ \E o \in Operations :
         Reconciling(o) /\ ObservationMatches(o) /\ store' = Recorded(o)
    /\ UNCHANGED <<fence, publicationVars, stripe, app, ctl>>

ControllerStep ==
    \/ CallReplay \/ AssertCurrent \/ AssertOwner \/ BeginIntent \/ SendMutation \/ ObserveIntent \/ RecordReceipt
    \/ CallCleanup \/ ListPending \/ ReadInventory \/ ReadRows \/ ReadSnapshot \/ CleanFixtures
    \/ ReadAgain \/ RowsAgain \/ SnapshotAgain \/ Release

\* fixtureMutationWithReservation refuses an attempt that is not collecting.
CollectorStep ==
    /\ PublicationStep /\ At("idle")
    /\ pub'.open /\ ~pub.open => ~store.terminal
    /\ UNCHANGED cleanupVars

Next ==
    \/ CollectorStep
    \/ ControllerStep
    \/ Lands \/ ResourceAppears \/ RowAppears \/ Terminate \/ LoseFence \/ Handoff \/ RecoverIntent

Spec == Init /\ [][Next]_vars

-----------------------------------------------------------------------------

TypeOK ==
    /\ PublicationTypeOK
    /\ store \in [terminal : BOOLEAN, released : BOOLEAN,
                  intent : [Operations -> {"none", "in_flight", "reconciled"}]]
    /\ stripe.open \subseteq stripe.exists /\ stripe.exists \subseteq Resources
    /\ stripe.flying \cup stripe.done \subseteq Operations
    /\ app.late \subseteq stripe.exists /\ app.lateRows \subseteq app.rows /\ app.rows \subseteq RowKinds
    /\ ctl.op \in Operations /\ ctl.open \subseteq ctl.initial \cup Resources /\ ctl.calls \in 0..MaxCalls
    /\ ctl.owned \subseteq RowKinds
    /\ store.released => fence = "lost"

Log == INSTANCE IntentLog WITH
    logged   <- {o \in Operations : store.intent[o] # "none"},
    effected <- stripe.done,
    settled  <- {o \in Operations : store.intent[o] = "reconciled"},
    closed   <- store.released

\* Refinement: whatever is interrupted, lost or late, the store and Stripe together
\* behave like a write-ahead log.  Stripe carries out nothing the store does not know
\* of, no receipt is recorded for what Stripe did not do, the lease is given up only
\* with every intent reconciled, and nothing is carried out after that (lock.mjs
\* withStripeIntent, stripe.mjs reconcileStripeIntent, store.mjs cleanup).
ImplementsIntentLog == Log!Spec

\* When the lease is given up no mutation of the attempt can still be carried out,
\* nothing it owns at Stripe is open and the database holds no row of it, except
\* for what appeared after the cleanup had looked for the last time (cleanup.mjs
\* cleanupOwnedResources, store.mjs cleanup).
ReleasedLeavesNothing ==
    store.released =>
        /\ stripe.flying = {}
        /\ stripe.open \subseteq app.late
        /\ app.rows \subseteq app.lateRows

=============================================================================
