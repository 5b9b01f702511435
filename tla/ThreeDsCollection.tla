-------------------------- MODULE ThreeDsCollection --------------------------
(***************************************************************************)
(* One collection of a 3-D Secure case: operator/run-collect.mjs drives    *)
(* billing/three-ds.mjs, which observes Stripe and the application's       *)
(* database (observations.mjs), asks the operator for a witness            *)
(* (witnesses.mjs) or for a manual webhook resend (financial.mjs) through  *)
(* OperatorTransport, observes again and judges.                           *)
(*                                                                         *)
(* No observation is atomic: each one is several reads of systems that go  *)
(* on changing.  Stripe delivers the paid event when and as often as it    *)
(* likes, the application under test settles a delivery, marks its inbox   *)
(* row and answers Stripe in any order, not at all, or settles it twice,   *)
(* and the attempt's fence may be lost at any time.                        *)
(*                                                                         *)
(* Here "now" is the time by the database's clock, which dates deliveries, *)
(* their processing and every snapshot.  The transport only measures       *)
(* durations, so it does not matter there whose clock it is.  One reading  *)
(* of the controller's own clock, which may be behind the database's or    *)
(* ahead of it, is compared with the dates: that of the checkpoint.        *)
(***************************************************************************)
EXTENDS OperatorTransport, Integers

CONSTANTS
    Cases,          \* the cases a collection may be about
    MaxLag,         \* bound of the ticks by which the controller's clock is behind or ahead
    MaxDeliveries   \* bound of webhook deliveries, and of settlements

\* THREE_DS_CASE_CONTRACTS: is there a challenge, must it be paid, is delivery
\* delayed or replayed, is there a further read (expired checkout, access denial)?
Contract ==
    [success      |-> [challenge |-> TRUE,  paid |-> TRUE,  webhook |-> "plain",   further |-> FALSE],
     frictionless |-> [challenge |-> FALSE, paid |-> TRUE,  webhook |-> "plain",   further |-> FALSE],
     declined     |-> [challenge |-> TRUE,  paid |-> FALSE, webhook |-> "plain",   further |-> FALSE],
     foreign      |-> [challenge |-> FALSE, paid |-> FALSE, webhook |-> "plain",   further |-> TRUE],
     delayed      |-> [challenge |-> TRUE,  paid |-> TRUE,  webhook |-> "delayed", further |-> FALSE],
     replay       |-> [challenge |-> TRUE,  paid |-> TRUE,  webhook |-> "replay",  further |-> FALSE]]

ASSUME CollectionAssumption ==
    Cases \subseteq DOMAIN Contract /\ MaxLag \in Nat /\ MaxDeliveries \in Nat

VARIABLES
    world,  \* Stripe and the application's database
    fence,  \* whether the attempt's fence is current
    run     \* the collection

vars == <<transportVars, world, fence, run>>

-----------------------------------------------------------------------------
(* The order of the work.                                                  *)

Observation == <<"payment", "events", "delivery", "snapshot", "observed">>
ScriptOf(c) ==
    <<"start", "hooks">> \o Observation
    \o (IF Contract[c].challenge THEN <<"askWitness", "witness">> ELSE <<>>)
    \o (CASE Contract[c].webhook = "delayed" ->
               <<"tryDelayed", "before", "askCheckpoint", "checkpoint", "after", "judgeDelayed">>
               \o Observation \o <<"judgePost">>
          [] Contract[c].webhook = "replay" ->
               <<"tryReplay", "before", "askCheckpoint", "checkpoint", "after", "judgeReplay">>
          [] OTHER -> <<>>)
    \o (IF Contract[c].further THEN <<"further">> ELSE <<>>)
    \o <<"outcome", "return">>
Script == [c \in DOMAIN Contract |-> ScriptOf(c)]

Stage == Script[run.case][run.pc]

\* The reads of a stage, made in any order: Promise.all, or one read of several rows.
Reads(s) == CASE s = "payment"  -> {"payment"}
              [] s = "events"   -> {"event"}
              [] s = "delivery" -> {"inbox", "receipts"}
              [] s = "snapshot" -> {"snapshot"}
              [] s \in {"before", "after"} -> {"event", "state"}
              [] OTHER -> {}

-----------------------------------------------------------------------------
(* What is seen of the world.                                              *)

Statuses == {"none", "unprocessed", "processed"}
Seen == [paid : BOOLEAN, pending : 0..1, inbox : Statuses, processedAt : 0..MaxTime,
         receipts : 0..MaxDeliveries, lastReceipt : 0..MaxTime, effects : 0..MaxDeliveries, at : 0..MaxTime]
Unseen == [paid |-> FALSE, pending |-> 0, inbox |-> "none", processedAt |-> 0,
           receipts |-> 0, lastReceipt |-> 0, effects |-> 0, at |-> 0]

\* Receipts are append-only and dated by arrival, so their number and the date of
\* the last one say which are new.
Saw(r, e) ==
    CASE r = "payment"  -> [e EXCEPT !.paid = world.paid]
      [] r = "event"    -> [e EXCEPT !.pending = world.pending]
      [] r = "inbox"    -> [e EXCEPT !.inbox = world.inbox, !.processedAt = world.processedAt]
      [] r = "receipts" -> [e EXCEPT !.receipts = world.receipts, !.lastReceipt = world.lastReceipt]
      [] r = "snapshot" -> [e EXCEPT !.effects = world.effects, !.at = now]
      [] r = "state"    -> [e EXCEPT !.inbox = world.inbox, !.processedAt = world.processedAt,
                                     !.receipts = world.receipts, !.lastReceipt = world.lastReceipt,
                                     !.effects = world.effects, !.at = now]

\* collectEventEvidence: verified processing of the paid event.
Processed(e) ==
    /\ e.paid /\ e.pending = 0 /\ e.receipts > 0
    /\ e.inbox = "processed" /\ e.processedAt <= e.at

\* What the result of observeFinancialEvidence is asked for afterwards; only a delayed
\* delivery asks for more than the state that was paid for.
EvidenceOf(c, e) ==
    LET asked == IF Contract[c].webhook = "delayed" THEN e ELSE Unseen
    IN  [paid |-> e.paid, processed |-> Processed(e), effects |-> e.effects, pending |-> asked.pending,
         inbox |-> asked.inbox, receipts |-> asked.receipts, at |-> asked.at]
NoEvidence == EvidenceOf("success", Unseen)
Evidence == [paid : BOOLEAN, processed : BOOLEAN, pending : 0..1, inbox : Statuses,
             receipts : 0..MaxDeliveries, effects : 0..MaxDeliveries, at : 0..MaxTime]

\* One settlement of the invoice and the expected grants, and no others.
OneEffect(e) == e.effects = 1

PaidState(e)   == e.paid /\ e.processed /\ OneEffect(e)
NoNewAccess(e) == e.effects = 0
NoFunds(e)     == ~e.paid

\* databaseSnapshotsEqual, and the digests of two snapshots.
SameSnapshot(a, b) == a.effects = b.effects

\* A receipt that was not there before, dated after the checkpoint: the date is the
\* database's, the checkpoint the controller's.
\* Mutant: every receipt with a new id counts, however early it came.
FreshById(b, a, checkpointAt) == a.receipts > b.receipts
Fresh(b, a, checkpointAt) ==
    a.receipts > b.receipts /\ a.lastReceipt > checkpointAt /\ a.lastReceipt <= a.at

ReplayStateValid(e) == e.inbox = "processed" /\ e.processedAt <= e.at /\ e.receipts > 0

\* verifyDelayedWebhookDelivery: the input, the state before and the state after.
DelayInput(e) ==
    /\ e.paid /\ ~e.processed /\ e.pending > 0 /\ e.effects = 0
    /\ \/ e.inbox = "none" /\ e.receipts = 0
       \/ e.inbox = "unprocessed" /\ e.receipts > 0
DelayedEventMatches(e, expectedPending) == e.pending = expectedPending
StillDelayed(e, b) ==
    /\ DelayedEventMatches(b, e.pending) /\ b.inbox = e.inbox /\ b.receipts = e.receipts
    /\ SameSnapshot(b, e) /\ e.at <= b.at
\* Mutant: processing in the checkpoint's own millisecond counts as later.
ProcessedByCheckpoint(a, checkpointAt) ==
    a.inbox = "processed" /\ a.processedAt >= checkpointAt /\ a.processedAt <= a.at
ProcessedAfter(a, checkpointAt) ==
    a.inbox = "processed" /\ a.processedAt > checkpointAt /\ a.processedAt <= a.at

-----------------------------------------------------------------------------
(* The collection.                                                         *)

Init ==
    /\ TransportInit
    /\ world = [paid |-> FALSE, pending |-> 0, inbox |-> "none", processedAt |-> 0,
                receipts |-> 0, lastReceipt |-> 0, effects |-> 0]
    /\ fence = TRUE
    /\ \E c \in Cases :
         run = [case |-> c, pc |-> 1, toRead |-> {}, seen |-> Unseen, evidence |-> NoEvidence,
                before |-> Unseen, failed |-> FALSE, asked |-> 0, checkpointAt |-> 0,
                lag |-> 0, mark |-> Unseen, unfenced |-> FALSE, result |-> "none"]

Running == run.result = "none"
At(s)   == Running /\ Stage = s

\* The collection r moves on to the next stage, with that stage's reads to make.
Advanced(r) == [r EXCEPT !.pc = @ + 1, !.toRead = Reads(Script[r.case][r.pc + 1])]

\* A refusal ends the collection, except within the try blocks around the delayed
\* and replayed deliveries, where it is one more failure and the outcome is next.  A
\* failed case stays one, so that what was seen of it is of no more interest.
TryFrom(c) == {i \in DOMAIN Script[c] : Script[c][i] \in {"tryDelayed", "tryReplay"}}
Caught == \E i \in TryFrom(run.case) : run.pc >= i
Forget(r) == [r EXCEPT !.toRead = {}, !.seen = Unseen, !.evidence = NoEvidence, !.before = Unseen,
                       !.mark = Unseen, !.checkpointAt = 0, !.lag = 0]
Refuse == [Forget(run) EXCEPT !.result = "refused"]
Refused == IF Caught
           THEN [Forget(run) EXCEPT !.failed = TRUE, !.pc = Len(Script[run.case]) - 1]
           ELSE Refuse

\* The finally of runCollect closes the transport in the step that ends the run.
Continue(r) ==
    /\ run' = r
    /\ IF r.result = "none" THEN UNCHANGED transportVars ELSE Close
    /\ UNCHANGED <<world, fence>>

\* assertReadersReady: both identities and the webhook endpoint are as expected, or not.
ReadersReady == BOOLEAN

\* assertReadersReady, assertCurrentAttempt and the launch of the browser.
Start ==
    /\ At("start")
    /\ \E ready \in ReadersReady : Continue(IF ready /\ fence THEN Advanced(run) ELSE Refused)

\* The two hooks, which a lost browser interrupts, and the fence that the
\* observation begins with.
Hooks ==
    /\ At("hooks")
    /\ \E done \in BOOLEAN : Continue(IF done /\ ~op.aborted /\ fence THEN Advanced(run) ELSE Refused)

ReadOne(r) ==
    /\ Running /\ r \in run.toRead
    /\ LET next == [run EXCEPT !.seen = Saw(r, @), !.toRead = @ \ {r}, !.unfenced = @ \/ ~fence]
       IN  \/ Continue(IF next.toRead = {} THEN Advanced(next) ELSE next)
           \/ Continue(Refused)      \* the read fails

\* The end of observeFinancialEvidence: the fence once more.
Observed ==
    /\ At("observed")
    /\ Continue(IF fence THEN Advanced([run EXCEPT !.evidence = EvidenceOf(run.case, run.seen), !.seen = Unseen])
                         ELSE Refused)

\* verifyChallengeCapability: a refused request is an unverified witness.
AskWitness ==
    /\ At("askWitness")
    /\ \/ /\ fence /\ Issue("challenge")
          /\ run' = [Advanced(run) EXCEPT !.asked = Len(req) + 1]
          /\ UNCHANGED <<world, fence>>
       \/ ~fence /\ Continue(Refused)
       \/ /\ fence /\ ~MayIssue
          /\ run' = [run EXCEPT !.failed = TRUE, !.pc = @ + 2,
                                !.toRead = Reads(Script[run.case][run.pc + 2])]
          /\ UNCHANGED <<transportVars, world, fence>>

\* The capability is used up by the verification, whatever its result.
UseCapability == req' = [req EXCEPT ![run.asked].used = TRUE]

Witness ==
    /\ At("witness") /\ req[run.asked].status \in Settled
    /\ IF fence
       THEN /\ run' = Advanced([run EXCEPT !.failed = @ \/ ~Verifies(run.asked, "challenge")])
            /\ UseCapability
            /\ UNCHANGED <<now, op, panel, wire, world, fence>>
       ELSE Continue(Refused)

\* The try block of a delayed or replayed delivery opens: its input and the fence.
TryDelivery ==
    /\ At("tryDelayed") \/ At("tryReplay")
    /\ LET ok == fence /\ IF Stage = "tryDelayed" THEN DelayInput(run.evidence) ELSE run.evidence.paid
       IN  Continue(IF ok THEN Advanced(run) ELSE Refused)

\* requestResendCheckpoint, once the state before it is judged sound.  Of that state
\* the receipts and the snapshot are compared later, and a delayed delivery is
\* observed anew.
BeforeOk == IF Contract[run.case].webhook = "delayed" THEN StillDelayed(run.evidence, run.seen)
                                                      ELSE ReplayStateValid(run.seen)
AskCheckpoint ==
    /\ At("askCheckpoint")
    /\ \/ /\ BeforeOk /\ fence /\ Issue("checkpoint")
          /\ LET kept == [Unseen EXCEPT !.receipts = run.seen.receipts, !.effects = run.seen.effects]
             IN  run' = [Advanced(run) EXCEPT !.asked = Len(req) + 1, !.seen = Unseen,
                           !.before = kept, !.mark = kept,
                           !.evidence = IF Contract[run.case].webhook = "delayed" THEN NoEvidence ELSE @]
          /\ UNCHANGED <<world, fence>>
       \/ ~(BeforeOk /\ fence /\ MayIssue) /\ Continue(Refused)

\* The clock of the checkpoint starts when the capability has been verified, and is
\* the controller's.  In run.mark stays the effect that was read before the operator
\* was asked, beside what had arrived by now and the date of the row.
Checkpoint ==
    /\ At("checkpoint") /\ req[run.asked].status \in Settled
    /\ IF Verifies(run.asked, "checkpoint") /\ fence
       THEN /\ \E lag \in -MaxLag..MaxLag :
                 run' = [Advanced(run) EXCEPT !.checkpointAt = now - lag, !.lag = lag,
                           !.mark = [@ EXCEPT !.receipts = world.receipts, !.processedAt = world.processedAt]]
            /\ UseCapability
            /\ UNCHANGED <<now, op, panel, wire, world, fence>>
       ELSE Continue(Refused)

\* resendWebhookDelivery after the reads.
JudgeReplay ==
    /\ At("judgeReplay")
    /\ LET ok == /\ SameSnapshot(run.before, run.seen)
                 /\ ReplayStateValid(run.seen)
                 /\ Fresh(run.before, run.seen, run.checkpointAt)
                 /\ fence
       IN  Continue(IF ok THEN Advanced(run) ELSE Refused)

\* verifyDelayedWebhookDelivery after the reads.
JudgeDelayed ==
    /\ At("judgeDelayed")
    /\ LET ok == /\ DelayedEventMatches(run.seen, 0)
                 /\ ProcessedAfter(run.seen, run.checkpointAt)
                 /\ Fresh(run.before, run.seen, run.checkpointAt)
                 /\ fence
           kept == [run.seen EXCEPT !.pending = 0, !.inbox = "none", !.lastReceipt = 0]
       IN  Continue(IF ok THEN Advanced([run EXCEPT !.before = kept, !.seen = Unseen]) ELSE Refused)

\* The delayed case observes once more and judges by that observation.
JudgePost ==
    /\ At("judgePost")
    /\ LET e  == run.evidence
           ok == SameSnapshot(e, run.before) /\ run.before.at <= e.at /\ PaidState(e)
       IN  Continue(Advanced([run EXCEPT !.failed = @ \/ ~ok]))

\* observeExpiredCheckoutSession, observeForeignActorDenial: one read, verified or not.
Further ==
    /\ At("further")
    /\ \E verified \in BOOLEAN :
         Continue(Advanced([run EXCEPT !.failed = @ \/ ~verified, !.unfenced = @ \/ ~fence]))

\* The end of runThreeDsCase: the outcome and the last look at the fence.
OutcomeOk == IF Contract[run.case].paid THEN PaidState(run.evidence)
                                        ELSE NoNewAccess(run.evidence) /\ NoFunds(run.evidence)
\* Mutant: the fence is not asked for at the end.
OutcomeUnfenced ==
    At("outcome") /\ Continue(Advanced([run EXCEPT !.failed = @ \/ ~OutcomeOk]))
Outcome ==
    /\ At("outcome")
    /\ Continue(IF fence THEN Advanced([run EXCEPT !.failed = @ \/ ~OutcomeOk])
                         ELSE Refuse)

\* runCollect returns the result unless the operator aborted or the browser went.
\* Mutant: the abort is not looked at once there is a result.
ReturnAnyway ==
    At("return") /\ Continue([run EXCEPT !.result = IF run.failed THEN "failed" ELSE "passed"])
Return ==
    /\ At("return")
    /\ Continue(IF op.aborted THEN Refuse
                ELSE [run EXCEPT !.result = IF run.failed THEN "failed" ELSE "passed"])

-----------------------------------------------------------------------------
(* Stripe, the application under test and the store, which the collection  *)
(* only reads.                                                             *)

Pay ==
    /\ Running /\ ~world.paid
    /\ world' = [world EXCEPT !.paid = TRUE, !.pending = 1]
    /\ UNCHANGED <<transportVars, fence, run>>

\* A delivery arrives.
Deliver ==
    /\ Running /\ world.paid /\ world.receipts < MaxDeliveries
    /\ world' = [world EXCEPT !.receipts = @ + 1, !.lastReceipt = now]
    /\ UNCHANGED <<transportVars, fence, run>>

\* What the application does with deliveries that arrived: it settles the payment,
\* marks the inbox row, anew if it was marked before, and answers Stripe, each in a
\* step of its own and in any order.
Settle ==
    /\ Running /\ world.receipts > 0 /\ world.effects < MaxDeliveries
    /\ world' = [world EXCEPT !.effects = @ + 1]
    /\ UNCHANGED <<transportVars, fence, run>>
MarkInbox ==
    /\ Running /\ world.receipts > 0
    /\ \/ world.inbox = "none" /\ world' = [world EXCEPT !.inbox = "unprocessed"]
       \/ world' = [world EXCEPT !.inbox = "processed", !.processedAt = now]
    /\ UNCHANGED <<transportVars, fence, run>>
Acknowledge ==
    /\ Running /\ world.receipts > 0 /\ world.pending > 0
    /\ world' = [world EXCEPT !.pending = 0]
    /\ UNCHANGED <<transportVars, fence, run>>

LoseFence ==
    /\ Running /\ fence
    /\ fence' = FALSE
    /\ UNCHANGED <<transportVars, world, run>>

CollectionStep ==
    \/ Start \/ Hooks \/ \E r \in run.toRead : ReadOne(r)
    \/ Observed \/ AskWitness \/ Witness \/ TryDelivery \/ AskCheckpoint \/ Checkpoint
    \/ JudgeReplay \/ JudgeDelayed \/ JudgePost \/ Further \/ Outcome \/ Return

Next ==
    \/ CollectionStep
    \/ Running /\ run.pc > 1 /\ TransportStep /\ UNCHANGED <<world, fence, run>>
    \/ Running /\ Tick /\ UNCHANGED <<world, fence, run>>
    \/ Pay \/ Deliver \/ Settle \/ MarkInbox \/ Acknowledge \/ LoseFence

Spec == Init /\ [][Next]_vars

-----------------------------------------------------------------------------

TypeOK ==
    /\ TransportTypeOK
    /\ world.receipts \in 0..MaxDeliveries /\ world.effects \in 0..MaxDeliveries
    /\ fence \in BOOLEAN
    /\ run.case \in Cases /\ run.pc \in DOMAIN Script[run.case]
    /\ run.toRead \subseteq Reads(Stage)
    /\ {run.seen, run.before, run.mark} \subseteq Seen /\ run.evidence \in Evidence
    /\ run.asked \in 0..Len(req) /\ run.lag \in -MaxLag..MaxLag
    /\ run.checkpointAt \in -MaxLag..(MaxTime + MaxLag)
    /\ run.result \in {"none", "refused", "failed", "passed"}
    /\ Stage \in {"witness", "checkpoint"} => run.asked = Len(req) /\ run.asked # 0

Returned == run.result \in {"failed", "passed"}

\* A collection the operator aborted, or whose browser was lost, at any time after
\* it began returns no result, neither passed nor failed (run-collect.mjs).
AbortYieldsNoResult ==
    Returned => ~op.gone /\ \A n \in DOMAIN req : req[n].status # "aborted"

\* Every read behind a returned result, also one of a part of the case that failed,
\* was made while the attempt still held its fence (three-ds.mjs, observations.mjs).
ResultReadUnderFence == Returned => ~run.unfenced

\* A replay passes only by a delivery that reached the application after the
\* operator's confirmation was verified, never by one of Stripe's own retries
\* while the operator was still acting, unless the controller's clock is behind the
\* database's (financial.mjs requestResendCheckpoint, resendWebhookDelivery).
PassedReplayIsFresh ==
    run.result = "passed" /\ run.case = "replay" /\ run.lag <= 0 =>
        run.seen.receipts > run.mark.receipts

\* A delayed delivery passes only if no effect was read before the operator was
\* asked and exactly one is read in the end; and, unless the controller's clock is
\* behind, only if a delivery arrived and the inbox row was marked processed after
\* the operator's confirmation was verified.  Nobody looks at the effect at that
\* moment, so whether it came before or after is not claimed
\* (financial.mjs verifyDelayedWebhookDelivery, three-ds.mjs).
PassedDelayedWasDelayed ==
    run.result = "passed" /\ run.case = "delayed" =>
        /\ run.mark.effects = 0 /\ run.evidence.effects = 1
        /\ run.lag <= 0 => /\ run.before.receipts > run.mark.receipts
                          /\ run.before.processedAt > run.mark.processedAt

=============================================================================
