------------------------- MODULE FixturePublication -------------------------
(***************************************************************************)
(* billing/fixture-run.mjs: a collector opens a case and publishes one     *)
(* synthetic fixture of each kind, one call after the other.  A call that  *)
(* fails after its mutation was sent leaves the case latched: the row may  *)
(* be in the application's database although nobody confirmed it.          *)
(*                                                                         *)
(* The latch is memory of the process.  What remains after a restart is    *)
(* the claim of the case in the store, which names the namespace that the  *)
(* first process drew for it, and the rows in the application's database.  *)
(* These are two projects: the row is inserted while the transaction with  *)
(* the claim is open, and nothing makes both of them commit.               *)
(***************************************************************************)
EXTENDS Naturals, Sequences, FiniteSets

CONSTANTS
    Kinds,         \* FIXTURE_KINDS
    MaxRestarts    \* bound of the collector's restarts

ASSUME PublicationAssumption == IsFiniteSet(Kinds) /\ MaxRestarts \in Nat

VARIABLES
    fence,      \* the lease's fence: "held" by the collector, "recovery" or "lost"
    pub,        \* the case as the running process has it opened
    claim,      \* fixture_case_claims and fixture_resource_claims of the case
    sent,       \* the inserts sent for the case, in order: each row may be there or come later
    confirmed   \* the rows whose publication was reported with a snapshot

publicationVars == <<pub, claim, sent, confirmed>>

\* openCase: a namespace of its own for the case, nothing published yet.
Opened(n) == [namespace |-> n, pc |-> "idle", kind |-> {}, open |-> FALSE,
              published |-> {}, unresolved |-> FALSE]

Fixtures == [namespace : 1..(MaxRestarts + 1), kind : Kinds]

\* The row of the running process for one kind.
Row(k) == [namespace |-> pub.namespace, kind |-> k]

PublicationInit ==
    /\ fence = "held"
    /\ pub = Opened(1)
    /\ claim = [namespace |-> 0, kinds |-> {}]
    /\ sent = <<>>
    /\ confirmed = {}

-----------------------------------------------------------------------------

Ended(p) == [p EXCEPT !.pc = "idle", !.kind = {}, !.open = FALSE]

\* The checks at the top of publish.
MayPublish(k) == k \notin pub.published /\ ~pub.unresolved

Publish(k) ==
    /\ pub.pc = "idle" /\ MayPublish(k)
    /\ pub' = [pub EXCEPT !.pc = "ready", !.kind = {k}]
    /\ UNCHANGED <<fence, claim, sent, confirmed>>

\* assertCurrentAttempt: a fence that may only recover is current too.
FenceCurrent == fence # "lost"

\* The publisher's assertReady asks for the fence once more.
PublisherReady == FenceCurrent

\* The latch closes before the mutation is asked for.
\* Mutant: the latch is left to the error paths.
Unlatched(p) == p
Latched(p) == [p EXCEPT !.unresolved = TRUE]

\* Readers, fence, publisher and the inventory: a refusal here leaves no trace.
PublishReady ==
    /\ pub.pc = "ready"
    /\ \/ pub' = Ended(pub)
       \/ FenceCurrent /\ PublisherReady /\ pub' = [Latched(pub) EXCEPT !.pc = "mutate"]
    /\ UNCHANGED <<fence, claim, sent, confirmed>>

\* claimFixtureCase: the first claim fixes the case's namespace, and every kind is
\* claimed once.
MayClaim(k) ==
    /\ claim.namespace \in {0, pub.namespace}
    /\ k \notin claim.kinds

\* fixtureMutationWithReservation up to the claim: its transaction stays open while
\* the publisher inserts the row.  A refusal, like every error from here on, leaves
\* the latch closed.
ClaimFixture ==
    /\ pub.pc = "mutate"
    /\ \/ /\ fence = "held" /\ \A k \in pub.kind : MayClaim(k)
          /\ pub' = [pub EXCEPT !.pc = "insert", !.open = TRUE]
       \/ pub' = Ended(pub)
    /\ UNCHANGED <<fence, claim, sent, confirmed>>

\* The connection to the control store breaks: the store undoes the transaction and
\* lets go of the attempt's lock, which the process learns when it commits.
ConnectionLost ==
    /\ pub.open
    /\ pub' = [pub EXCEPT !.open = FALSE]
    /\ UNCHANGED <<fence, claim, sent, confirmed>>

\* insertAttemptFixture of the publisher, in the application's project: the answer
\* says that the row is there, or an error that leaves open what became of it.  It
\* may also fail before anything is sent.
InsertAttemptFixture ==
    /\ pub.pc = "insert"
    /\ \/ /\ \E k \in pub.kind : sent' = Append(sent, Row(k))
          /\ \E answer \in {"inserted", "failed"} : pub' = [pub EXCEPT !.pc = answer]
       \/ pub' = [pub EXCEPT !.pc = "failed"] /\ UNCHANGED sent
    /\ UNCHANGED <<fence, claim, confirmed>>

\* The transaction commits even if the insert failed, its COMMIT may fail although
\* the row was inserted, and the answer of a COMMIT that was done can be lost.
CommitFixture ==
    /\ pub.pc \in {"inserted", "failed"}
    /\ \/ /\ pub.open
          /\ claim' = [namespace |-> pub.namespace, kinds |-> claim.kinds \cup pub.kind]
          /\ \/ pub.pc = "inserted" /\ pub' = [pub EXCEPT !.pc = "readback", !.open = FALSE]
             \/ pub' = Ended(pub)
       \/ pub' = Ended(pub) /\ UNCHANGED claim
    /\ UNCHANGED <<fence, sent, confirmed>>

\* readSyntheticFixture finds the row under the namespace and the case.
RowReadBack(k) == \E i \in DOMAIN sent : sent[i] = Row(k)

\* The independent read-back of the row opens the latch again.
Readback ==
    /\ pub.pc = "readback"
    /\ \/ /\ \A k \in pub.kind : RowReadBack(k)
          /\ confirmed' = confirmed \cup {Row(k) : k \in pub.kind}
          /\ pub' = Ended([pub EXCEPT !.unresolved = FALSE, !.published = @ \cup pub.kind])
       \/ pub' = Ended(pub) /\ UNCHANGED confirmed
    /\ UNCHANGED <<fence, claim, sent>>

\* The collector dies anywhere and opens the case anew under the same fence.  A
\* transaction that was open is undone, what it had inserted is not.
Restart ==
    /\ pub.namespace <= MaxRestarts
    /\ pub' = Opened(pub.namespace + 1)
    /\ UNCHANGED <<fence, claim, sent, confirmed>>

PublicationStep ==
    \/ \E k \in Kinds : Publish(k)
    \/ PublishReady \/ ClaimFixture \/ ConnectionLost \/ InsertAttemptFixture \/ CommitFixture
    \/ Readback \/ Restart

-----------------------------------------------------------------------------

PublicationTypeOK ==
    /\ fence \in {"held", "recovery", "lost"}
    /\ pub \in [namespace : 1..(MaxRestarts + 1),
                pc : {"idle", "ready", "mutate", "insert", "inserted", "failed", "readback"},
                kind : SUBSET Kinds, open : BOOLEAN, published : SUBSET Kinds, unresolved : BOOLEAN]
    /\ Cardinality(pub.kind) = (IF pub.pc = "idle" THEN 0 ELSE 1)
    /\ claim \in [namespace : 0..pub.namespace, kinds : SUBSET Kinds]
    /\ sent \in Seq(Fixtures)
    /\ confirmed \subseteq Fixtures

\* The store holds the claim under which the row was sent.
Claimed(r) == r.namespace = claim.namespace /\ r.kind \in claim.kinds

\* After a publication of unknown outcome its process publishes nothing more, and
\* nobody does if its claim was committed: a row that nobody confirmed is the last
\* one of its namespace, and with a claim the last one of its case.  Only a row whose
\* transaction was undone leaves the case to a process that is started afterwards
\* (fixture-run.mjs publish, claimFixtureCase).
UnconfirmedRowEndsCase ==
    \A i \in DOMAIN sent : i < Len(sent) /\ sent[i] \notin confirmed =>
        /\ ~Claimed(sent[i])
        /\ \A j \in DOMAIN sent : i < j => sent[j].namespace # sent[i].namespace

=============================================================================
