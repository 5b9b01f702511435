----------------------- MODULE ProviderCleanupProofs -----------------------
(***************************************************************************)
(* For every set of fixture kinds and of owned resources, and any number   *)
(* of restarts and cleanup calls: a publication nobody confirmed ends the  *)
(* work of its process on the case, and the case once its claim is         *)
(* committed; a released attempt leaves nothing behind; and the store and  *)
(* Stripe together implement the write-ahead log of IntentLog.             *)
(***************************************************************************)
EXTENDS ProviderCleanup, FiniteSetTheorems, WellFoundedInduction, TLAPS

-----------------------------------------------------------------------------
(* The latest of the resources that are still open.                        *)

\* A finite set of numbers that is not empty has a greatest one: a smallest set
\* without one would have it after the removal of any member.
LEMMA MaxExists ==
    ASSUME NEW S \in SUBSET Nat, IsFiniteSet(S), S # {}
    PROVE  \E x \in S : \A y \in S : x >= y
<1> DEFINE HasMax(A) == \E x \in A : \A y \in A : x >= y
           T == {A \in FiniteSubsetsOf(Nat) : A # {} /\ ~HasMax(A)}
<1> SUFFICES ASSUME T # {} PROVE FALSE
  BY DEF FiniteSubsetsOf
<1>1. IsWellFoundedOn(StrictSubsetOrdering(Nat), FiniteSubsetsOf(Nat))
  BY FS_StrictSubsetOrderingWellFounded
<1>2. T \subseteq FiniteSubsetsOf(Nat)
  OBVIOUS
<1>3. PICK A \in T : \A B \in T : ~(<<B, A>> \in StrictSubsetOrdering(Nat))
  <2> HIDE DEF T
  <2> QED BY <1>1, <1>2, WFMin, Zenon
<1>4. PICK a \in A : TRUE
  OBVIOUS
<1> DEFINE B == A \ {a}
<1>5. A \in SUBSET Nat /\ IsFiniteSet(A) /\ ~HasMax(A) /\ a \in Nat
  BY <1>4 DEF FiniteSubsetsOf
<1>6. B \in FiniteSubsetsOf(Nat)
  BY <1>5, FS_RemoveElement DEF FiniteSubsetsOf
<1>7. <<B, A>> \in StrictSubsetOrdering(Nat)
  BY <1>4, <1>5 DEF StrictSubsetOrdering
<1>8. CASE B = {}
  <2>1. A = {a}
    BY <1>4, <1>8
  <2> QED BY <2>1, <1>5
<1>9. CASE HasMax(B)
  <2>1. PICK b \in B : \A y \in B : b >= y
    BY <1>9
  <2>2. CASE a >= b
    <3>1. \A y \in A : a >= y
      BY <2>1, <2>2, <1>5
    <3> QED BY <3>1, <1>4, <1>5
  <2>3. CASE ~(a >= b)
    <3>1. \A y \in A : b >= y
      BY <2>1, <2>3, <1>5
    <3> QED BY <3>1, <2>1, <1>5
  <2> QED BY <2>2, <2>3
<1> QED BY <1>3, <1>6, <1>7, <1>8, <1>9

\* What NextResource and ReadSnapshot choose is one of the open resources.
LEMMA MaxIsOpen ==
    ASSUME NEW S \in SUBSET Resources, S # {}
    PROVE  Max(S) \in S
<1>1. S \in SUBSET Nat /\ IsFiniteSet(S)
  BY CleanupAssumption, FS_Subset
<1>2. \E x \in S : \A y \in S : x >= y
  BY <1>1, MaxExists
<1> QED BY <1>2 DEF Max

-----------------------------------------------------------------------------
(* The inductive invariant.                                                *)

Views == [namespace : 1..(MaxRestarts + 1),
          pc : {"idle", "ready", "mutate", "insert", "inserted", "failed", "readback"},
          kind : SUBSET Kinds, open : BOOLEAN, published : SUBSET Kinds, unresolved : BOOLEAN]

PublicationTypes ==
    /\ fence \in {"held", "recovery", "lost"}
    /\ pub \in Views
    /\ IF pub.pc = "idle" THEN pub.kind = {} ELSE \E k \in Kinds : pub.kind = {k}
    /\ claim \in [namespace : 0..(MaxRestarts + 1), kinds : SUBSET Kinds]
    /\ claim.namespace <= pub.namespace
    /\ confirmed \in SUBSET Fixtures
    /\ sent \in Seq(Fixtures)
    /\ \A i \in 1..Len(sent) : sent[i].namespace <= pub.namespace

\* A row of the running process that nobody confirmed is the last one sent; its
\* process is latched, and is done with it or reads back this very row.  The claim
\* under which a row is sent is the process's own, or the case's first.
UnconfirmedIsGuarded ==
    /\ pub.pc \notin {"idle", "ready"} => pub.unresolved
    /\ pub.pc = "insert" => claim.namespace \in {0, pub.namespace}
    /\ \A i \in 1..Len(sent) :
         sent[i].namespace = pub.namespace /\ sent[i] \notin confirmed =>
           /\ i = Len(sent) /\ pub.unresolved
           /\ pub.pc \in {"idle", "inserted", "failed", "readback"}
           /\ pub.pc \in {"inserted", "readback"} => pub.kind = {sent[i].kind}

Published == PublicationTypes /\ UnconfirmedIsGuarded /\ UnconfirmedRowEndsCase

Stages == {"idle", "assert", "owner", "begin", "send", "reconcile", "record", "pending",
           "inventory", "rows", "snapshot", "fixtures", "reinventory", "rerows",
           "resnapshot", "release"}

CleanupTypes ==
    /\ store \in [terminal : BOOLEAN, released : BOOLEAN,
                  intent : [Operations -> {"none", "in_flight", "reconciled"}]]
    /\ stripe \in [exists : SUBSET Resources, open : SUBSET Resources,
                   flying : SUBSET Operations, done : SUBSET Operations]
    /\ stripe.open \subseteq stripe.exists
    /\ app \in [rows : SUBSET RowKinds, late : SUBSET Resources, lateRows : SUBSET RowKinds]
    /\ app.late \subseteq stripe.exists /\ app.lateRows \subseteq app.rows
    /\ ctl \in [pc : Stages, op : Operations, initial : SUBSET Resources,
                open : SUBSET Resources, owned : SUBSET RowKinds, calls : 0..MaxCalls]

\* Write-ahead: what Stripe does or did has its intent, a mutation is sent once, and
\* a receipt is for something done.
EffectsAreLogged ==
    /\ \A o \in stripe.flying : store.intent[o] = "in_flight" /\ o \notin stripe.done
    /\ \A o \in stripe.done : store.intent[o] # "none"
    /\ \A o \in Operations : store.intent[o] = "reconciled" => o \in stripe.done
    /\ ctl.pc = "send" => /\ store.intent[ctl.op] = "in_flight"
                          /\ ctl.op \notin stripe.flying \cup stripe.done
    /\ ctl.pc = "record" => ctl.op \in stripe.done

\* What the second observation has shown holds until the release, but for what came
\* late.
ObservedClean ==
    /\ ctl.pc # "snapshot" => ctl.owned = {}
    /\ ctl.pc \in {"rerows", "resnapshot", "release"} \/ store.released => stripe.open \subseteq app.late
    /\ ctl.pc = "resnapshot" => app.rows \subseteq app.lateRows \cup InSnapshot
    /\ ctl.pc = "release" \/ store.released => app.rows \subseteq app.lateRows
    /\ store.released => fence = "lost" /\ ctl.pc = "idle" /\ NonePending

Cleaned == CleanupTypes /\ EffectsAreLogged /\ ObservedClean

Inv == Published /\ Cleaned

-----------------------------------------------------------------------------
(* The publication.                                                        *)

\* A case is opened with nothing claimed and nothing written.
LEMMA PublishedInit == PublicationInit => Published
<1> SUFFICES ASSUME PublicationInit PROVE Published
  OBVIOUS
<1>1. pub = Opened(1) /\ claim = [namespace |-> 0, kinds |-> {}] /\ sent = <<>> /\ confirmed = {}
  BY DEF PublicationInit
<1>2. PublicationTypes
  BY <1>1, PublicationAssumption DEF PublicationInit, PublicationTypes, Opened, Views
<1>3. UnconfirmedIsGuarded /\ UnconfirmedRowEndsCase
  BY <1>1 DEF UnconfirmedIsGuarded, UnconfirmedRowEndsCase, Opened
<1> QED BY <1>2, <1>3 DEF Published

\* The steps that neither claim, send nor confirm change the process's view alone.
LEMMA PublishedView ==
    Published /\ ((\E k \in Kinds : Publish(k)) \/ PublishReady \/ ClaimFixture \/ ConnectionLost)
      => Published'
<1> SUFFICES ASSUME Published,
                    (\E k \in Kinds : Publish(k)) \/ PublishReady \/ ClaimFixture \/ ConnectionLost
             PROVE  Published'
  OBVIOUS
<1> USE DEF Published, PublicationTypes, UnconfirmedIsGuarded, Views
<1>0. UNCHANGED <<fence, claim, sent, confirmed>>
  BY DEF Publish, PublishReady, ClaimFixture, ConnectionLost
<1>1. UnconfirmedRowEndsCase'
  BY <1>0 DEF UnconfirmedRowEndsCase, Claimed
<1>2. CASE \E k \in Kinds : Publish(k)
  <2>1. PICK k \in Kinds : Publish(k)
    BY <1>2
  <2>2. /\ ~pub.unresolved /\ pub'.namespace = pub.namespace /\ pub'.pc = "ready" /\ pub'.kind = {k}
        /\ pub' \in Views
    BY <2>1 DEF Publish, MayPublish
  <2> QED BY <1>0, <1>1, <2>2
<1>3. CASE PublishReady
  <2>1. CASE pub' = Ended(pub)
    BY <1>0, <1>1, <1>3, <2>1 DEF PublishReady, Ended
  <2>2. CASE pub' # Ended(pub)
    <3>1. pub' = [Latched(pub) EXCEPT !.pc = "mutate"] /\ pub.pc = "ready"
      BY <1>3, <2>2 DEF PublishReady
    <3>2. pub' \in Views /\ pub'.pc = "mutate" /\ pub'.kind = pub.kind /\ pub'.unresolved
          /\ pub'.namespace = pub.namespace
      BY <3>1 DEF Latched
    <3> QED BY <1>0, <1>1, <3>1, <3>2
  <2> QED BY <2>1, <2>2
<1>4. CASE ClaimFixture
  <2>1. PICK k \in Kinds : pub.kind = {k}
    BY <1>4 DEF ClaimFixture
  <2>2. CASE pub' = Ended(pub)
    BY <1>0, <1>1, <1>4, <2>2 DEF ClaimFixture, Ended
  <2>3. CASE pub' # Ended(pub)
    <3>1. /\ pub' = [pub EXCEPT !.pc = "insert", !.open = TRUE] /\ pub.pc = "mutate"
          /\ claim.namespace \in {0, pub.namespace}
      BY <1>4, <2>1, <2>3 DEF ClaimFixture, MayClaim
    <3>2. pub' \in Views /\ pub'.pc = "insert" /\ pub'.kind = {k} /\ pub'.unresolved
          /\ pub'.namespace = pub.namespace
      BY <2>1, <3>1
    <3> QED BY <1>0, <1>1, <3>1, <3>2
  <2> QED BY <2>2, <2>3
<1>5. CASE ConnectionLost
  BY <1>0, <1>1, <1>5 DEF ConnectionLost
<1> QED BY <1>2, <1>3, <1>4, <1>5

\* A process that starts anew has a namespace above every claim and every row.
LEMMA PublishedRestart == Published /\ Restart => Published'
<1> SUFFICES ASSUME Published, Restart PROVE Published'
  OBVIOUS
<1> USE DEF Published, PublicationTypes, UnconfirmedIsGuarded, Views
<1>1. /\ pub' = Opened(pub.namespace + 1) /\ pub.namespace + 1 <= MaxRestarts + 1
      /\ UNCHANGED <<fence, claim, sent, confirmed>>
  BY PublicationAssumption DEF Restart
<1>2. /\ pub'.namespace = pub.namespace + 1 /\ pub'.namespace \in 1..(MaxRestarts + 1)
      /\ pub'.pc = "idle" /\ pub'.kind = {} /\ pub' \in Views
  BY <1>1, PublicationAssumption DEF Opened
<1>3. \A i \in 1..Len(sent) : sent[i] \in Fixtures /\ sent[i].namespace < pub'.namespace
  <2> SUFFICES ASSUME NEW i \in 1..Len(sent)
               PROVE  sent[i] \in Fixtures /\ sent[i].namespace < pub'.namespace
    OBVIOUS
  <2>1. sent[i] \in Fixtures /\ sent[i].namespace <= pub.namespace
    OBVIOUS
  <2>2. sent[i].namespace \in Nat /\ pub.namespace \in Nat
    BY <2>1, PublicationAssumption DEF Fixtures
  <2> QED BY <1>2, <2>1, <2>2
<1>4. PublicationTypes'
  BY <1>1, <1>2, <1>3, PublicationAssumption DEF Fixtures
<1>5. UnconfirmedIsGuarded'
  BY <1>1, <1>2, <1>3, PublicationAssumption DEF Fixtures
<1>6. UnconfirmedRowEndsCase'
  BY <1>1 DEF UnconfirmedRowEndsCase, Claimed
<1> QED BY <1>4, <1>5, <1>6

\* A row is sent only over the process's own claim or the case's first, and then every
\* row of the process before it is confirmed.
LEMMA PublishedInsert == Published /\ InsertAttemptFixture => Published'
<1> SUFFICES ASSUME Published, InsertAttemptFixture PROVE Published'
  OBVIOUS
<1> USE DEF Published, PublicationTypes, UnconfirmedIsGuarded, Views
<1>1. PICK k \in Kinds : pub.kind = {k}
  BY DEF InsertAttemptFixture
<1>2. UNCHANGED <<fence, claim, confirmed>> /\ pub.pc = "insert"
  BY DEF InsertAttemptFixture
<1>3. /\ pub'.namespace = pub.namespace /\ pub'.kind = {k} /\ pub'.unresolved
      /\ pub'.pc \in {"inserted", "failed"} /\ pub' \in Views
  BY <1>1, <1>2 DEF InsertAttemptFixture
<1>4. CASE sent' = sent
  <2>1. UnconfirmedRowEndsCase'
    BY <1>2, <1>4 DEF UnconfirmedRowEndsCase, Claimed
  <2> QED BY <1>1, <1>2, <1>3, <1>4, <2>1
<1>5. CASE sent' # sent
  <2> DEFINE r == Row(k)
  <2>1. r \in Fixtures /\ r.namespace = pub.namespace /\ r.kind = k
    BY <1>1, PublicationAssumption DEF Row, Fixtures
  <2>2. sent' = Append(sent, r)
    BY <1>1, <1>5 DEF InsertAttemptFixture
  <2> HIDE DEF r
  <2>3. /\ sent' \in Seq(Fixtures) /\ Len(sent') = Len(sent) + 1 /\ sent'[Len(sent')] = r
        /\ \A i \in 1..Len(sent) : sent'[i] = sent[i]
    BY <2>1, <2>2
  <2>4. \A i \in 1..Len(sent) : sent[i] \notin confirmed => sent[i].namespace # pub.namespace
    BY <1>2
  <2>5. \A i \in 1..Len(sent) : sent[i].namespace \in 1..(MaxRestarts + 1)
    <3>1. \A i \in 1..Len(sent) : sent[i] \in Fixtures
      OBVIOUS
    <3> QED BY <3>1 DEF Fixtures
  <2>6. \A i \in 1..Len(sent) : sent[i] \notin confirmed => ~Claimed(sent[i])
    BY <1>2, <2>4, <2>5, PublicationAssumption DEF Claimed
  <2>7. \A i \in 1..Len(sent) : \A j \in 1..Len(sent) :
           i < j /\ sent[i] \notin confirmed => sent[j].namespace # sent[i].namespace
    BY DEF UnconfirmedRowEndsCase
  <2>8. UnconfirmedRowEndsCase'
    <3> SUFFICES ASSUME NEW i \in DOMAIN sent', i < Len(sent'), sent'[i] \notin confirmed
                 PROVE  /\ ~Claimed(sent'[i])
                        /\ \A j \in DOMAIN sent' : i < j => sent'[j].namespace # sent'[i].namespace
      BY <1>2 DEF UnconfirmedRowEndsCase, Claimed
    <3>1. i \in 1..Len(sent) /\ sent'[i] = sent[i] /\ sent[i] \notin confirmed
      BY <2>3
    <3>2. ~Claimed(sent'[i])
      BY <2>6, <3>1
    <3>3. ASSUME NEW j \in DOMAIN sent', i < j PROVE sent'[j].namespace # sent'[i].namespace
      <4>1. CASE j \in 1..Len(sent)
        BY <2>3, <2>7, <3>1, <3>3, <4>1
      <4>2. CASE j = Len(sent')
        BY <2>1, <2>3, <2>4, <3>1, <4>2
      <4> QED BY <2>3, <4>1, <4>2
    <3> QED BY <3>2, <3>3
  <2>9. PublicationTypes'
    <3>1. \A i \in 1..Len(sent') : sent'[i].namespace <= pub'.namespace
      BY <1>3, <2>1, <2>3
    <3> QED BY <1>1, <1>2, <1>3, <2>3, <3>1
  <2>10. UnconfirmedIsGuarded'
    <3> SUFFICES ASSUME NEW i \in 1..Len(sent'), sent'[i].namespace = pub'.namespace,
                        sent'[i] \notin confirmed
                 PROVE  i = Len(sent')
      BY <1>2, <1>3, <2>1, <2>3
    <3> QED BY <1>3, <2>3, <2>4
  <2> QED BY <2>8, <2>9, <2>10
<1> QED BY <1>4, <1>5

\* What the transaction claims is the process's own row, the last one sent.
LEMMA PublishedCommit == Published /\ CommitFixture => Published'
<1> SUFFICES ASSUME Published, CommitFixture PROVE Published'
  OBVIOUS
<1> USE DEF Published, PublicationTypes, UnconfirmedIsGuarded, Views
<1>1. PICK k \in Kinds : pub.kind = {k}
  BY DEF CommitFixture
<1>2. UNCHANGED <<fence, sent, confirmed>> /\ pub.pc \in {"inserted", "failed"}
  BY DEF CommitFixture
<1>3. /\ pub'.namespace = pub.namespace /\ pub'.unresolved /\ pub' \in Views
      /\ \/ pub'.pc = "idle" /\ pub'.kind = {}
         \/ pub'.pc = "readback" /\ pub'.kind = {k} /\ pub.pc = "inserted"
  BY <1>1, <1>2 DEF CommitFixture, Ended
<1>4. UnconfirmedIsGuarded'
  BY <1>1, <1>2, <1>3
<1>5. CASE claim' = claim
  <2>1. UnconfirmedRowEndsCase'
    BY <1>2, <1>5 DEF UnconfirmedRowEndsCase, Claimed
  <2> QED BY <1>1, <1>2, <1>3, <1>4, <1>5, <2>1
<1>6. CASE claim' = [namespace |-> pub.namespace, kinds |-> claim.kinds \cup pub.kind]
  <2>1. /\ claim'.namespace = pub.namespace
        /\ claim' \in [namespace : 0..(MaxRestarts + 1), kinds : SUBSET Kinds]
    BY <1>6, PublicationAssumption
  <2>2. PublicationTypes'
    BY <1>1, <1>2, <1>3, <2>1, PublicationAssumption
  <2>3. \A i \in 1..Len(sent) : i < Len(sent) /\ sent[i] \notin confirmed
                                 => sent[i].namespace # pub.namespace
    OBVIOUS
  <2>4. UnconfirmedRowEndsCase'
    BY <1>2, <2>1, <2>3 DEF UnconfirmedRowEndsCase, Claimed
  <2> QED BY <1>4, <2>2, <2>4
<1> QED BY <1>5, <1>6 DEF CommitFixture

\* The read-back confirms the row that the same process sent.
LEMMA PublishedReadback == Published /\ Readback => Published'
<1> SUFFICES ASSUME Published, Readback PROVE Published'
  OBVIOUS
<1> USE DEF Published, PublicationTypes, UnconfirmedIsGuarded, Views
<1>1. PICK k \in Kinds : pub.kind = {k}
  BY DEF Readback
<1>2. UNCHANGED <<fence, claim, sent>> /\ pub.pc = "readback"
  BY DEF Readback
<1>3. Row(k) \in Fixtures
  BY <1>1, PublicationAssumption DEF Row, Fixtures
<1>4. confirmed' \in SUBSET Fixtures /\ confirmed \subseteq confirmed'
  BY <1>1, <1>3 DEF Readback
<1>5. UnconfirmedRowEndsCase'
  BY <1>2, <1>4 DEF UnconfirmedRowEndsCase, Claimed
<1>6. /\ pub'.namespace = pub.namespace /\ pub'.pc = "idle" /\ pub'.kind = {} /\ pub' \in Views
      /\ pub'.unresolved = pub.unresolved \/ Row(k) \in confirmed'
  <2>1. CASE pub' = Ended(pub)
    BY <2>1 DEF Ended
  <2>2. CASE pub' # Ended(pub)
    <3>1. /\ pub' = Ended([pub EXCEPT !.unresolved = FALSE, !.published = pub.published \cup pub.kind])
          /\ Row(k) \in confirmed'
      BY <1>1, <2>2 DEF Readback
    <3> QED BY <3>1 DEF Ended
  <2> QED BY <2>1, <2>2
<1>7. PublicationTypes'
  BY <1>2, <1>4, <1>6
<1>8. ASSUME NEW i \in 1..Len(sent), sent[i].namespace = pub.namespace, sent[i] \notin confirmed'
      PROVE  i = Len(sent) /\ pub'.unresolved
  <2>1. i = Len(sent) /\ pub.unresolved /\ pub.kind = {sent[i].kind}
    BY <1>2, <1>4, <1>8
  <2>2. sent[i] = Row(k)
    <3>1. sent[i] \in Fixtures
      OBVIOUS
    <3> QED BY <1>1, <1>8, <2>1, <3>1 DEF Row, Fixtures
  <2> QED BY <1>6, <1>8, <2>1, <2>2
<1>9. UnconfirmedIsGuarded'
  BY <1>2, <1>6, <1>8
<1> QED BY <1>5, <1>7, <1>9

\* The fence moves by the steps of the cleanup; the publication does not depend on it.
LEMMA PublishedElsewhere ==
    Published /\ UNCHANGED publicationVars /\ fence' \in {"held", "recovery", "lost"} => Published'
BY DEF Published, PublicationTypes, UnconfirmedIsGuarded, UnconfirmedRowEndsCase, Claimed, publicationVars

\* The invariant of the publication types it.
LEMMA PublishedTyped == Published => PublicationTypeOK
<1> SUFFICES ASSUME Published PROVE PublicationTypeOK
  OBVIOUS
<1>1. Cardinality(pub.kind) = (IF pub.pc = "idle" THEN 0 ELSE 1)
  <2>1. CASE pub.pc = "idle"
    BY <2>1, FS_EmptySet DEF Published, PublicationTypes
  <2>2. CASE pub.pc # "idle"
    <3>1. PICK k \in Kinds : pub.kind = {k}
      BY <2>2 DEF Published, PublicationTypes
    <3> QED BY <2>2, <3>1, FS_Singleton
  <2> QED BY <2>1, <2>2
<1>2. claim \in [namespace : 0..pub.namespace, kinds : SUBSET Kinds]
  BY PublicationAssumption DEF Published, PublicationTypes
<1> QED BY <1>1, <1>2 DEF PublicationTypeOK, Published, PublicationTypes, Views

-----------------------------------------------------------------------------
(* The controller and the provider.                                        *)

\* The attempt begins without intents and without a call.
LEMMA CleanedInit == Init => Cleaned
<1> SUFFICES ASSUME Init PROVE Cleaned
  OBVIOUS
<1>1. CleanupTypes
  BY CleanupAssumption DEF Init, CleanupTypes, Idle, Stages, Operations, Replay, RowKinds
<1>2. EffectsAreLogged
  BY DEF Init, EffectsAreLogged, Idle
<1>3. ObservedClean
  BY DEF Init, ObservedClean, Idle
<1> QED BY <1>1, <1>2, <1>3 DEF Cleaned

\* A refusal anywhere leaves the store and Stripe as they are.
LEMMA CleanedRefusal ==
    ASSUME Cleaned, UNCHANGED <<fence, store, stripe, app>>, ctl' = Refuse
    PROVE  Cleaned'
<1>1. /\ ctl'.pc = "idle" /\ ctl'.owned = {} /\ ctl' = [Idle EXCEPT !.calls = ctl.calls]
  BY DEF Refuse, Idle
<1>2. CleanupTypes'
  BY <1>1 DEF Cleaned, CleanupTypes, Idle, Stages, Operations, Replay
<1>3. EffectsAreLogged'
  BY <1>1 DEF Cleaned, EffectsAreLogged
<1>4. ObservedClean'
  BY <1>1 DEF Cleaned, ObservedClean, NonePending
<1> QED BY <1>2, <1>3, <1>4 DEF Cleaned

\* The controller's own progress, up to the second observation: it may reach any stage
\* before it, with the record of a done operation only.
LEMMA CleanedProgress ==
    ASSUME Cleaned, UNCHANGED <<fence, store, stripe, app>>, ~store.released,
           ctl' \in [pc : Stages \ {"send", "rerows", "resnapshot", "release"}, op : Operations,
                    initial : SUBSET Resources, open : SUBSET Resources,
                    owned : SUBSET RowKinds, calls : 0..MaxCalls],
           ctl'.pc = "record" => ctl'.op \in stripe.done,
           ctl'.pc # "snapshot" => ctl'.owned = {}
    PROVE  Cleaned'
<1>1. CleanupTypes'
  BY DEF Cleaned, CleanupTypes, Stages
<1>2. EffectsAreLogged'
  BY DEF Cleaned, EffectsAreLogged, Stages
<1>3. ObservedClean'
  BY DEF Cleaned, ObservedClean, Stages
<1> QED BY <1>1, <1>2, <1>3 DEF Cleaned

\* The stages a call passes before it looks for the second time.
LEMMA CleanedCalls ==
    Cleaned /\ (CallReplay \/ AssertCurrent \/ AssertOwner \/ ObserveIntent \/ ListPending
               \/ ReadInventory \/ ReadRows \/ ReadSnapshot \/ CleanFixtures) => Cleaned'
<1> SUFFICES ASSUME Cleaned, CallReplay \/ AssertCurrent \/ AssertOwner \/ ObserveIntent \/ ListPending
               \/ ReadInventory \/ ReadRows \/ ReadSnapshot \/ CleanFixtures
             PROVE  Cleaned'
  OBVIOUS
<1>1. UNCHANGED <<fence, store, stripe, app>>
  BY DEF CallReplay, AssertCurrent, AssertOwner, ObserveIntent, ListPending, ReadInventory,
         ReadRows, ReadSnapshot, CleanFixtures, Go
<1>2. ~store.released
  BY DEF CallReplay, AssertCurrent, AssertOwner, ObserveIntent, ListPending, ReadInventory,
         ReadRows, ReadSnapshot, CleanFixtures, At, Cleaned, ObservedClean
<1> SUFFICES ASSUME ctl' # Refuse PROVE Cleaned'
  BY <1>1, CleanedRefusal
<1> USE DEF At, To, Go, Stages
<1>3. /\ ctl \in [pc : Stages, op : Operations, initial : SUBSET Resources,
                 open : SUBSET Resources, owned : SUBSET RowKinds, calls : 0..MaxCalls]
      /\ ctl.pc # "snapshot" => ctl.owned = {}
  BY DEF Cleaned, CleanupTypes, ObservedClean
<1>4. CASE CallReplay
  BY <1>1, <1>2, <1>3, <1>4, CleanedProgress DEF CallReplay, Operations, Replay
<1>5. CASE AssertCurrent \/ AssertOwner
  BY <1>1, <1>2, <1>3, <1>5, CleanedProgress DEF AssertCurrent, AssertOwner
<1>6. CASE ObserveIntent
  BY <1>1, <1>2, <1>3, <1>6, CleanedProgress DEF ObserveIntent, ObservationMatches, Observations
<1>7. CASE ListPending \/ CleanFixtures
  BY <1>1, <1>2, <1>3, <1>7, CleanedProgress DEF ListPending, CleanFixtures
<1>8. CASE ReadInventory
  <2>1. /\ ctl' = [ctl EXCEPT !.pc = "rows", !.initial = stripe.exists, !.open = stripe.open]
        /\ stripe.exists \in SUBSET Resources /\ stripe.open \in SUBSET Resources /\ ctl.pc = "inventory"
    BY <1>3, <1>8 DEF ReadInventory, Cleaned, CleanupTypes
  <2> QED BY <1>1, <1>2, <1>3, <2>1, CleanedProgress
<1>9. CASE ReadRows
  <2>1. ctl' = [ctl EXCEPT !.pc = "snapshot", !.owned = app.rows] /\ app.rows \in SUBSET RowKinds
    BY <1>3, <1>9 DEF ReadRows, OwnedRows, Cleaned, CleanupTypes
  <2> QED BY <1>1, <1>2, <1>3, <2>1, CleanedProgress
<1>10. CASE ReadSnapshot
  <2>1. ctl.owned = {} /\ (ctl.open = {} \/ Max(ctl.open) \in Operations)
    BY <1>3, <1>10, MaxIsOpen DEF ReadSnapshot, RetainsNothing, Operations
  <2>2. ctl' = IF ctl.open = {} THEN To("fixtures") ELSE [To("assert") EXCEPT !.op = Max(ctl.open)]
    BY <1>10 DEF ReadSnapshot
  <2> QED BY <1>1, <1>2, <1>3, <2>1, <2>2, CleanedProgress
<1> QED BY <1>4, <1>5, <1>6, <1>7, <1>8, <1>9, <1>10

\* The steps that write to the store or to Stripe.
LEMMA CleanedMutation ==
    Cleaned /\ (BeginIntent \/ SendMutation \/ RecordReceipt \/ CallCleanup) => Cleaned'
<1> SUFFICES ASSUME Cleaned, BeginIntent \/ SendMutation \/ RecordReceipt \/ CallCleanup
             PROVE  Cleaned'
  OBVIOUS
<1> USE DEF At, To, Go, Stages
<1>1. /\ CleanupTypes /\ EffectsAreLogged /\ ObservedClean /\ ~store.released
      /\ ctl.op \in Operations
  BY DEF BeginIntent, SendMutation, RecordReceipt, CallCleanup, Cleaned, CleanupTypes, ObservedClean
<1>2. CASE BeginIntent
  <2>1. CASE Go(FALSE, ctl)
    BY <2>1, CleanedRefusal
  <2>2. CASE ~Go(FALSE, ctl)
    <3>1. /\ MayBegin(ctl.op) /\ store' = [store EXCEPT !.intent[ctl.op] = "in_flight"]
          /\ ctl' = [ctl EXCEPT !.pc = "send"] /\ ctl.pc = "begin"
          /\ UNCHANGED <<fence, stripe, app>>
      BY <1>2, <2>2 DEF BeginIntent
    <3>2. CleanupTypes'
      BY <1>1, <3>1 DEF CleanupTypes
    <3>3. /\ store'.released = FALSE /\ ctl'.op = ctl.op /\ ctl'.pc = "send" /\ ctl'.owned = {}
          /\ store'.intent = [store.intent EXCEPT ![ctl.op] = "in_flight"]
      BY <1>1, <3>1 DEF CleanupTypes, ObservedClean
    <3>4. EffectsAreLogged'
      BY <1>1, <3>1, <3>3 DEF CleanupTypes, EffectsAreLogged, MayBegin
    <3>5. ObservedClean'
      BY <1>1, <3>1, <3>3 DEF ObservedClean
    <3> QED BY <3>2, <3>4, <3>5 DEF Cleaned
  <2> QED BY <2>1, <2>2
<1>3. CASE SendMutation
  <2>1. /\ ctl.pc = "send" /\ UNCHANGED <<fence, store, app>>
        /\ \/ ctl' = [ctl EXCEPT !.pc = "reconcile"]
           \/ ctl' = [Idle EXCEPT !.calls = ctl.calls]
        /\ \/ stripe' = stripe
           \/ stripe' = Carried(stripe, ctl.op)
           \/ stripe' = [stripe EXCEPT !.flying = @ \cup {ctl.op}]
    BY <1>3 DEF SendMutation, Refuse
  <2>2. /\ ctl'.pc \in {"idle", "reconcile"} /\ ctl'.owned = {}
        /\ ctl' \in [pc : Stages, op : Operations, initial : SUBSET Resources,
                    open : SUBSET Resources, owned : SUBSET RowKinds, calls : 0..MaxCalls]
    BY <1>1, <2>1 DEF CleanupTypes, ObservedClean, Idle, Operations, Replay
  <2>3. /\ stripe'.exists = stripe.exists /\ stripe'.open \subseteq stripe.open
        /\ \/ stripe' = stripe
           \/ stripe'.done = stripe.done \cup {ctl.op} /\ stripe'.flying = stripe.flying \ {ctl.op}
           \/ stripe'.done = stripe.done /\ stripe'.flying = stripe.flying \cup {ctl.op}
        /\ stripe' \in [exists : SUBSET Resources, open : SUBSET Resources,
                        flying : SUBSET Operations, done : SUBSET Operations]
    <3>1. CASE stripe' = stripe
      BY <1>1, <3>1 DEF CleanupTypes
    <3>2. CASE stripe' = Carried(stripe, ctl.op)
      BY <1>1, <3>2 DEF CleanupTypes, Carried
    <3>3. CASE stripe' = [stripe EXCEPT !.flying = @ \cup {ctl.op}]
      BY <1>1, <3>3 DEF CleanupTypes
    <3> QED BY <2>1, <3>1, <3>2, <3>3
  <2>4. CleanupTypes'
    BY <1>1, <2>1, <2>2, <2>3 DEF CleanupTypes
  <2>5. EffectsAreLogged'
    BY <1>1, <2>1, <2>2, <2>3 DEF EffectsAreLogged
  <2>6. ObservedClean'
    BY <1>1, <2>1, <2>2 DEF ObservedClean
  <2> QED BY <2>4, <2>5, <2>6 DEF Cleaned
<1>4. CASE RecordReceipt
  <2>1. CASE Go(FALSE, ctl)
    BY <2>1, CleanedRefusal
  <2>2. CASE ~Go(FALSE, ctl)
    <3>1. /\ store' = Recorded(ctl.op) /\ store.intent[ctl.op] = "in_flight"
          /\ ctl' = NextResource(ctl) /\ ctl.pc = "record"
          /\ UNCHANGED <<fence, stripe, app>>
      BY <1>4, <2>2 DEF RecordReceipt, Reconciling
    <3>2. /\ ctl'.pc \in {"idle", "fixtures", "assert"} /\ ctl'.owned = {}
          /\ ctl' \in [pc : Stages, op : Operations, initial : SUBSET Resources,
                      open : SUBSET Resources, owned : SUBSET RowKinds, calls : 0..MaxCalls]
      <4>1. ctl \in [pc : Stages, op : Operations, initial : SUBSET Resources,
                    open : SUBSET Resources, owned : SUBSET RowKinds, calls : 0..MaxCalls]
            /\ ctl.owned = {}
        BY <1>1, <3>1 DEF CleanupTypes, ObservedClean
      <4>2. CASE ctl.op = Replay
        BY <3>1, <4>1, <4>2 DEF NextResource, Refuse, Idle, Operations, Replay
      <4>3. CASE ctl.op # Replay
        <5> DEFINE left == ctl.open \ {ctl.op}
        <5>1. left = {} \/ Max(left) \in Operations
          BY <4>1, MaxIsOpen DEF Operations
        <5>2. left = {} => ctl' = [ctl EXCEPT !.pc = "fixtures", !.open = {}]
          BY <3>1, <4>3 DEF NextResource
        <5>3. left # {} => ctl' = [ctl EXCEPT !.pc = "assert", !.open = left, !.op = Max(left)]
          BY <3>1, <4>3 DEF NextResource
        <5>4. left \in SUBSET Resources
          BY <4>1
        <5> HIDE DEF left
        <5> QED BY <4>1, <5>1, <5>2, <5>3, <5>4
      <4> QED BY <4>2, <4>3
    <3>3. CleanupTypes'
      BY <1>1, <3>1, <3>2 DEF CleanupTypes, Recorded
    <3>4. /\ store'.released = FALSE
          /\ store'.intent = [store.intent EXCEPT ![ctl.op] = "reconciled"]
      BY <1>1, <3>1 DEF CleanupTypes, Recorded
    <3>5. EffectsAreLogged'
      BY <1>1, <3>1, <3>2, <3>4 DEF CleanupTypes, EffectsAreLogged
    <3>6. ObservedClean'
      BY <1>1, <3>1, <3>2, <3>4 DEF ObservedClean
    <3> QED BY <3>3, <3>5, <3>6 DEF Cleaned
  <2> QED BY <2>1, <2>2
<1>5. CASE CallCleanup
  <2>1. /\ ctl' = [Idle EXCEPT !.pc = "pending", !.calls = ctl.calls + 1] /\ ctl.calls < MaxCalls
        /\ app' = [app EXCEPT !.late = {}, !.lateRows = {}]
        /\ UNCHANGED <<fence, store, stripe>>
    BY <1>5 DEF CallCleanup
  <2>2. CleanupTypes'
    <3>1. ctl.calls + 1 \in 0..MaxCalls
      BY <1>1, <2>1, CleanupAssumption DEF CleanupTypes
    <3>2. ctl' \in [pc : Stages, op : Operations, initial : SUBSET Resources,
                    open : SUBSET Resources, owned : SUBSET RowKinds, calls : 0..MaxCalls]
      BY <2>1, <3>1 DEF Idle, Operations, Replay
    <3>3. app' \in [rows : SUBSET RowKinds, late : SUBSET Resources, lateRows : SUBSET RowKinds]
          /\ app'.late = {} /\ app'.lateRows = {}
      BY <1>1, <2>1 DEF CleanupTypes
    <3> QED BY <1>1, <2>1, <3>2, <3>3 DEF CleanupTypes
  <2>3. ctl'.pc = "pending" /\ ctl'.owned = {}
    BY <2>1 DEF Idle
  <2>4. EffectsAreLogged' /\ ObservedClean'
    BY <1>1, <2>1, <2>3 DEF EffectsAreLogged, ObservedClean
  <2> QED BY <2>2, <2>4 DEF Cleaned
<1> QED BY <1>2, <1>3, <1>4, <1>5

\* The second observation, and the release after it.
LEMMA CleanedRelease ==
    Cleaned /\ (ReadAgain \/ RowsAgain \/ SnapshotAgain \/ Release) => Cleaned'
<1> SUFFICES ASSUME Cleaned, ReadAgain \/ RowsAgain \/ SnapshotAgain \/ Release
             PROVE  Cleaned'
  OBVIOUS
<1> USE DEF At, To, Go, Stages
<1>1. /\ CleanupTypes /\ EffectsAreLogged /\ ObservedClean /\ ~store.released
      /\ ctl.owned = {} /\ app.rows \in SUBSET {"auth_user", "billing"}
  BY DEF ReadAgain, RowsAgain, SnapshotAgain, Release, Cleaned, CleanupTypes, ObservedClean,
         RowKinds, InSnapshot
<1>2. CASE UNCHANGED <<fence, store, stripe, app>> /\ ctl' = Refuse
  BY <1>2, CleanedRefusal
<1>3. CASE ReadAgain /\ ctl' # Refuse
  <2>1. UNCHANGED <<fence, store, stripe, app>> /\ ctl' = [ctl EXCEPT !.pc = "rerows"] /\ stripe.open = {}
    BY <1>3 DEF ReadAgain, AsExpected
  <2>2. CleanupTypes'
    BY <1>1, <2>1 DEF CleanupTypes
  <2>3. EffectsAreLogged' /\ ObservedClean'
    BY <1>1, <2>1 DEF CleanupTypes, EffectsAreLogged, ObservedClean
  <2> QED BY <2>2, <2>3 DEF Cleaned
<1>4. CASE RowsAgain /\ ctl' # Refuse
  <2>1. /\ UNCHANGED <<fence, store, stripe, app>> /\ ctl' = [ctl EXCEPT !.pc = "resnapshot"]
        /\ app.rows = {} /\ ctl.pc = "rerows"
    BY <1>1, <1>4 DEF RowsAgain, SameRows, OwnedRows
  <2>2. CleanupTypes'
    BY <1>1, <2>1 DEF CleanupTypes
  <2>3. EffectsAreLogged' /\ ObservedClean'
    BY <1>1, <2>1 DEF CleanupTypes, EffectsAreLogged, ObservedClean
  <2> QED BY <2>2, <2>3 DEF Cleaned
<1>5. CASE SnapshotAgain /\ ctl' # Refuse
  <2>1. /\ UNCHANGED <<fence, store, stripe, app>> /\ ctl' = [ctl EXCEPT !.pc = "release"]
        /\ app.rows \cap InSnapshot = {} /\ ctl.pc = "resnapshot"
    BY <1>1, <1>5 DEF SnapshotAgain, Projected
  <2>2. CleanupTypes'
    BY <1>1, <2>1 DEF CleanupTypes
  <2>3. EffectsAreLogged' /\ ObservedClean'
    BY <1>1, <2>1 DEF CleanupTypes, EffectsAreLogged, ObservedClean
  <2> QED BY <2>2, <2>3 DEF Cleaned
<1>6. CASE Release /\ ~UNCHANGED <<fence, store, stripe, app>>
  <2>1. /\ NonePending /\ store' = [store EXCEPT !.released = TRUE] /\ fence' = "lost"
        /\ ctl' = [Idle EXCEPT !.calls = ctl.calls] /\ UNCHANGED <<stripe, app>> /\ ctl.pc = "release"
    BY <1>6 DEF Release, MayRelease, Settled, Refuse
  <2>2. /\ ctl'.pc = "idle" /\ ctl'.owned = {} /\ store'.intent = store.intent
        /\ store' \in [terminal : BOOLEAN, released : BOOLEAN,
                       intent : [Operations -> {"none", "in_flight", "reconciled"}]]
        /\ ctl' \in [pc : Stages, op : Operations, initial : SUBSET Resources,
                    open : SUBSET Resources, owned : SUBSET RowKinds, calls : 0..MaxCalls]
    BY <1>1, <2>1 DEF CleanupTypes, Idle, Operations, Replay
  <2>3. CleanupTypes'
    BY <1>1, <2>1, <2>2 DEF CleanupTypes
  <2>4. EffectsAreLogged' /\ ObservedClean'
    BY <1>1, <2>1, <2>2 DEF EffectsAreLogged, ObservedClean, NonePending
  <2> QED BY <2>3, <2>4 DEF Cleaned
<1> QED BY <1>2, <1>3, <1>4, <1>5, <1>6 DEF ReadAgain, RowsAgain, SnapshotAgain, Release

\* What others do: the provider, the application, and whoever moves the fence.
LEMMA CleanedElsewhere ==
    Cleaned /\ (Lands \/ ResourceAppears \/ RowAppears \/ Terminate \/ LoseFence \/ Handoff
               \/ RecoverIntent) => Cleaned'
<1> SUFFICES ASSUME Cleaned, Lands \/ ResourceAppears \/ RowAppears \/ Terminate \/ LoseFence
                    \/ Handoff \/ RecoverIntent
             PROVE  Cleaned'
  OBVIOUS
<1>1. CleanupTypes /\ EffectsAreLogged /\ ObservedClean
  BY DEF Cleaned
<1>2. CASE Lands
  <2>1. PICK o \in stripe.flying : stripe' = Carried(stripe, o)
    BY <1>2 DEF Lands
  <2>2. /\ stripe'.exists = stripe.exists /\ stripe'.open \subseteq stripe.open
        /\ stripe'.done = stripe.done \cup {o} /\ stripe'.flying = stripe.flying \ {o}
        /\ stripe' \in [exists : SUBSET Resources, open : SUBSET Resources,
                        flying : SUBSET Operations, done : SUBSET Operations]
    <3>1. o \in Operations /\ stripe' = [stripe EXCEPT !.done = stripe.done \cup {o}, !.open = stripe.open \ {o},
                                                     !.flying = stripe.flying \ {o}]
      BY <1>1, <2>1 DEF CleanupTypes, Carried
    <3> QED BY <1>1, <3>1 DEF CleanupTypes
  <2>3. UNCHANGED <<fence, store, app, ctl>>
    BY <1>2 DEF Lands
  <2>4. CleanupTypes'
    BY <1>1, <2>2, <2>3 DEF CleanupTypes
  <2>5. EffectsAreLogged' /\ ObservedClean'
    BY <1>1, <2>2, <2>3 DEF CleanupTypes, EffectsAreLogged, ObservedClean, NonePending
  <2> QED BY <2>4, <2>5 DEF Cleaned
<1>3. CASE ResourceAppears
  <2>1. PICK r \in Resources \ stripe.exists :
          /\ stripe' = [stripe EXCEPT !.exists = @ \cup {r}, !.open = @ \cup {r}]
          /\ app' = IF ctl.pc \in {"rerows", "resnapshot", "release"} \/ store.released
                    THEN [app EXCEPT !.late = @ \cup {r}] ELSE app
    BY <1>3 DEF ResourceAppears
  <2>2. /\ stripe'.exists = stripe.exists \cup {r} /\ stripe'.open = stripe.open \cup {r}
        /\ stripe'.done = stripe.done /\ stripe'.flying = stripe.flying
        /\ stripe' \in [exists : SUBSET Resources, open : SUBSET Resources,
                        flying : SUBSET Operations, done : SUBSET Operations]
    BY <1>1, <2>1 DEF CleanupTypes
  <2>3. /\ app'.rows = app.rows /\ app'.lateRows = app.lateRows
        /\ app'.late = IF ctl.pc \in {"rerows", "resnapshot", "release"} \/ store.released
                      THEN app.late \cup {r} ELSE app.late
        /\ app' \in [rows : SUBSET RowKinds, late : SUBSET Resources, lateRows : SUBSET RowKinds]
    <3>1. CASE ctl.pc \in {"rerows", "resnapshot", "release"} \/ store.released
      BY <1>1, <2>1, <3>1 DEF CleanupTypes
    <3>2. CASE ~(ctl.pc \in {"rerows", "resnapshot", "release"} \/ store.released)
      BY <1>1, <2>1, <3>2 DEF CleanupTypes
    <3> QED BY <3>1, <3>2
  <2>4. UNCHANGED <<fence, store, ctl>>
    BY <1>3 DEF ResourceAppears
  <2>5. CleanupTypes'
    BY <1>1, <2>2, <2>3, <2>4 DEF CleanupTypes
  <2>6. EffectsAreLogged' /\ ObservedClean'
    BY <1>1, <2>2, <2>3, <2>4 DEF EffectsAreLogged, ObservedClean, NonePending
  <2> QED BY <2>5, <2>6 DEF Cleaned
<1>4. CASE RowAppears
  <2>1. PICK k \in RowKinds \ app.rows :
          app' = [app EXCEPT !.rows = @ \cup {k},
                             !.lateRows = IF LastLookOver(k) THEN @ \cup {k} ELSE @]
    BY <1>4 DEF RowAppears
  <2>2. /\ app'.rows = app.rows \cup {k} /\ app'.late = app.late
        /\ app'.lateRows = IF LastLookOver(k) THEN app.lateRows \cup {k} ELSE app.lateRows
        /\ app' \in [rows : SUBSET RowKinds, late : SUBSET Resources, lateRows : SUBSET RowKinds]
    BY <1>1, <2>1 DEF CleanupTypes
  <2>3. UNCHANGED <<fence, store, stripe, ctl>>
    BY <1>4 DEF RowAppears
  <2>4. CleanupTypes'
    BY <1>1, <2>2, <2>3 DEF CleanupTypes
  <2>5. EffectsAreLogged' /\ ObservedClean'
    BY <1>1, <2>2, <2>3 DEF EffectsAreLogged, ObservedClean, NonePending, LastLookOver, At
  <2> QED BY <2>4, <2>5 DEF Cleaned
<1>5. CASE Terminate
  <2>1. store' = [store EXCEPT !.terminal = TRUE] /\ UNCHANGED <<fence, stripe, app, ctl>>
    BY <1>5 DEF Terminate
  <2> QED BY <1>1, <2>1 DEF Cleaned, CleanupTypes, EffectsAreLogged, ObservedClean, NonePending
<1>6. CASE LoseFence
  BY <1>1, <1>6 DEF LoseFence, cleanupVars, Cleaned, CleanupTypes, EffectsAreLogged, ObservedClean,
                    NonePending
<1>7. CASE Handoff
  <2>1. /\ ~store.released /\ ctl' = [Idle EXCEPT !.calls = ctl.calls]
        /\ UNCHANGED <<store, stripe, app>>
    BY <1>7 DEF Handoff, Refuse
  <2> QED BY <1>1, <2>1 DEF Cleaned, CleanupTypes, EffectsAreLogged, ObservedClean, Idle, Stages,
                            Operations, Replay
<1>8. CASE RecoverIntent
  <2>1. PICK o \in Operations : /\ store.intent[o] = "in_flight" /\ o \in stripe.done
                                /\ store' = [store EXCEPT !.intent[o] = "reconciled"]
    BY <1>8 DEF RecoverIntent, Reconciling, ObservationMatches, Observations, Recorded
  <2>2. UNCHANGED <<fence, stripe, app, ctl>> /\ fence = "recovery"
    BY <1>8 DEF RecoverIntent
  <2>3. /\ store'.intent = [store.intent EXCEPT ![o] = "reconciled"]
        /\ store'.released = FALSE /\ store.released = FALSE
        /\ store' \in [terminal : BOOLEAN, released : BOOLEAN,
                       intent : [Operations -> {"none", "in_flight", "reconciled"}]]
    BY <1>1, <2>1, <2>2 DEF CleanupTypes, ObservedClean
  <2>4. CleanupTypes'
    BY <1>1, <2>2, <2>3 DEF CleanupTypes
  <2>5. EffectsAreLogged' /\ ObservedClean'
    BY <1>1, <2>1, <2>2, <2>3 DEF CleanupTypes, EffectsAreLogged, ObservedClean
  <2> QED BY <2>4, <2>5 DEF Cleaned
<1> QED BY <1>2, <1>3, <1>4, <1>5, <1>6, <1>7, <1>8

-----------------------------------------------------------------------------
(* The invariant of the whole, and what follows from it.                   *)

\* Every step of the collector, the controller, the provider and the application
\* keeps the invariant.
LEMMA InvNext == Inv /\ [Next]_vars => Inv'
<1> SUFFICES ASSUME Inv, [Next]_vars PROVE Inv'
  OBVIOUS
<1>1. Published /\ Cleaned /\ fence \in {"held", "recovery", "lost"}
  BY DEF Inv, Published, PublicationTypes
<1>2. CASE CollectorStep
  <2>1. Published'
    BY <1>1, <1>2, PublishedView, PublishedRestart, PublishedInsert, PublishedCommit, PublishedReadback
       DEF CollectorStep, PublicationStep
  <2>2. fence' = fence
    BY <1>2 DEF CollectorStep, PublicationStep, Publish, PublishReady, ClaimFixture, ConnectionLost,
         InsertAttemptFixture, CommitFixture, Readback, Restart
  <2>3. Cleaned'
    BY <1>1, <1>2, <2>2 DEF CollectorStep, Cleaned, CleanupTypes, EffectsAreLogged, ObservedClean, NonePending, cleanupVars
  <2> QED BY <2>1, <2>3 DEF Inv
<1>3. CASE ControllerStep
  <2>1. UNCHANGED publicationVars /\ fence' \in {"held", "recovery", "lost"}
    BY <1>1, <1>3 DEF ControllerStep, CallReplay, AssertCurrent, AssertOwner, BeginIntent, SendMutation,
         ObserveIntent, RecordReceipt, CallCleanup, ListPending, ReadInventory, ReadRows, ReadSnapshot,
         CleanFixtures, ReadAgain, RowsAgain, SnapshotAgain, Release, Go
  <2>2. Cleaned'
    BY <1>1, <1>3, CleanedCalls, CleanedMutation, CleanedRelease DEF ControllerStep
  <2> QED BY <1>1, <2>1, <2>2, PublishedElsewhere DEF Inv
<1>4. CASE Lands \/ ResourceAppears \/ RowAppears \/ Terminate \/ LoseFence \/ Handoff \/ RecoverIntent
  <2>1. UNCHANGED publicationVars /\ fence' \in {"held", "recovery", "lost"}
    BY <1>1, <1>4 DEF Lands, ResourceAppears, RowAppears, Terminate, LoseFence, Handoff, RecoverIntent
  <2>2. Cleaned'
    BY <1>1, <1>4, CleanedElsewhere
  <2> QED BY <1>1, <2>1, <2>2, PublishedElsewhere DEF Inv
<1>5. CASE UNCHANGED vars
  <2>1. UNCHANGED publicationVars /\ fence' = fence /\ UNCHANGED cleanupVars
    BY <1>5 DEF vars
  <2>2. Cleaned'
    BY <1>1, <2>1 DEF Cleaned, CleanupTypes, EffectsAreLogged, ObservedClean, NonePending, cleanupVars
  <2> QED BY <1>1, <2>1, <2>2, PublishedElsewhere DEF Inv
<1> QED BY <1>2, <1>3, <1>4, <1>5 DEF Next

\* The invariant holds in every state the specification reaches.
THEOREM Invariance == Spec => []Inv
<1>1. Init => Inv
  BY PublishedInit, CleanedInit DEF Init, Inv
<1> QED BY <1>1, InvNext, PTL DEF Spec

\* Every variable of the publication and of the cleanup keeps its type, and only an
\* attempt without a fence is released.
THEOREM TypeCorrect == Spec => []TypeOK
<1>1. Inv => TypeOK
  BY PublishedTyped DEF Inv, Cleaned, CleanupTypes, ObservedClean, TypeOK
<1> QED BY <1>1, Invariance, PTL

\* fixture-run.mjs publish and claimFixtureCase: a row that nobody confirmed is the
\* last one of its namespace, and if its claim was committed the last one of its case,
\* whatever fails on either side of the two projects and however often the collector
\* restarts.
THEOREM UnconfirmedEnds == Spec => []UnconfirmedRowEndsCase
<1>1. Inv => UnconfirmedRowEndsCase
  BY DEF Inv, Published
<1> QED BY <1>1, Invariance, PTL

\* cleanup.mjs cleanupOwnedResources and store.mjs cleanup: nothing of a released
\* attempt is under way, open or stored, but for what appeared after the last look.
THEOREM NothingLeft == Spec => []ReleasedLeavesNothing
<1>1. Inv => ReleasedLeavesNothing
  BY DEF Inv, Cleaned, CleanupTypes, EffectsAreLogged, ObservedClean, NonePending, ReleasedLeavesNothing
<1> QED BY <1>1, Invariance, PTL

-----------------------------------------------------------------------------
(* The write-ahead log.                                                    *)

\* A step that neither writes the store nor reaches Stripe is a stutter of the log.
LEMMA LogStutters ==
    ASSUME store'.intent = store.intent, store'.released = store.released, stripe'.done = stripe.done
    PROVE  UNCHANGED Log!vars
BY DEF Log!vars

\* The steps of the cleanup that the log sees: an intent is begun, a mutation carried
\* out, a receipt recorded, the attempt released.
LEMMA LogNext == Inv /\ [Next]_vars => [Log!Next]_(Log!vars)
<1> SUFFICES ASSUME Inv, [Next]_vars PROVE [Log!Next]_(Log!vars)
  OBVIOUS
<1>1. /\ CleanupTypes /\ EffectsAreLogged /\ ObservedClean /\ ctl.op \in Operations
      /\ store.intent \in [Operations -> {"none", "in_flight", "reconciled"}]
  BY DEF Inv, Cleaned, CleanupTypes
<1>2. ASSUME NEW o \in Operations, stripe' = Carried(stripe, o), store' = store,
             store.intent[o] = "in_flight"
      PROVE  Log!Effect(o)
  <2>1. stripe'.done = stripe.done \cup {o}
    BY <1>1, <1>2 DEF CleanupTypes, Carried
  <2>2. ~store.released
    BY <1>1, <1>2 DEF ObservedClean, NonePending
  <2> QED BY <1>2, <2>1, <2>2 DEF Log!Effect
<1>3. ASSUME NEW o \in Operations, store' = Recorded(o), stripe' = stripe, Reconciling(o), o \in stripe.done
      PROVE  Log!Settle(o)
  <2>1. /\ store'.intent = [store.intent EXCEPT ![o] = "reconciled"]
        /\ store'.released = store.released /\ store.intent[o] = "in_flight"
    BY <1>1, <1>3 DEF CleanupTypes, Recorded, Reconciling
  <2>2. ~store.released
    BY <1>1, <2>1 DEF ObservedClean, NonePending
  <2>3. {p \in Operations : store'.intent[p] # "none"} = {p \in Operations : store.intent[p] # "none"}
    BY <1>1, <2>1
  <2>4. {p \in Operations : store'.intent[p] = "reconciled"}
          = {p \in Operations : store.intent[p] = "reconciled"} \cup {o}
    BY <1>1, <2>1
  <2> QED BY <1>3, <2>1, <2>2, <2>3, <2>4 DEF Log!Settle
<1>4. CASE BeginIntent /\ MayBegin(ctl.op) /\ store' = [store EXCEPT !.intent[ctl.op] = "in_flight"]
  <2>1. /\ store'.intent = [store.intent EXCEPT ![ctl.op] = "in_flight"]
        /\ store'.released = store.released /\ store.intent[ctl.op] = "none" /\ ~store.released
    BY <1>1, <1>4 DEF CleanupTypes, MayBegin
  <2>2. {p \in Operations : store'.intent[p] # "none"}
          = {p \in Operations : store.intent[p] # "none"} \cup {ctl.op}
    BY <1>1, <2>1
  <2>3. {p \in Operations : store'.intent[p] = "reconciled"}
          = {p \in Operations : store.intent[p] = "reconciled"}
    BY <1>1, <2>1
  <2>4. stripe' = stripe
    BY <1>4 DEF BeginIntent, Go
  <2>5. PICK o \in Operations : o = ctl.op
    BY <1>1
  <2>6. Log!Log(o)
    BY <1>1, <2>1, <2>2, <2>3, <2>4, <2>5 DEF Log!Log
  <2> QED BY <2>6 DEF Log!Next
<1>5. CASE SendMutation
  <2>1. store' = store /\ ctl.pc = "send" /\ store.intent[ctl.op] = "in_flight"
    BY <1>1, <1>5 DEF SendMutation, At, EffectsAreLogged
  <2>2. CASE stripe' = Carried(stripe, ctl.op)
    BY <1>1, <1>2, <2>1, <2>2 DEF Log!Next
  <2>3. CASE stripe' # Carried(stripe, ctl.op)
    <3>1. stripe'.done = stripe.done
      BY <1>1, <1>5, <2>3 DEF SendMutation, CleanupTypes
    <3> QED BY <2>1, <3>1, LogStutters
  <2> QED BY <2>2, <2>3
<1>6. CASE Lands
  <2>1. PICK o \in stripe.flying : stripe' = Carried(stripe, o)
    BY <1>6 DEF Lands
  <2>2. store' = store /\ o \in Operations /\ store.intent[o] = "in_flight"
    BY <1>1, <1>6, <2>1 DEF Lands, CleanupTypes, EffectsAreLogged
  <2> QED BY <1>2, <2>1, <2>2 DEF Log!Next
<1>7. CASE RecordReceipt /\ store' # store
  <2>1. store' = Recorded(ctl.op) /\ stripe' = stripe /\ Reconciling(ctl.op) /\ ctl.op \in stripe.done
    BY <1>1, <1>7 DEF RecordReceipt, At, Go, EffectsAreLogged
  <2> QED BY <1>1, <1>3, <2>1 DEF Log!Next
<1>8. CASE RecoverIntent
  <2>1. PICK o \in Operations : Reconciling(o) /\ ObservationMatches(o) /\ store' = Recorded(o)
    BY <1>8 DEF RecoverIntent
  <2>2. stripe' = stripe /\ o \in stripe.done
    BY <1>8, <2>1 DEF RecoverIntent, ObservationMatches, Observations
  <2> QED BY <1>3, <2>1, <2>2 DEF Log!Next
<1>9. CASE Release /\ store' # store
  <2>1. store' = [store EXCEPT !.released = TRUE] /\ stripe' = stripe /\ NonePending /\ ctl.pc = "release"
    BY <1>9 DEF Release, MayRelease, Settled, At, Go
  <2>2. store'.intent = store.intent /\ store'.released = TRUE /\ store.released = FALSE
    BY <1>1, <2>1 DEF CleanupTypes, ObservedClean
  <2>3. {p \in Operations : store.intent[p] # "none"} = {p \in Operations : store.intent[p] = "reconciled"}
    BY <1>1, <2>1 DEF NonePending
  <2>4. Log!Close
    BY <2>1, <2>2, <2>3 DEF Log!Close
  <2> QED BY <2>4 DEF Log!Next
<1>10. CASE Terminate \/ ResourceAppears
  <2>1. store'.intent = store.intent /\ store'.released = store.released /\ stripe'.done = stripe.done
    BY <1>1, <1>10 DEF Terminate, ResourceAppears, CleanupTypes
  <2> QED BY <2>1, LogStutters
<1>11. CASE UNCHANGED <<store, stripe>>
  BY <1>11, LogStutters
<1>12. CASE ControllerStep
  <2>1. CASE BeginIntent
    BY <1>4, <1>11, <2>1 DEF BeginIntent, Go
  <2>2. CASE RecordReceipt
    BY <1>7, <1>11, <2>2 DEF RecordReceipt, Go
  <2>3. CASE Release
    BY <1>9, <1>11, <2>3 DEF Release, Go
  <2>4. CASE CallReplay \/ AssertCurrent \/ AssertOwner \/ ObserveIntent \/ CallCleanup \/ ListPending
             \/ ReadInventory \/ ReadRows \/ ReadSnapshot \/ CleanFixtures \/ ReadAgain \/ RowsAgain
             \/ SnapshotAgain
    BY <1>11, <2>4 DEF CallReplay, AssertCurrent, AssertOwner, ObserveIntent, CallCleanup, ListPending,
         ReadInventory, ReadRows, ReadSnapshot, CleanFixtures, ReadAgain, RowsAgain, SnapshotAgain, Go
  <2> QED BY <1>5, <1>12, <2>1, <2>2, <2>3, <2>4 DEF ControllerStep
<1>13. CASE CollectorStep
  BY <1>11, <1>13 DEF CollectorStep, cleanupVars
<1>14. CASE RowAppears \/ LoseFence \/ Handoff
  BY <1>11, <1>14 DEF RowAppears, LoseFence, Handoff, cleanupVars
<1>15. CASE UNCHANGED vars
  BY <1>11, <1>15 DEF vars, cleanupVars
<1> QED BY <1>6, <1>8, <1>10, <1>12, <1>13, <1>14, <1>15 DEF Next

\* lock.mjs withStripeIntent, stripe.mjs reconcileStripeIntent and store.mjs cleanup
\* implement the write-ahead log: an effect is logged before it happens, settled only
\* after it has, and nothing happens once the log is closed.
THEOREM WriteAhead == Spec => ImplementsIntentLog
<1>1. Init => Log!Init
  BY DEF Init, Log!Init
<1>2. ImplementsIntentLog <=> Log!Init /\ [][Log!Next]_(Log!vars)
  BY DEF ImplementsIntentLog, Log!Spec
<1> QED BY <1>1, <1>2, Invariance, LogNext, PTL DEF Spec

=============================================================================
